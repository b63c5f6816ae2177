----------------------------- MODULE ListsProofs -----------------------------
(***************************************************************************)
(* The proof that a list's patches do what whole lists would do: a patch   *)
(* turns any rows into any other (PatchIsExact), the native store refuses  *)
(* none (PacketsAccepted) and holds the rows of the dataset that was sent  *)
(* last (SendsWholeLists), a row event that is accepted names the row the  *)
(* user saw (EventsNameTheShownRow), and a list that is at rest shows its  *)
(* source (CaughtUp).  With the same lemmas about insertions and removals: *)
(* the plan of child moves of the reconciler is right and as short as can  *)
(* be (PlansAreMinimal).                                                   *)
(***************************************************************************)
EXTENDS Lists, ChildMoves, SequenceTheorems, FiniteSetTheorems, WellFoundedInduction, TLAPS

(* Induction over the natural numbers, for a set of them. *)
LEMMA NatSetInduction ==
  ASSUME NEW T \in SUBSET Nat, 0 \in T, \A n \in T : n + 1 \in T
  PROVE  Nat \subseteq T
<1> DEFINE U == Nat \ T
<1> SUFFICES ASSUME U # {} PROVE FALSE
  OBVIOUS
<1>1. \E x \in U : \A y \in U : <<y, x>> \notin OpToRel(<, Nat)
  <2>1. U \subseteq Nat
    OBVIOUS
  <2> HIDE DEF U
  <2> QED BY <2>1, NatLessThanWellFounded, WFMin
<1>2. PICK x \in U : \A y \in U : ~(y < x)
  BY <1>1 DEF OpToRel
<1>3. x # 0 /\ x - 1 \in Nat /\ x - 1 \notin U
  BY <1>2
<1>4. x - 1 + 1 \in T
  BY <1>3
<1> QED BY <1>4

---------------------------------------------------------------------------
(* Positions: what inserting, removing and reordering do, element by element. *)

LEMMA Joined ==
  ASSUME NEW S, NEW a \in Seq(S), NEW b \in Seq(S)
  PROVE  /\ a \o b \in Seq(S)
         /\ Len(a \o b) = Len(a) + Len(b)
         /\ \A j \in 1..Len(a) : (a \o b)[j] = a[j]
         /\ \A j \in 1..Len(b) : (a \o b)[Len(a) + j] = b[j]
<1>1. Len(a) \in Nat /\ Len(b) \in Nat
  OBVIOUS
<1>2. ASSUME NEW j \in 1..Len(b) PROVE (a \o b)[Len(a) + j] = b[j]
  <2>1. Len(a) + j \in 1..Len(a) + Len(b) /\ ~(Len(a) + j <= Len(a)) /\ Len(a) + j - Len(a) = j
    BY <1>1
  <2> QED BY <2>1, ConcatProperties
<1>3. ASSUME NEW j \in 1..Len(a) PROVE (a \o b)[j] = a[j]
  <2>1. j \in 1..Len(a) + Len(b) /\ j <= Len(a)
    BY <1>1
  <2> QED BY <2>1, ConcatProperties
<1> QED BY <1>2, <1>3, ConcatProperties

LEMMA Inserted ==
  ASSUME NEW S, NEW s \in Seq(S), NEW i \in 1..Len(s) + 1, NEW e \in S
  PROVE  /\ InsertAt(s, i, e) \in Seq(S)
         /\ Len(InsertAt(s, i, e)) = Len(s) + 1
         /\ \A j \in 1..Len(s) + 1 :
               InsertAt(s, i, e)[j] = IF j < i THEN s[j] ELSE IF j = i THEN e ELSE s[j - 1]
<1> DEFINE a == SubSeq(s, 1, i - 1)
           b == SubSeq(s, i, Len(s))
           c == a \o <<e>>
<1>0. Len(s) \in Nat /\ i \in Nat /\ i >= 1 /\ i <= Len(s) + 1
  OBVIOUS
<1>1. a \in Seq(S) /\ Len(a) = i - 1 /\ \A j \in 1..i - 1 : a[j] = s[j]
  OBVIOUS
<1>2. b \in Seq(S) /\ Len(b) = Len(s) - i + 1 /\ \A j \in 1..Len(s) - i + 1 : b[j] = s[i + j - 1]
  OBVIOUS
<1>3. InsertAt(s, i, e) = c \o b
  BY DEF InsertAt
<1> HIDE DEF a, b
<1>4. <<e>> \in Seq(S) /\ Len(<<e>>) = 1 /\ <<e>>[1] = e
  OBVIOUS
<1>5. /\ c \in Seq(S) /\ Len(c) = i /\ c[i] = e
      /\ \A j \in 1..i - 1 : c[j] = s[j]
  <2>1. Len(a) + 1 = i
    BY <1>0, <1>1
  <2> HIDE DEF c
  <2>2. c \in Seq(S) /\ Len(c) = Len(a) + 1 /\ c[Len(a) + 1] = e /\ \A j \in 1..Len(a) : c[j] = a[j]
    BY <1>1, <1>4, Joined DEF c
  <2> QED BY <1>1, <2>1, <2>2
<1> HIDE DEF c
<1> DEFINE t == c \o b
<1>6. /\ t \in Seq(S) /\ Len(t) = i + (Len(s) - i + 1)
      /\ \A j \in 1..i : t[j] = c[j]
      /\ \A j \in 1..Len(s) - i + 1 : t[i + j] = b[j]
  <2> HIDE DEF t
  <2>1. t = c \o b /\ Len(b) = Len(s) - i + 1
    BY <1>2 DEF t
  <2> QED BY SMTT(40), <1>2, <1>5, <2>1, Joined
<1> HIDE DEF t
<1>7. ASSUME NEW j \in 1..Len(s) + 1
      PROVE  t[j] = IF j < i THEN s[j] ELSE IF j = i THEN e ELSE s[j - 1]
  <2>1. CASE j < i
    BY <1>0, <1>5, <1>6, <2>1
  <2>2. CASE j = i
    BY <1>0, <1>5, <1>6, <2>2
  <2>3. CASE j > i
    <3>1. j - i \in 1..Len(s) - i + 1 /\ i + (j - i) = j /\ i + (j - i) - 1 = j - 1
      BY <1>0, <2>3
    <3>2. t[i + (j - i)] = b[j - i] /\ b[j - i] = s[i + (j - i) - 1]
      BY <1>2, <1>6, <3>1
    <3> QED BY <1>0, <2>3, <3>1, <3>2
  <2> QED BY <1>0, <2>1, <2>2, <2>3
<1>8. Len(t) = Len(s) + 1
  BY <1>0, <1>6
<1>9. InsertAt(s, i, e) = t
  BY <1>3 DEF t
<1> QED BY <1>6, <1>7, <1>8, <1>9

LEMMA Removed ==
  ASSUME NEW S, NEW s \in Seq(S), NEW i \in 1..Len(s)
  PROVE  /\ RemoveAt(s, i) \in Seq(S)
         /\ Len(RemoveAt(s, i)) = Len(s) - 1
         /\ \A j \in 1..Len(s) - 1 : RemoveAt(s, i)[j] = IF j < i THEN s[j] ELSE s[j + 1]
<1> DEFINE a == SubSeq(s, 1, i - 1)
           b == SubSeq(s, i + 1, Len(s))
           t == a \o b
<1>0. Len(s) \in Nat /\ i \in Nat /\ i >= 1 /\ i <= Len(s)
  OBVIOUS
<1>1. a \in Seq(S) /\ Len(a) = i - 1 /\ \A j \in 1..i - 1 : a[j] = s[j]
  OBVIOUS
<1>2. b \in Seq(S) /\ Len(b) = Len(s) - i /\ \A j \in 1..Len(s) - i : b[j] = s[i + j]
  OBVIOUS
<1>3. RemoveAt(s, i) = t
  BY DEF RemoveAt
<1> HIDE DEF a, b
<1>4. /\ t \in Seq(S) /\ Len(t) = (i - 1) + (Len(s) - i)
      /\ \A j \in 1..i - 1 : t[j] = a[j]
      /\ \A j \in 1..Len(s) - i : t[i - 1 + j] = b[j]
  <2> HIDE DEF t
  <2>1. /\ t \in Seq(S) /\ Len(t) = Len(a) + Len(b)
        /\ \A j \in 1..Len(a) : t[j] = a[j]
        /\ \A j \in 1..Len(b) : t[Len(a) + j] = b[j]
    <3>1. a \in Seq(S) /\ b \in Seq(S)
      BY <1>1, <1>2
    <3> QED BY <3>1, Joined DEF t
  <2>2. Len(a) = i - 1 /\ Len(b) = Len(s) - i
    BY <1>1, <1>2
  <2> QED BY <2>1, <2>2
<1> HIDE DEF t
<1>5. ASSUME NEW j \in 1..Len(s) - 1
      PROVE  t[j] = IF j < i THEN s[j] ELSE s[j + 1]
  <2>1. CASE j < i
    BY <1>0, <1>1, <1>4, <2>1
  <2>2. CASE j >= i
    <3>1. /\ j - i + 1 \in 1..Len(s) - i
          /\ i - 1 + (j - i + 1) = j /\ i + (j - i + 1) = j + 1
      BY <1>0, <2>2
    <3>2. t[i - 1 + (j - i + 1)] = b[j - i + 1] /\ b[j - i + 1] = s[i + (j - i + 1)]
      BY <1>2, <1>4, <3>1
    <3> QED BY <1>0, <2>2, <3>1, <3>2
  <2> QED BY <1>0, <2>1, <2>2
<1>6. Len(t) = Len(s) - 1
  BY <1>0, <1>4
<1> QED BY <1>3, <1>4, <1>5, <1>6

(* An element taken out at p and put in again at i. *)
Moved(s, p, i, j) == IF p < i THEN IF j < p \/ j > i THEN s[j] ELSE IF j = i THEN s[p] ELSE s[j + 1]
                     ELSE IF j < i \/ j > p THEN s[j] ELSE IF j = i THEN s[p] ELSE s[j - 1]
LEMMA Reinserted ==
  ASSUME NEW S, NEW s \in Seq(S), NEW p \in 1..Len(s), NEW i \in 1..Len(s)
  PROVE  LET t == InsertAt(RemoveAt(s, p), i, s[p])
         IN  t \in Seq(S) /\ Len(t) = Len(s) /\ \A j \in 1..Len(s) : t[j] = Moved(s, p, i, j)
<1> DEFINE r == RemoveAt(s, p)
           e == s[p]
           t == InsertAt(r, i, e)
<1>1. r \in Seq(S) /\ Len(r) = Len(s) - 1
      /\ \A j \in 1..Len(s) - 1 : r[j] = IF j < p THEN s[j] ELSE s[j + 1]
  BY Removed
<1> HIDE DEF r
<1>2. e \in S /\ Len(s) \in Nat /\ i \in 1..Len(r) + 1
  BY <1>1
<1> HIDE DEF t, e
<1>3. /\ t \in Seq(S) /\ Len(t) = Len(r) + 1
      /\ \A j \in 1..Len(r) + 1 : t[j] = IF j < i THEN r[j] ELSE IF j = i THEN e ELSE r[j - 1]
  BY <1>1, <1>2, Inserted DEF t
<1>4. ASSUME NEW j \in 1..Len(s) PROVE t[j] = Moved(s, p, i, j)
  <2>1. t[j] = IF j < i THEN r[j] ELSE IF j = i THEN e ELSE r[j - 1]
    BY <1>1, <1>3
  <2>2. j < i => r[j] = IF j < p THEN s[j] ELSE s[j + 1]
    BY <1>1
  <2>3. j > i => r[j - 1] = IF j - 1 < p THEN s[j - 1] ELSE s[j]
    <3>1. j > i => j - 1 \in 1..Len(s) - 1 /\ j - 1 + 1 = j
      OBVIOUS
    <3> QED BY <1>1, <3>1
  <2> QED BY <2>1, <2>2, <2>3 DEF Moved, e
<1>5. t \in Seq(S) /\ Len(t) = Len(s) /\ \A j \in 1..Len(s) : t[j] = Moved(s, p, i, j)
  BY <1>1, <1>3, <1>4
<1> QED BY <1>5 DEF t, r, e

---------------------------------------------------------------------------
(* Rows, each key once, and what a change does to them. *)

Rows(K) == [key : K, rev : Nat]
Unique(rows) == \A i, j \in 1..Len(rows) : rows[i].key = rows[j].key => i = j
RowSeqs(K) == {rows \in Seq(Rows(K)) : Unique(rows)}

LEMMA KeysAre ==
  ASSUME NEW K, NEW rows \in Seq(Rows(K))
  PROVE  /\ KeyList(rows) \in Seq(K) /\ Len(KeyList(rows)) = Len(rows)
         /\ \A i \in 1..Len(rows) : KeyList(rows)[i] = rows[i].key
         /\ \A k : k \in KeysOf(rows) <=> \E i \in 1..Len(rows) : rows[i].key = k
<1>1. \A i \in 1..Len(rows) : rows[i].key \in K
  <2>1. \A i \in 1..Len(rows) : rows[i] \in Rows(K)
    BY ElementOfSeq
  <2> QED BY <2>1 DEF Rows
<1>2. DOMAIN rows = 1..Len(rows) /\ Len(rows) \in Nat
  OBVIOUS
<1>3. KeyList(rows) = [i \in 1..Len(rows) |-> rows[i].key]
  BY <1>2 DEF KeyList
<1>4. KeyList(rows) \in Seq(K) /\ Len(KeyList(rows)) = Len(rows)
      /\ \A i \in 1..Len(rows) : KeyList(rows)[i] = rows[i].key
  BY <1>1, <1>2, <1>3
<1>5. DOMAIN KeyList(rows) = 1..Len(rows)
  BY <1>3
<1> QED BY <1>4, <1>5 DEF KeysOf, ToSet

LEMMA PositionIs ==
  ASSUME NEW s, NEW n, DOMAIN s = 1..n, NEW p \in 1..n,
         \A i \in 1..n : s[i] = s[p] => i = p
  PROVE  Position(s, s[p]) = p
BY DEF Position

LEMMA IndexIs ==
  ASSUME NEW K, NEW rows \in RowSeqs(K), NEW p \in 1..Len(rows)
  PROVE  IndexOf(rows, rows[p].key) = p
<1>1. rows \in Seq(Rows(K)) /\ Unique(rows)
  BY DEF RowSeqs
<1>2. /\ DOMAIN KeyList(rows) = 1..Len(rows)
      /\ \A i \in 1..Len(rows) : KeyList(rows)[i] = rows[i].key
  BY <1>1, KeysAre
<1>3. \A i \in 1..Len(rows) : KeyList(rows)[i] = KeyList(rows)[p] => i = p
  BY <1>1, <1>2 DEF Unique
<1>4. Position(KeyList(rows), KeyList(rows)[p]) = p
  BY <1>2, <1>3, PositionIs
<1> QED BY <1>2, <1>4 DEF IndexOf

(* The store accepts the change c at some rows, which it makes next. *)
Takes(rows, c, next) ==
    /\ c.op \in {"i", "u", "d", "m"}
    /\ Fits([ok |-> TRUE, first |-> FALSE, rows |-> rows], c)
    /\ next = Change(rows, c)

LEMMA TakesInsert ==
  ASSUME NEW K, NEW rows \in RowSeqs(K), NEW i \in 1..Len(rows) + 1, NEW row \in Rows(K),
         \A p \in 1..Len(rows) : rows[p].key # row.key
  PROVE  Takes(rows, InsertRow(i, row), InsertAt(rows, i, row))
<1>1. row.key \notin KeysOf(rows)
  BY KeysAre DEF RowSeqs
<1> QED BY <1>1 DEF Takes, Fits, Change, InsertRow

LEMMA TakesUpdate ==
  ASSUME NEW K, NEW rows \in RowSeqs(K), NEW p \in 1..Len(rows), NEW row \in Rows(K),
         row.key = rows[p].key
  PROVE  Takes(rows, UpdateRow(row), [rows EXCEPT ![p] = row])
<1>1. row.key \in KeysOf(rows) /\ IndexOf(rows, row.key) = p
  BY KeysAre, IndexIs DEF RowSeqs
<1> QED BY <1>1 DEF Takes, Fits, Change, UpdateRow, ReplaceAt

LEMMA TakesDelete ==
  ASSUME NEW K, NEW rows \in RowSeqs(K), NEW p \in 1..Len(rows)
  PROVE  Takes(rows, DeleteRow(rows[p].key), RemoveAt(rows, p))
<1>1. rows[p].key \in KeysOf(rows) /\ IndexOf(rows, rows[p].key) = p
  BY KeysAre, IndexIs DEF RowSeqs
<1> QED BY <1>1 DEF Takes, Fits, Change, DeleteRow

LEMMA TakesMove ==
  ASSUME NEW K, NEW rows \in RowSeqs(K), NEW p \in 1..Len(rows), NEW i \in 1..Len(rows)
  PROVE  Takes(rows, MoveRow(rows[p].key, i), InsertAt(RemoveAt(rows, p), i, rows[p]))
<1>1. rows[p].key \in KeysOf(rows) /\ IndexOf(rows, rows[p].key) = p
  BY KeysAre, IndexIs DEF RowSeqs
<1> QED BY <1>1 DEF Takes, Fits, Change, MoveRow

(* The changes q, one after the other, turn the rows from into the rows to.  *)
Plays(from, q, to) ==
    \E f : /\ f[0] = from /\ f[Len(q)] = to
           /\ \A i \in 1..Len(q) : Takes(f[i - 1], q[i], f[i])

LEMMA PlaysNone ==
  ASSUME NEW rows
  PROVE  Plays(rows, <<>>, rows)
<1>1. Len(<<>>) = 0
  OBVIOUS
<1> DEFINE f == [i \in {0} |-> rows]
<1>2. f[0] = rows
  OBVIOUS
<1> HIDE DEF f
<1> QED BY <1>1, <1>2 DEF Plays

LEMMA PlaysAppend ==
  ASSUME NEW S, NEW q \in Seq(S), NEW c \in S, NEW from, NEW mid, NEW to,
         Plays(from, q, mid), Takes(mid, c, to)
  PROVE  Plays(from, Append(q, c), to)
<1> DEFINE r == Append(q, c)
           n == Len(q)
<1>1. n \in Nat /\ Len(r) = n + 1 /\ r[n + 1] = c /\ \A i \in 1..n : r[i] = q[i]
  BY AppendProperties
<1> HIDE DEF r, n
<1>2. PICK f : f[0] = from /\ f[n] = mid /\ \A i \in 1..n : Takes(f[i - 1], q[i], f[i])
  BY DEF Plays, n
<1> DEFINE g == [i \in 0..n + 1 |-> IF i = n + 1 THEN to ELSE f[i]]
<1>3. g[n + 1] = to /\ \A i \in 0..n : g[i] = f[i]
  BY <1>1
<1> HIDE DEF g
<1>4. g[0] = from /\ g[n] = mid
  BY <1>1, <1>2, <1>3
<1>5. ASSUME NEW i \in 1..n + 1 PROVE Takes(g[i - 1], r[i], g[i])
  <2>1. CASE i = n + 1
    BY <1>1, <1>3, <1>4, <2>1
  <2>2. CASE i \in 1..n
    <3>1. i - 1 \in 0..n /\ i \in 0..n
      BY <1>1, <2>2
    <3> QED BY <1>1, <1>2, <1>3, <2>2, <3>1
  <2> QED BY <1>1, <2>1, <2>2
<1>6. g[Len(r)] = to /\ \A i \in 1..Len(r) : Takes(g[i - 1], r[i], g[i])
  BY <1>1, <1>3, <1>5
<1> QED BY <1>4, <1>6 DEF Plays, r

(* The table of Prepared, whose rows are the store's after each change.      *)
WorkRow(f, start, changes, i) == IF i = 0 THEN start ELSE Step(f[i - 1], changes[i])
WorkTable(f, start, changes, n) == f = [i \in 0..n |-> WorkRow(f, start, changes, i)]
LEMMA WorkTableExists ==
  ASSUME NEW start, NEW changes, NEW n \in Nat
  PROVE  \E f : WorkTable(f, start, changes, n)
<1> DEFINE T == {k \in Nat : \E f : WorkTable(f, start, changes, k)}
<1>1. 0 \in T
  <2> DEFINE f == [i \in 0..0 |-> start]
  <2>1. f = [i \in 0..0 |-> WorkRow(f, start, changes, i)]
    BY DEF WorkRow
  <2> HIDE DEF f
  <2> QED BY <2>1 DEF WorkTable
<1>2. ASSUME NEW k \in T PROVE k + 1 \in T
  <2> PICK f : WorkTable(f, start, changes, k)
    BY <1>2
  <2> DEFINE g == [i \in 0..k + 1 |-> WorkRow(f, start, changes, i)]
  <2>1. \A i \in 0..k : f[i] = WorkRow(f, start, changes, i)
    BY DEF WorkTable
  <2>2. ASSUME NEW i \in 0..k + 1 PROVE g[i] = WorkRow(g, start, changes, i)
    <3>1. i # 0 => i - 1 \in 0..k /\ g[i - 1] = f[i - 1]
      BY <2>1
    <3>2. g[i] = WorkRow(f, start, changes, i)
      OBVIOUS
    <3> HIDE DEF g
    <3> QED BY <3>1, <3>2 DEF WorkRow
  <2>3. g = [i \in 0..k + 1 |-> WorkRow(g, start, changes, i)]
    <3>1. g = [i \in 0..k + 1 |-> g[i]]
      OBVIOUS
    <3> HIDE DEF g
    <3> QED BY <2>2, <3>1
  <2> HIDE DEF g
  <2>4. \E h : WorkTable(h, start, changes, k + 1)
    BY <2>3 DEF WorkTable
  <2> QED BY <2>4
<1> HIDE DEF T
<1>3. n \in T
  BY <1>1, <1>2, NatSetInduction DEF T
<1> QED BY <1>3 DEF T

LEMMA FitsAnyway ==
  ASSUME NEW work, NEW c, c.op \in {"i", "u", "d", "m"},
         Fits([ok |-> TRUE, first |-> FALSE, rows |-> work.rows], c)
  PROVE  Fits(work, c)
BY DEF Fits

(* A store that a packet continues plays its changes. *)
Continues(store, packet) == packet.base = store.revision /\ packet.revision = store.revision + 1
LEMMA PreparedPlays ==
  ASSUME NEW store, NEW packet, NEW to, Len(packet.changes) \in Nat,
         Continues(store, packet), Plays(store.rows, packet.changes, to)
  PROVE  Prepared(store, packet).ok = TRUE /\ Prepared(store, packet).rows = to
<1> DEFINE q == packet.changes
           n == Len(q)
           start == [ok |-> packet.base = store.revision /\ packet.revision = store.revision + 1,
                     first |-> TRUE, rows |-> store.rows]
           w == CHOOSE w : WorkTable(w, start, q, n)
<1>1. WorkTable(w, start, q, n) /\ Prepared(store, packet) = w[n]
  <2>1. WorkTable(w, start, q, n)
    <3> HIDE DEF start, q
    <3> QED BY WorkTableExists DEF q
  <2>2. Prepared(store, packet) = w[n]
    BY DEF Prepared, WorkTable, WorkRow
  <2> QED BY <2>1, <2>2
<1>2. start.ok = TRUE /\ start.rows = store.rows
  BY DEF Continues
<1>3. PICK f : f[0] = store.rows /\ f[n] = to /\ \A i \in 1..n : Takes(f[i - 1], q[i], f[i])
  BY DEF Plays
<1> HIDE DEF w, start, q
<1>4. \A i \in 0..n : w[i] = WorkRow(w, start, q, i)
  BY <1>1 DEF WorkTable
<1> DEFINE T == {i \in Nat : i <= n => w[i].ok = TRUE /\ w[i].rows = f[i]}
<1>5. 0 \in T
  <2>1. w[0] = start
    BY <1>4 DEF WorkRow, q
  <2> QED BY <1>2, <1>3, <2>1
<1>6. ASSUME NEW k \in T PROVE k + 1 \in T
  <2>0. k \in Nat /\ n \in Nat /\ (k <= n => w[k].ok = TRUE /\ w[k].rows = f[k])
    BY DEF q
  <2> SUFFICES ASSUME k + 1 <= n PROVE w[k + 1].ok = TRUE /\ w[k + 1].rows = f[k + 1]
    <3>1. k + 1 \in Nat
      BY <2>0
    <3> QED BY <3>1
  <2>1. k + 1 \in 1..n /\ w[k].ok = TRUE /\ w[k].rows = f[k]
    BY <2>0
  <2>2. w[k + 1] = Step(w[k], q[k + 1])
    BY <1>4, <2>0, <2>1 DEF WorkRow
  <2>3. Takes(f[k], q[k + 1], f[k + 1])
    BY <1>3, <2>0, <2>1
  <2>4. Fits(w[k], q[k + 1])
    <3>1. /\ q[k + 1].op \in {"i", "u", "d", "m"}
          /\ Fits([ok |-> TRUE, first |-> FALSE, rows |-> w[k].rows], q[k + 1])
      BY <2>1, <2>3 DEF Takes
    <3> QED BY <3>1, FitsAnyway
  <2> QED BY <2>0, <2>1, <2>2, <2>3, <2>4 DEF Step, Takes
<1>7. n \in T
  <2> HIDE DEF T
  <2>1. T \in SUBSET Nat
    BY DEF T
  <2> QED BY <1>5, <1>6, <2>1, NatSetInduction DEF q
<1> QED BY <1>1, <1>3, <1>7 DEF q

(* A packet that carries the whole list. *)
LEMMA PreparedReset ==
  ASSUME NEW K, NEW rows \in RowSeqs(K), NEW store, NEW packet,
         Continues(store, packet), packet.changes = <<ResetRows(rows)>>
  PROVE  Prepared(store, packet).ok = TRUE /\ Prepared(store, packet).rows = rows
<1> DEFINE c == ResetRows(rows)
           start == [ok |-> packet.base = store.revision /\ packet.revision = store.revision + 1,
                     first |-> TRUE, rows |-> store.rows]
           w == CHOOSE w : WorkTable(w, start, packet.changes, 1)
<1>1. Len(packet.changes) = 1 /\ packet.changes[1] = c
  OBVIOUS
<1>2. WorkTable(w, start, packet.changes, 1) /\ Prepared(store, packet) = w[1]
  <2>1. WorkTable(w, start, packet.changes, 1)
    <3> HIDE DEF start
    <3> QED BY WorkTableExists
  <2>2. Prepared(store, packet) = w[1]
    BY <1>1 DEF Prepared, WorkTable, WorkRow
  <2> QED BY <2>1, <2>2
<1>3. start.ok = TRUE /\ start.first = TRUE
  BY DEF Continues
<1> HIDE DEF w, start, c
<1>4. \A i \in 0..1 : w[i] = WorkRow(w, start, packet.changes, i)
  BY <1>2 DEF WorkTable
<1>5. w[0] = start /\ w[1] = Step(start, c)
  BY <1>1, <1>4 DEF WorkRow
<1>6. Cardinality(KeysOf(rows)) = Len(rows)
  <2>1. rows \in Seq(Rows(K)) /\ Unique(rows) /\ Len(rows) \in Nat
    BY DEF RowSeqs
  <2> DEFINE f == [i \in 1..Len(rows) |-> rows[i].key]
  <2>2. f \in Bijection(1..Len(rows), KeysOf(rows))
    <3>1. \A k : k \in KeysOf(rows) <=> \E i \in 1..Len(rows) : rows[i].key = k
      BY <2>1, KeysAre
    <3>2. f \in [1..Len(rows) -> KeysOf(rows)]
      BY <3>1
    <3>3. \A k \in KeysOf(rows) : \E i \in 1..Len(rows) : f[i] = k
      BY <3>1
    <3>4. \A i, j \in 1..Len(rows) : f[i] = f[j] => i = j
      BY <2>1 DEF Unique
    <3> HIDE DEF f
    <3> QED BY <3>2, <3>3, <3>4 DEF Bijection, Injection, Surjection, IsInjective
  <2>3. IsFiniteSet(1..Len(rows)) /\ Cardinality(1..Len(rows)) = Len(rows)
    BY SMTT(40), <2>1, FS_Interval
  <2> HIDE DEF f
  <2> QED BY <2>2, <2>3, FS_Bijection DEF ExistsBijection
<1>7. Fits(start, c) /\ Change(start.rows, c) = rows
  BY <1>3, <1>6 DEF Fits, Change, ResetRows, c
<1> QED BY <1>2, <1>3, <1>5, <1>7 DEF Step

---------------------------------------------------------------------------
(* The rows of the application between those of the list itself.             *)

Framed(l, x, t) == (l \o x) \o t
LEMMA FramedIs ==
  ASSUME NEW S, NEW l \in Seq(S), NEW x \in Seq(S), NEW t \in Seq(S)
  PROVE  /\ Framed(l, x, t) \in Seq(S)
         /\ Len(Framed(l, x, t)) = Len(l) + Len(x) + Len(t)
         /\ \A j \in 1..Len(l) : Framed(l, x, t)[j] = l[j]
         /\ \A j \in 1..Len(x) : Framed(l, x, t)[Len(l) + j] = x[j]
         /\ \A j \in 1..Len(t) : Framed(l, x, t)[Len(l) + Len(x) + j] = t[j]
<1> DEFINE a == l \o x
<1>1. /\ a \in Seq(S) /\ Len(a) = Len(l) + Len(x)
      /\ \A j \in 1..Len(l) : a[j] = l[j]
      /\ \A j \in 1..Len(x) : a[Len(l) + j] = x[j]
  BY Joined
<1>2. Len(l) \in Nat /\ Len(x) \in Nat /\ Len(t) \in Nat
  OBVIOUS
<1> HIDE DEF a
<1> DEFINE b == a \o t
<1>3. /\ b \in Seq(S) /\ Len(b) = Len(a) + Len(t)
      /\ \A j \in 1..Len(a) : b[j] = a[j]
      /\ \A j \in 1..Len(t) : b[Len(a) + j] = t[j]
  <2>1. a \in Seq(S)
    BY <1>1
  <2> QED BY <2>1, Joined
<1> HIDE DEF b
<1>4. ASSUME NEW j \in 1..Len(l) PROVE b[j] = l[j]
  <2>1. j \in 1..Len(a)
    BY <1>1, <1>2
  <2> QED BY <1>1, <1>3, <2>1
<1>5. ASSUME NEW j \in 1..Len(x) PROVE b[Len(l) + j] = x[j]
  <2>1. Len(l) + j \in 1..Len(a)
    BY <1>1, <1>2
  <2> QED BY <1>1, <1>3, <2>1
<1>6. b = Framed(l, x, t)
  BY DEF Framed, a, b
<1> QED BY <1>1, <1>3, <1>4, <1>5, <1>6

LEMMA FramedAt ==
  ASSUME NEW S, NEW l \in Seq(S), NEW x \in Seq(S), NEW t \in Seq(S),
         NEW j \in 1..Len(l) + Len(x) + Len(t)
  PROVE  Framed(l, x, t)[j] = IF j <= Len(l) THEN l[j]
                              ELSE IF j <= Len(l) + Len(x) THEN x[j - Len(l)]
                              ELSE t[j - Len(l) - Len(x)]
<1> DEFINE f == Framed(l, x, t)
<1> HIDE DEF f
<1>1. Len(l) \in Nat /\ Len(x) \in Nat /\ Len(t) \in Nat
  OBVIOUS
<1>2. /\ f \in Seq(S) /\ Len(f) = Len(l) + Len(x) + Len(t)
      /\ \A h \in 1..Len(l) : f[h] = l[h]
      /\ \A h \in 1..Len(x) : f[Len(l) + h] = x[h]
      /\ \A h \in 1..Len(t) : f[Len(l) + Len(x) + h] = t[h]
  <2>1. f \in Seq(S) /\ Len(f) = Len(l) + Len(x) + Len(t)
    BY FramedIs DEF f
  <2>2. \A h \in 1..Len(l) : f[h] = l[h]
    BY FramedIs DEF f
  <2>3. \A h \in 1..Len(x) : f[Len(l) + h] = x[h]
    BY FramedIs DEF f
  <2>4. \A h \in 1..Len(t) : f[Len(l) + Len(x) + h] = t[h]
    BY FramedIs DEF f
  <2> QED BY <2>1, <2>2, <2>3, <2>4
<1>3. CASE j <= Len(l)
  BY <1>1, <1>2, <1>3 DEF f
<1>4. CASE j > Len(l) /\ j <= Len(l) + Len(x)
  <2>1. j - Len(l) \in 1..Len(x) /\ Len(l) + (j - Len(l)) = j
    BY <1>1, <1>4
  <2>2. f[Len(l) + (j - Len(l))] = x[j - Len(l)]
    BY <1>2, <2>1
  <2> QED BY <1>1, <1>4, <2>1, <2>2 DEF f
<1>5. CASE j > Len(l) + Len(x)
  <2>1. j - Len(l) - Len(x) \in 1..Len(t) /\ Len(l) + Len(x) + (j - Len(l) - Len(x)) = j
    BY <1>1, <1>5
  <2>2. f[Len(l) + Len(x) + (j - Len(l) - Len(x))] = t[j - Len(l) - Len(x)]
    BY <1>2, <2>1
  <2> QED BY <1>1, <1>5, <2>1, <2>2 DEF f
<1> QED BY <1>1, <1>3, <1>4, <1>5

LEMMA FramedInsert ==
  ASSUME NEW S, NEW l \in Seq(S), NEW x \in Seq(S), NEW t \in Seq(S),
         NEW i \in 1..Len(x) + 1, NEW e \in S
  PROVE  InsertAt(Framed(l, x, t), Len(l) + i, e) = Framed(l, InsertAt(x, i, e), t)
<1> DEFINE f == Framed(l, x, t)
           k == Len(l) + i
           y == InsertAt(x, i, e)
           a == InsertAt(f, k, e)
           b == Framed(l, y, t)
<1>1. Len(l) \in Nat /\ Len(x) \in Nat /\ Len(t) \in Nat /\ i \in Nat /\ i >= 1 /\ i <= Len(x) + 1
  OBVIOUS
<1>2. f \in Seq(S) /\ Len(f) = Len(l) + Len(x) + Len(t)
  BY FramedIs
<1>3. /\ y \in Seq(S) /\ Len(y) = Len(x) + 1
      /\ \A j \in 1..Len(x) + 1 : y[j] = IF j < i THEN x[j] ELSE IF j = i THEN e ELSE x[j - 1]
  BY Inserted
<1> HIDE DEF f, y
<1>4. k \in 1..Len(f) + 1
  BY <1>1, <1>2
<1> HIDE DEF k, a, b
<1>5. /\ a \in Seq(S) /\ Len(a) = Len(f) + 1
      /\ \A j \in 1..Len(f) + 1 : a[j] = IF j < k THEN f[j] ELSE IF j = k THEN e ELSE f[j - 1]
  <2>1. f \in Seq(S)
    BY <1>2
  <2>2. InsertAt(f, k, e) \in Seq(S) /\ Len(InsertAt(f, k, e)) = Len(f) + 1
    BY <1>4, <2>1, Inserted
  <2>3. \A j \in 1..Len(f) + 1 :
           InsertAt(f, k, e)[j] = IF j < k THEN f[j] ELSE IF j = k THEN e ELSE f[j - 1]
    BY <1>4, <2>1, Inserted
  <2> QED BY <2>2, <2>3 DEF a
<1>6. b \in Seq(S) /\ Len(b) = Len(l) + Len(y) + Len(t)
  <2>1. y \in Seq(S)
    BY <1>3
  <2> QED BY <2>1, FramedIs DEF b
<1>7. Len(a) = Len(b) /\ Len(a) = Len(l) + Len(x) + 1 + Len(t)
  BY <1>1, <1>2, <1>3, <1>5, <1>6
<1>8. ASSUME NEW j \in 1..Len(a) PROVE a[j] = b[j]
  <2>1. b[j] = IF j <= Len(l) THEN l[j] ELSE IF j <= Len(l) + Len(y) THEN y[j - Len(l)]
               ELSE t[j - Len(l) - Len(y)]
    <3>1. j \in 1..Len(l) + Len(y) + Len(t)
      BY <1>6, <1>7
    <3>2. y \in Seq(S)
      BY <1>3
    <3> QED BY <3>1, <3>2, FramedAt DEF b
  <2>2. j # Len(l) + Len(x) + 1 + Len(t) =>
          f[j] = IF j <= Len(l) THEN l[j] ELSE IF j <= Len(l) + Len(x) THEN x[j - Len(l)]
                 ELSE t[j - Len(l) - Len(x)]
    <3>1. j # Len(l) + Len(x) + 1 + Len(t) => j \in 1..Len(l) + Len(x) + Len(t)
      BY SMTT(40), <1>1, <1>7
    <3> QED BY <3>1, FramedAt DEF f
  <2>3. j # 1 =>
          f[j - 1] = IF j - 1 <= Len(l) THEN l[j - 1]
                     ELSE IF j - 1 <= Len(l) + Len(x) THEN x[j - 1 - Len(l)]
                     ELSE t[j - 1 - Len(l) - Len(x)]
    <3> SUFFICES ASSUME j # 1
                 PROVE  f[j - 1] = IF j - 1 <= Len(l) THEN l[j - 1]
                                   ELSE IF j - 1 <= Len(l) + Len(x) THEN x[j - 1 - Len(l)]
                                   ELSE t[j - 1 - Len(l) - Len(x)]
      OBVIOUS
    <3> DEFINE h == j - 1
    <3>1. h \in 1..Len(l) + Len(x) + Len(t)
      BY <1>1, <1>7
    <3> HIDE DEF h
    <3>2. Framed(l, x, t)[h] = IF h <= Len(l) THEN l[h] ELSE IF h <= Len(l) + Len(x) THEN x[h - Len(l)]
                               ELSE t[h - Len(l) - Len(x)]
      BY <3>1, FramedAt
    <3> QED BY <3>2 DEF f, h
  <2>4. a[j] = IF j < Len(l) + i THEN f[j] ELSE IF j = Len(l) + i THEN e ELSE f[j - 1]
    BY <1>5, <1>2, <1>7 DEF k
  <2>5. j > Len(l) /\ j <= Len(l) + Len(x) + 1 =>
          y[j - Len(l)] = IF j - Len(l) < i THEN x[j - Len(l)]
                          ELSE IF j - Len(l) = i THEN e ELSE x[j - Len(l) - 1]
    <3>1. j > Len(l) /\ j <= Len(l) + Len(x) + 1 => j - Len(l) \in 1..Len(x) + 1
      BY <1>1
    <3> QED BY <1>3, <3>1
  <2>6. CASE j < Len(l) + i
    BY <1>1, <1>3, <2>1, <2>2, <2>4, <2>5, <2>6
  <2>7. CASE j = Len(l) + i
    BY <1>1, <1>3, <2>1, <2>4, <2>5, <2>7
  <2>8. CASE j > Len(l) + i
    <3>1. j - 1 - Len(l) = j - Len(l) - 1 /\ j - 1 - Len(l) - Len(x) = j - Len(l) - (Len(x) + 1)
      BY <1>1
    <3> QED BY <1>1, <1>3, <2>1, <2>3, <2>4, <2>5, <2>8, <3>1
  <2> QED BY <1>1, <2>6, <2>7, <2>8
<1>9. a = b
  BY <1>5, <1>6, <1>7, <1>8, SeqEqual
<1> QED BY <1>9 DEF a, b, f, k, y

LEMMA FramedRemove ==
  ASSUME NEW S, NEW l \in Seq(S), NEW x \in Seq(S), NEW t \in Seq(S), NEW i \in 1..Len(x)
  PROVE  RemoveAt(Framed(l, x, t), Len(l) + i) = Framed(l, RemoveAt(x, i), t)
<1> DEFINE f == Framed(l, x, t)
           k == Len(l) + i
           y == RemoveAt(x, i)
           a == RemoveAt(f, k)
           b == Framed(l, y, t)
<1>1. Len(l) \in Nat /\ Len(x) \in Nat /\ Len(t) \in Nat /\ i \in Nat /\ i >= 1 /\ i <= Len(x)
  OBVIOUS
<1>2. f \in Seq(S) /\ Len(f) = Len(l) + Len(x) + Len(t)
  BY FramedIs
<1>3. /\ y \in Seq(S) /\ Len(y) = Len(x) - 1
      /\ \A j \in 1..Len(x) - 1 : y[j] = IF j < i THEN x[j] ELSE x[j + 1]
  BY Removed
<1> HIDE DEF f, y
<1>4. k \in 1..Len(f)
  BY <1>1, <1>2
<1> HIDE DEF k, a, b
<1>5. /\ a \in Seq(S) /\ Len(a) = Len(f) - 1
      /\ \A j \in 1..Len(f) - 1 : a[j] = IF j < k THEN f[j] ELSE f[j + 1]
  <2>1. f \in Seq(S)
    BY <1>2
  <2> QED BY <1>4, <2>1, Removed DEF a
<1>6. b \in Seq(S) /\ Len(b) = Len(l) + Len(y) + Len(t)
  <2>1. y \in Seq(S)
    BY <1>3
  <2> QED BY <2>1, FramedIs DEF b
<1>7. Len(a) = Len(b) /\ Len(a) = Len(l) + Len(x) - 1 + Len(t)
  BY <1>1, <1>2, <1>3, <1>5, <1>6
<1>8. ASSUME NEW j \in 1..Len(a) PROVE a[j] = b[j]
  <2>1. b[j] = IF j <= Len(l) THEN l[j] ELSE IF j <= Len(l) + Len(y) THEN y[j - Len(l)]
               ELSE t[j - Len(l) - Len(y)]
    <3>1. j \in 1..Len(l) + Len(y) + Len(t)
      BY <1>6, <1>7
    <3>2. y \in Seq(S)
      BY <1>3
    <3> QED BY SMTT(40), <3>1, <3>2, FramedAt DEF b
  <2>2. f[j] = IF j <= Len(l) THEN l[j] ELSE IF j <= Len(l) + Len(x) THEN x[j - Len(l)]
               ELSE t[j - Len(l) - Len(x)]
    <3>1. j \in 1..Len(l) + Len(x) + Len(t)
      BY <1>1, <1>7
    <3> QED BY <3>1, FramedAt DEF f
  <2>3. f[j + 1] = IF j + 1 <= Len(l) THEN l[j + 1]
                   ELSE IF j + 1 <= Len(l) + Len(x) THEN x[j + 1 - Len(l)]
                   ELSE t[j + 1 - Len(l) - Len(x)]
    <3>1. j + 1 \in 1..Len(l) + Len(x) + Len(t)
      BY <1>1, <1>7
    <3> QED BY <3>1, FramedAt DEF f
  <2>4. a[j] = IF j < Len(l) + i THEN f[j] ELSE f[j + 1]
    BY <1>5 DEF k
  <2>5. j > Len(l) /\ j <= Len(l) + Len(x) - 1 =>
          y[j - Len(l)] = IF j - Len(l) < i THEN x[j - Len(l)] ELSE x[j - Len(l) + 1]
    <3>1. j > Len(l) /\ j <= Len(l) + Len(x) - 1 => j - Len(l) \in 1..Len(x) - 1
      BY <1>1
    <3> QED BY <1>3, <3>1
  <2>6. CASE j < Len(l) + i
    BY <1>1, <1>3, <2>1, <2>2, <2>4, <2>5, <2>6
  <2>7. CASE j >= Len(l) + i
    <3>1. j + 1 - Len(l) = j - Len(l) + 1 /\ j + 1 - Len(l) - Len(x) = j - Len(l) - (Len(x) - 1)
      BY <1>1
    <3> QED BY <1>1, <1>3, <2>1, <2>3, <2>4, <2>5, <2>7, <3>1
  <2> QED BY <1>1, <2>6, <2>7
<1>9. a = b
  BY <1>5, <1>6, <1>7, <1>8, SeqEqual
<1> QED BY <1>9 DEF a, b, f, k, y

LEMMA FramedReplace ==
  ASSUME NEW S, NEW l \in Seq(S), NEW x \in Seq(S), NEW t \in Seq(S), NEW i \in 1..Len(x), NEW e \in S
  PROVE  [Framed(l, x, t) EXCEPT ![Len(l) + i] = e] = Framed(l, [x EXCEPT ![i] = e], t)
<1> DEFINE f == Framed(l, x, t)
           k == Len(l) + i
           y == [x EXCEPT ![i] = e]
           a == [f EXCEPT ![k] = e]
           b == Framed(l, y, t)
<1>1. Len(l) \in Nat /\ Len(x) \in Nat /\ Len(t) \in Nat /\ i \in Nat /\ i >= 1 /\ i <= Len(x)
  OBVIOUS
<1>2. f \in Seq(S) /\ Len(f) = Len(l) + Len(x) + Len(t)
  BY FramedIs
<1>3. /\ y \in Seq(S) /\ Len(y) = Len(x)
      /\ \A j \in 1..Len(x) : y[j] = IF j = i THEN e ELSE x[j]
  BY ExceptSeq
<1> HIDE DEF f, y
<1>4. k \in 1..Len(f)
  BY <1>1, <1>2
<1> HIDE DEF k, a, b
<1>5. /\ a \in Seq(S) /\ Len(a) = Len(f)
      /\ \A j \in 1..Len(f) : a[j] = IF j = k THEN e ELSE f[j]
  <2>1. f \in Seq(S)
    BY <1>2
  <2> QED BY <1>4, <2>1, ExceptSeq DEF a
<1>6. b \in Seq(S) /\ Len(b) = Len(l) + Len(y) + Len(t)
  <2>1. y \in Seq(S)
    BY <1>3
  <2> QED BY <2>1, FramedIs DEF b
<1>7. Len(a) = Len(b) /\ Len(a) = Len(l) + Len(x) + Len(t)
  BY <1>1, <1>2, <1>3, <1>5, <1>6
<1>8. ASSUME NEW j \in 1..Len(a) PROVE a[j] = b[j]
  <2>1. b[j] = IF j <= Len(l) THEN l[j] ELSE IF j <= Len(l) + Len(y) THEN y[j - Len(l)]
               ELSE t[j - Len(l) - Len(y)]
    <3>1. j \in 1..Len(l) + Len(y) + Len(t)
      BY <1>6, <1>7
    <3>2. y \in Seq(S)
      BY <1>3
    <3> QED BY SMTT(40), <3>1, <3>2, FramedAt DEF b
  <2>2. f[j] = IF j <= Len(l) THEN l[j] ELSE IF j <= Len(l) + Len(x) THEN x[j - Len(l)]
               ELSE t[j - Len(l) - Len(x)]
    <3>1. j \in 1..Len(l) + Len(x) + Len(t)
      BY <1>7
    <3> QED BY <3>1, FramedAt DEF f
  <2>3. a[j] = IF j = Len(l) + i THEN e ELSE f[j]
    BY <1>2, <1>5, <1>7 DEF k
  <2>4. j > Len(l) /\ j <= Len(l) + Len(x) =>
          y[j - Len(l)] = IF j - Len(l) = i THEN e ELSE x[j - Len(l)]
    <3>1. j > Len(l) /\ j <= Len(l) + Len(x) => j - Len(l) \in 1..Len(x)
      BY <1>1
    <3> QED BY <1>3, <3>1
  <2> QED BY <1>1, <1>3, <2>1, <2>2, <2>3, <2>4
<1>9. a = b
  BY <1>5, <1>6, <1>7, <1>8, SeqEqual
<1> QED BY <1>9 DEF a, b, f, k, y

(* The rows a list shows: those of the frame have keys of their own.         *)
AllKeys == Keys \cup {"__header__", "__empty__"}
Foot(empty) == IF empty THEN <<Row("__empty__", 1)>> ELSE <<>>
Shown(header, rows, empty) == Framed(Lead(header), rows, Foot(empty))

LEMMA FrameIs ==
  ASSUME NEW header \in BOOLEAN, NEW empty \in BOOLEAN
  PROVE  /\ Lead(header) \in Seq(Rows(AllKeys)) /\ Foot(empty) \in Seq(Rows(AllKeys))
         /\ Len(Lead(header)) \in 0..1 /\ Len(Foot(empty)) \in 0..1
         /\ Len(Lead(header)) = (IF header THEN 1 ELSE 0)
         /\ Len(Foot(empty)) = (IF empty THEN 1 ELSE 0)
         /\ \A i \in 1..Len(Lead(header)) : Lead(header)[i].key = "__header__"
         /\ \A i \in 1..Len(Foot(empty)) : Foot(empty)[i].key = "__empty__"
<1>1. Row("__header__", 1) \in Rows(AllKeys) /\ Row("__header__", 1).key = "__header__"
  BY DEF Row, Rows, AllKeys
<1>2. Row("__empty__", 1) \in Rows(AllKeys) /\ Row("__empty__", 1).key = "__empty__"
  BY DEF Row, Rows, AllKeys
<1>3. /\ <<Row("__header__", 1)>> \in Seq(Rows(AllKeys)) /\ Len(<<Row("__header__", 1)>>) = 1
      /\ <<Row("__header__", 1)>>[1] = Row("__header__", 1)
  BY <1>1
<1>4. /\ <<Row("__empty__", 1)>> \in Seq(Rows(AllKeys)) /\ Len(<<Row("__empty__", 1)>>) = 1
      /\ <<Row("__empty__", 1)>>[1] = Row("__empty__", 1)
  BY <1>2
<1>5. <<>> \in Seq(Rows(AllKeys)) /\ Len(<<>>) = 0
  OBVIOUS
<1>6. /\ Lead(header) \in Seq(Rows(AllKeys))
      /\ Len(Lead(header)) \in 0..1
      /\ Len(Lead(header)) = (IF header THEN 1 ELSE 0)
      /\ \A i \in 1..Len(Lead(header)) : Lead(header)[i].key = "__header__"
  <2>1. CASE header
    <3>1. Lead(header) = <<Row("__header__", 1)>>
      BY <2>1 DEF Lead
    <3>2. Len(Lead(header)) = 1 /\ Lead(header)[1] = Row("__header__", 1)
      BY <1>3, <3>1
    <3>3. \A i \in 1..Len(Lead(header)) : i = 1
      BY <3>2
    <3>4. \A i \in 1..Len(Lead(header)) : Lead(header)[i].key = "__header__"
      BY <1>1, <3>2, <3>3
    <3>5. Lead(header) \in Seq(Rows(AllKeys)) /\ Len(Lead(header)) \in 0..1
      BY <1>3, <3>1
    <3> QED BY <2>1, <3>2, <3>4, <3>5
  <2>2. CASE ~header
    <3>1. Lead(header) = <<>>
      BY <2>2 DEF Lead
    <3> QED BY <1>5, <2>2, <3>1
  <2> QED BY <2>1, <2>2
<1>7. /\ Foot(empty) \in Seq(Rows(AllKeys))
      /\ Len(Foot(empty)) \in 0..1
      /\ Len(Foot(empty)) = (IF empty THEN 1 ELSE 0)
      /\ \A i \in 1..Len(Foot(empty)) : Foot(empty)[i].key = "__empty__"
  <2>1. CASE empty
    <3>1. Foot(empty) = <<Row("__empty__", 1)>>
      BY <2>1 DEF Foot
    <3>2. Len(Foot(empty)) = 1 /\ Foot(empty)[1] = Row("__empty__", 1)
      BY <1>4, <3>1
    <3>3. \A i \in 1..Len(Foot(empty)) : i = 1
      BY <3>2
    <3>4. \A i \in 1..Len(Foot(empty)) : Foot(empty)[i].key = "__empty__"
      BY <1>2, <3>2, <3>3
    <3>5. Foot(empty) \in Seq(Rows(AllKeys)) /\ Len(Foot(empty)) \in 0..1
      BY <1>4, <3>1
    <3> QED BY <2>1, <3>2, <3>4, <3>5
  <2>2. CASE ~empty
    <3>1. Foot(empty) = <<>>
      BY <2>2 DEF Foot
    <3> QED BY <1>5, <2>2, <3>1
  <2> QED BY <2>1, <2>2
<1> QED BY <1>6, <1>7

LEMMA MoreKeys ==
  ASSUME NEW rows \in RowSeqs(Keys)
  PROVE  /\ rows \in Seq(Rows(AllKeys)) /\ Unique(rows)
         /\ \A i \in 1..Len(rows) : rows[i].key \in Keys
<1>1. rows \in Seq(Rows(Keys)) /\ Unique(rows)
  BY DEF RowSeqs
<1>2. \A i \in 1..Len(rows) : rows[i] \in Rows(Keys)
  BY <1>1, ElementOfSeq
<1>3. \A i \in 1..Len(rows) : rows[i] \in Rows(AllKeys) /\ rows[i].key \in Keys
  BY <1>2 DEF Rows, AllKeys
<1>4. rows \in Seq(Rows(AllKeys))
  BY <1>1, <1>3
<1> QED BY <1>1, <1>3, <1>4

LEMMA ShownIs ==
  ASSUME NEW rows \in RowSeqs(Keys), NEW header \in BOOLEAN, NEW empty \in BOOLEAN
  PROVE  LET s == Shown(header, rows, empty)
         IN  /\ s \in RowSeqs(AllKeys)
             /\ Len(s) = Len(Lead(header)) + Len(rows) + Len(Foot(empty))
             /\ \A i \in 1..Len(Lead(header)) : s[i].key = "__header__"
             /\ \A i \in 1..Len(rows) : s[Len(Lead(header)) + i] = rows[i]
             /\ \A i \in 1..Len(Foot(empty)) : s[Len(Lead(header)) + Len(rows) + i].key = "__empty__"
             /\ \A i \in 1..Len(s) : s[i].key \in Keys => i - Len(Lead(header)) \in 1..Len(rows)
<1> DEFINE l == Lead(header)
           t == Foot(empty)
           s == Shown(header, rows, empty)
<1>1. /\ l \in Seq(Rows(AllKeys)) /\ t \in Seq(Rows(AllKeys))
      /\ Len(l) \in 0..1 /\ Len(t) \in 0..1
      /\ \A i \in 1..Len(l) : l[i].key = "__header__"
      /\ \A i \in 1..Len(t) : t[i].key = "__empty__"
  BY FrameIs
<1>2. /\ rows \in Seq(Rows(AllKeys)) /\ Unique(rows) /\ Len(rows) \in Nat
      /\ \A i \in 1..Len(rows) : rows[i].key \in Keys
  BY MoreKeys
<1> HIDE DEF l, t, s
<1>3. /\ s \in Seq(Rows(AllKeys)) /\ Len(s) = Len(l) + Len(rows) + Len(t)
      /\ \A i \in 1..Len(l) : s[i] = l[i]
      /\ \A i \in 1..Len(rows) : s[Len(l) + i] = rows[i]
      /\ \A i \in 1..Len(t) : s[Len(l) + Len(rows) + i] = t[i]
  <2>1. l \in Seq(Rows(AllKeys)) /\ t \in Seq(Rows(AllKeys)) /\ rows \in Seq(Rows(AllKeys))
    BY <1>1, <1>2
  <2> DEFINE f == Framed(l, rows, t)
  <2> HIDE DEF f
  <2>2. /\ f \in Seq(Rows(AllKeys)) /\ Len(f) = Len(l) + Len(rows) + Len(t)
        /\ \A i \in 1..Len(l) : f[i] = l[i]
        /\ \A i \in 1..Len(rows) : f[Len(l) + i] = rows[i]
        /\ \A i \in 1..Len(t) : f[Len(l) + Len(rows) + i] = t[i]
    <3>1. f \in Seq(Rows(AllKeys)) /\ Len(f) = Len(l) + Len(rows) + Len(t)
      BY <2>1, FramedIs DEF f
    <3>2. \A i \in 1..Len(l) : f[i] = l[i]
      BY <2>1, FramedIs DEF f
    <3>3. \A i \in 1..Len(rows) : f[Len(l) + i] = rows[i]
      BY <2>1, FramedIs DEF f
    <3>4. \A i \in 1..Len(t) : f[Len(l) + Len(rows) + i] = t[i]
      BY <2>1, FramedIs DEF f
    <3> QED BY <3>1, <3>2, <3>3, <3>4
  <2>3. s = f
    BY DEF s, Shown, l, t, f
  <2> QED BY <2>2, <2>3
<1>4. ASSUME NEW i \in 1..Len(s)
      PROVE  \/ i = 1 /\ Len(l) = 1 /\ s[i].key = "__header__"
             \/ i - Len(l) \in 1..Len(rows) /\ s[i] = rows[i - Len(l)] /\ s[i].key \in Keys
             \/ i = Len(s) /\ Len(t) = 1 /\ s[i].key = "__empty__"
  <2>1. CASE i <= Len(l)
    BY <1>1, <1>3, <2>1
  <2>2. CASE i > Len(l) /\ i <= Len(l) + Len(rows)
    <3>1. i - Len(l) \in 1..Len(rows) /\ Len(l) + (i - Len(l)) = i
      BY <1>1, <1>2, <2>2
    <3> QED BY <1>2, <1>3, <3>1
  <2>3. CASE i > Len(l) + Len(rows)
    <3> DEFINE a == Len(l)
               b == Len(rows)
               c == Len(t)
               n == Len(s)
    <3>0. a \in 0..1 /\ b \in Nat /\ c \in 0..1 /\ n = a + b + c
      BY <1>1, <1>2, <1>3
    <3> HIDE DEF a, b, c, n
    <3>1. i - Len(l) - Len(rows) \in 1..Len(t) /\ Len(l) + Len(rows) + (i - Len(l) - Len(rows)) = i
          /\ Len(t) = 1 /\ i = Len(s)
      <4>1. i \in 1..n /\ i > a + b
        BY <2>3 DEF a, b, n
      <4>2. i - a - b \in 1..c /\ a + b + (i - a - b) = i /\ c = 1 /\ i = n
        BY <3>0, <4>1
      <4> QED BY <4>2 DEF a, b, c, n
    <3>2. s[Len(l) + Len(rows) + (i - Len(l) - Len(rows))] = t[i - Len(l) - Len(rows)]
      BY <1>3, <3>1
    <3> QED BY <1>1, <3>1, <3>2
  <2> QED BY <1>1, <1>2, <2>1, <2>2, <2>3
<1>5. "__header__" \notin Keys /\ "__empty__" \notin Keys
  BY ListsAssumption
<1>6. ASSUME NEW i \in 1..Len(s), NEW j \in 1..Len(s), s[i].key = s[j].key PROVE i = j
  <2>1. i \in Nat /\ j \in Nat /\ Len(l) \in Nat
    BY <1>1, <1>3
  <2>2. CASE s[i].key \in Keys
    <3>1. /\ i - Len(l) \in 1..Len(rows) /\ s[i] = rows[i - Len(l)]
          /\ j - Len(l) \in 1..Len(rows) /\ s[j] = rows[j - Len(l)]
      BY <1>4, <1>5, <1>6, <2>2
    <3>2. i - Len(l) = j - Len(l)
      BY <1>2, <1>6, <3>1 DEF Unique
    <3> QED BY <2>1, <3>2
  <2>3. CASE s[i].key \notin Keys
    BY <1>4, <1>5, <1>6, <2>3
  <2> QED BY <2>2, <2>3
<1>7. Unique(s) /\ s \in RowSeqs(AllKeys)
  BY <1>3, <1>6 DEF Unique, RowSeqs
<1>8. /\ \A i \in 1..Len(l) : s[i].key = "__header__"
      /\ \A i \in 1..Len(t) : s[Len(l) + Len(rows) + i].key = "__empty__"
  BY <1>1, <1>3
<1>9. \A i \in 1..Len(s) : s[i].key \in Keys => i - Len(l) \in 1..Len(rows)
  BY <1>4, <1>5
<1> QED BY <1>3, <1>7, <1>8, <1>9 DEF s, l, t

Shift(c, header) == IF c.op \in {"i", "m"} THEN [c EXCEPT !.at = @ + Len(Lead(header))] ELSE c

LEMMA ShiftIs ==
  ASSUME NEW header \in BOOLEAN, NEW i \in Nat, NEW row, NEW k
  PROVE  /\ Shift(InsertRow(i, row), header) = InsertRow(Len(Lead(header)) + i, row)
         /\ Shift(MoveRow(k, i), header) = MoveRow(k, Len(Lead(header)) + i)
         /\ Shift(UpdateRow(row), header) = UpdateRow(row)
         /\ Shift(DeleteRow(k), header) = DeleteRow(k)
<1>1. Len(Lead(header)) \in Nat
  BY FrameIs
<1> DEFINE n == Len(Lead(header))
<1> HIDE DEF n
<1>2. i + n = n + i
  BY <1>1 DEF n
<1> QED BY <1>2 DEF Shift, InsertRow, MoveRow, UpdateRow, DeleteRow, n

(* A change to the application's rows is, shifted, the same change to what   *)
(* the list shows.                                                           *)
LEMMA ShownInsert ==
  ASSUME NEW rows \in RowSeqs(Keys), NEW header \in BOOLEAN, NEW empty \in BOOLEAN,
         NEW i \in 1..Len(rows) + 1, NEW row \in Rows(Keys),
         \A p \in 1..Len(rows) : rows[p].key # row.key
  PROVE  Takes(Shown(header, rows, empty), Shift(InsertRow(i, row), header),
               Shown(header, InsertAt(rows, i, row), empty))
<1> DEFINE s == Shown(header, rows, empty)
           n == Len(Lead(header))
<1>1. /\ s \in RowSeqs(AllKeys) /\ Len(s) = n + Len(rows) + Len(Foot(empty))
      /\ \A p \in 1..Len(rows) : s[n + p] = rows[p]
      /\ \A p \in 1..Len(s) : s[p].key \in Keys => p - n \in 1..Len(rows)
  BY ShownIs
<1>2. /\ Lead(header) \in Seq(Rows(AllKeys)) /\ Foot(empty) \in Seq(Rows(AllKeys))
      /\ n \in Nat /\ Len(Foot(empty)) \in Nat
  BY FrameIs
<1>3. /\ rows \in Seq(Rows(AllKeys)) /\ Len(rows) \in Nat /\ i \in Nat
      /\ row \in Rows(AllKeys) /\ row.key \in Keys
  <2>1. rows \in Seq(Rows(AllKeys)) /\ Len(rows) \in Nat /\ i \in Nat
    BY MoreKeys DEF RowSeqs
  <2>2. row \in Rows(AllKeys) /\ row.key \in Keys
    BY DEF Rows, AllKeys
  <2> QED BY <2>1, <2>2
<1> HIDE DEF s, n
<1>4. n + i \in 1..Len(s) + 1
  BY <1>1, <1>2, <1>3
<1>5. ASSUME NEW p \in 1..Len(s) PROVE s[p].key # row.key
  <2>1. CASE s[p].key \in Keys
    <3>1. p - n \in 1..Len(rows) /\ n + (p - n) = p
      BY <1>1, <1>2, <2>1
    <3>2. s[p] = rows[p - n]
      BY <1>1, <3>1
    <3> QED BY <3>1, <3>2
  <2> QED BY <1>3, <2>1
<1>6. Takes(s, InsertRow(n + i, row), InsertAt(s, n + i, row))
  <2>1. s \in RowSeqs(AllKeys) /\ row \in Rows(AllKeys)
    BY <1>1, <1>3
  <2> QED BY <1>4, <1>5, <2>1, TakesInsert
<1>7. InsertAt(s, n + i, row) = Shown(header, InsertAt(rows, i, row), empty)
  BY <1>2, <1>3, FramedInsert DEF s, n, Shown
<1>8. Shift(InsertRow(i, row), header) = InsertRow(n + i, row)
  BY <1>3, ShiftIs DEF n
<1> QED BY <1>6, <1>7, <1>8 DEF s

LEMMA ShownUpdate ==
  ASSUME NEW rows \in RowSeqs(Keys), NEW header \in BOOLEAN, NEW empty \in BOOLEAN,
         NEW p \in 1..Len(rows), NEW row \in Rows(Keys), row.key = rows[p].key
  PROVE  Takes(Shown(header, rows, empty), Shift(UpdateRow(row), header),
               Shown(header, [rows EXCEPT ![p] = row], empty))
<1> DEFINE s == Shown(header, rows, empty)
           n == Len(Lead(header))
<1>1. /\ s \in RowSeqs(AllKeys) /\ Len(s) = n + Len(rows) + Len(Foot(empty))
      /\ \A j \in 1..Len(rows) : s[n + j] = rows[j]
  BY ShownIs
<1>2. /\ Lead(header) \in Seq(Rows(AllKeys)) /\ Foot(empty) \in Seq(Rows(AllKeys))
      /\ n \in Nat /\ Len(Foot(empty)) \in Nat
  BY FrameIs
<1>3. /\ rows \in Seq(Rows(AllKeys)) /\ Len(rows) \in Nat /\ p \in Nat
      /\ row \in Rows(AllKeys)
  <2>1. rows \in Seq(Rows(AllKeys)) /\ Len(rows) \in Nat /\ p \in Nat
    BY MoreKeys DEF RowSeqs
  <2>2. row \in Rows(AllKeys)
    BY DEF Rows, AllKeys
  <2> QED BY <2>1, <2>2
<1> HIDE DEF s, n
<1>4. n + p \in 1..Len(s) /\ s[n + p].key = row.key
  BY <1>1, <1>2, <1>3
<1>5. Takes(s, UpdateRow(row), [s EXCEPT ![n + p] = row])
  <2>1. s \in RowSeqs(AllKeys) /\ row \in Rows(AllKeys)
    BY <1>1, <1>3
  <2> QED BY <1>4, <2>1, TakesUpdate
<1>6. [s EXCEPT ![n + p] = row] = Shown(header, [rows EXCEPT ![p] = row], empty)
  <2>1. Lead(header) \in Seq(Rows(AllKeys)) /\ Foot(empty) \in Seq(Rows(AllKeys))
    BY <1>2
  <2>2. rows \in Seq(Rows(AllKeys)) /\ row \in Rows(AllKeys)
    BY <1>3
  <2> QED BY <2>1, <2>2, FramedReplace DEF s, n, Shown
<1>7. Shift(UpdateRow(row), header) = UpdateRow(row)
  BY <1>3, ShiftIs
<1> QED BY <1>5, <1>6, <1>7 DEF s

LEMMA ShownDelete ==
  ASSUME NEW rows \in RowSeqs(Keys), NEW header \in BOOLEAN, NEW empty \in BOOLEAN,
         NEW p \in 1..Len(rows), NEW k, k = rows[p].key
  PROVE  Takes(Shown(header, rows, empty), Shift(DeleteRow(k), header),
               Shown(header, RemoveAt(rows, p), empty))
<1> DEFINE s == Shown(header, rows, empty)
           n == Len(Lead(header))
<1>1. /\ s \in RowSeqs(AllKeys) /\ Len(s) = n + Len(rows) + Len(Foot(empty))
      /\ \A j \in 1..Len(rows) : s[n + j] = rows[j]
  BY ShownIs
<1>2. /\ Lead(header) \in Seq(Rows(AllKeys)) /\ Foot(empty) \in Seq(Rows(AllKeys))
      /\ n \in Nat /\ Len(Foot(empty)) \in Nat
  BY FrameIs
<1>3. rows \in Seq(Rows(AllKeys)) /\ Len(rows) \in Nat /\ p \in Nat
  BY MoreKeys DEF RowSeqs
<1> HIDE DEF s, n
<1>4. n + p \in 1..Len(s) /\ s[n + p].key = k
  BY <1>1, <1>2, <1>3
<1>5. Takes(s, DeleteRow(k), RemoveAt(s, n + p))
  <2>1. s \in RowSeqs(AllKeys)
    BY <1>1
  <2> QED BY <1>4, <2>1, TakesDelete
<1>6. RemoveAt(s, n + p) = Shown(header, RemoveAt(rows, p), empty)
  BY <1>2, <1>3, FramedRemove DEF s, n, Shown
<1>7. Shift(DeleteRow(k), header) = DeleteRow(k)
  BY <1>3, ShiftIs
<1> QED BY <1>5, <1>6, <1>7 DEF s

LEMMA ShownMove ==
  ASSUME NEW rows \in RowSeqs(Keys), NEW header \in BOOLEAN, NEW empty \in BOOLEAN,
         NEW p \in 1..Len(rows), NEW i \in 1..Len(rows), NEW k, k = rows[p].key
  PROVE  Takes(Shown(header, rows, empty), Shift(MoveRow(k, i), header),
               Shown(header, InsertAt(RemoveAt(rows, p), i, rows[p]), empty))
<1> DEFINE s == Shown(header, rows, empty)
           n == Len(Lead(header))
           r == RemoveAt(rows, p)
           e == rows[p]
<1> HIDE DEF s, n, r, e
<1>1. /\ s \in RowSeqs(AllKeys) /\ Len(s) = n + Len(rows) + Len(Foot(empty))
      /\ \A j \in 1..Len(rows) : s[n + j] = rows[j]
  <2>1. s \in RowSeqs(AllKeys) /\ Len(s) = n + Len(rows) + Len(Foot(empty))
    BY ShownIs DEF s, n
  <2>2. ASSUME NEW j \in 1..Len(rows) PROVE s[n + j] = rows[j]
    BY ShownIs DEF s, n
  <2> QED BY <2>1, <2>2
<1>2. /\ Lead(header) \in Seq(Rows(AllKeys)) /\ Foot(empty) \in Seq(Rows(AllKeys))
      /\ n \in Nat /\ Len(Foot(empty)) \in Nat
  BY FrameIs DEF n
<1>3. rows \in Seq(Rows(AllKeys)) /\ Len(rows) \in Nat /\ p \in Nat /\ i \in Nat
  BY MoreKeys DEF RowSeqs
<1>4. r \in Seq(Rows(AllKeys)) /\ Len(r) = Len(rows) - 1 /\ e \in Rows(AllKeys)
  BY <1>3, Removed DEF r, e
<1>5. n + p \in 1..Len(s) /\ n + i \in 1..Len(s) /\ s[n + p] = e /\ e.key = k
  BY <1>1, <1>2, <1>3 DEF e
<1>6. Takes(s, MoveRow(k, n + i), InsertAt(RemoveAt(s, n + p), n + i, e))
  <2>1. s \in RowSeqs(AllKeys)
    BY <1>1
  <2>2. Takes(s, MoveRow(s[n + p].key, n + i), InsertAt(RemoveAt(s, n + p), n + i, s[n + p]))
    BY <1>5, <2>1, TakesMove
  <2> QED BY <1>5, <2>2
<1>7. RemoveAt(s, n + p) = Framed(Lead(header), r, Foot(empty))
  BY <1>2, <1>3, FramedRemove DEF s, n, r, Shown
<1>8. i \in 1..Len(r) + 1
  BY <1>3, <1>4
<1>9. InsertAt(Framed(Lead(header), r, Foot(empty)), n + i, e)
        = Framed(Lead(header), InsertAt(r, i, e), Foot(empty))
  BY <1>2, <1>4, <1>8, FramedInsert DEF n
<1>10. Shift(MoveRow(k, i), header) = MoveRow(k, n + i)
  BY <1>3, ShiftIs DEF n
<1> QED BY <1>6, <1>7, <1>9, <1>10 DEF s, r, e, Shown

---------------------------------------------------------------------------
(* The elements of a sequence that are in a set, one more of the sequence    *)
(* looked at in each entry of the table.                                     *)
ThoseRow(f, seq, A, i) == IF i = 0 THEN <<>>
                          ELSE IF seq[i] \in A THEN Append(f[i - 1], seq[i]) ELSE f[i - 1]
ThoseTable(f, seq, A, n) == f = [i \in 0..n |-> ThoseRow(f, seq, A, i)]
LEMMA ThoseTableExists ==
  ASSUME NEW seq, NEW A, NEW n \in Nat
  PROVE  \E f : ThoseTable(f, seq, A, n)
<1> DEFINE T == {k \in Nat : \E f : ThoseTable(f, seq, A, k)}
<1>1. 0 \in T
  <2> DEFINE f == [i \in 0..0 |-> <<>>]
  <2>1. f = [i \in 0..0 |-> ThoseRow(f, seq, A, i)]
    BY DEF ThoseRow
  <2> HIDE DEF f
  <2> QED BY <2>1 DEF ThoseTable
<1>2. ASSUME NEW k \in T PROVE k + 1 \in T
  <2> PICK f : ThoseTable(f, seq, A, k)
    BY <1>2
  <2> DEFINE g == [i \in 0..k + 1 |-> ThoseRow(f, seq, A, i)]
  <2>1. \A i \in 0..k : f[i] = ThoseRow(f, seq, A, i)
    BY DEF ThoseTable
  <2>2. ASSUME NEW i \in 0..k + 1 PROVE g[i] = ThoseRow(g, seq, A, i)
    <3>1. i # 0 => i - 1 \in 0..k /\ g[i - 1] = f[i - 1]
      BY <2>1
    <3>2. g[i] = ThoseRow(f, seq, A, i)
      OBVIOUS
    <3> HIDE DEF g
    <3> QED BY <3>1, <3>2 DEF ThoseRow
  <2>3. g = [i \in 0..k + 1 |-> ThoseRow(g, seq, A, i)]
    <3>1. g = [i \in 0..k + 1 |-> g[i]]
      OBVIOUS
    <3> HIDE DEF g
    <3> QED BY <2>2, <3>1
  <2> HIDE DEF g
  <2>4. \E h : ThoseTable(h, seq, A, k + 1)
    BY <2>3 DEF ThoseTable
  <2> QED BY <2>4
<1> HIDE DEF T
<1>3. n \in T
  BY <1>1, <1>2, NatSetInduction DEF T
<1> QED BY <1>3 DEF T

Picks(f, seq, A) ==
    /\ f[0] = <<>> /\ f[Len(seq)] = Those(seq, A)
    /\ \A i \in 1..Len(seq) : f[i] = IF seq[i] \in A THEN Append(f[i - 1], seq[i]) ELSE f[i - 1]
LEMMA ThoseIs ==
  ASSUME NEW seq, NEW A, Len(seq) \in Nat
  PROVE  \E f : Picks(f, seq, A)
<1> DEFINE f == CHOOSE f : ThoseTable(f, seq, A, Len(seq))
<1>1. ThoseTable(f, seq, A, Len(seq))
  BY ThoseTableExists
<1>2. Those(seq, A) = f[Len(seq)]
  BY DEF Those, ThoseTable, ThoseRow
<1> HIDE DEF f
<1>3. \A i \in 0..Len(seq) : f[i] = ThoseRow(f, seq, A, i)
  BY <1>1 DEF ThoseTable
<1>4. f[0] = <<>>
  BY <1>3 DEF ThoseRow
<1>5. \A i \in 1..Len(seq) : f[i] = IF seq[i] \in A THEN Append(f[i - 1], seq[i]) ELSE f[i - 1]
  BY <1>3 DEF ThoseRow
<1> QED BY <1>2, <1>4, <1>5 DEF Picks

(* What is picked are elements of the sequence, all those in the set. *)
LEMMA PicksSeq ==
  ASSUME NEW S, NEW seq \in Seq(S), NEW A, NEW f, Picks(f, seq, A), NEW n \in 0..Len(seq)
  PROVE  f[n] \in Seq(S)
<1> DEFINE T == {i \in Nat : i <= Len(seq) => f[i] \in Seq(S)}
<1>1. 0 \in T
  <2>1. f[0] = <<>>
    BY DEF Picks
  <2>2. <<>> \in Seq(S)
    OBVIOUS
  <2> QED BY <2>1, <2>2
<1>2. ASSUME NEW i \in T PROVE i + 1 \in T
  <2> SUFFICES ASSUME i + 1 <= Len(seq) PROVE f[i + 1] \in Seq(S)
    OBVIOUS
  <2>1. i \in Nat /\ i + 1 \in 1..Len(seq) /\ i + 1 - 1 = i /\ f[i] \in Seq(S)
    BY <1>2
  <2>2. seq[i + 1] \in S
    BY <2>1, ElementOfSeq
  <2>3. f[i + 1] = IF seq[i + 1] \in A THEN Append(f[i], seq[i + 1]) ELSE f[i]
    BY <2>1 DEF Picks
  <2> QED BY <2>1, <2>2, <2>3, AppendProperties
<1> HIDE DEF T
<1>3. n \in T
  <2>1. T \in SUBSET Nat
    BY DEF T
  <2> QED BY <1>1, <1>2, <2>1, NatSetInduction
<1> QED BY <1>3 DEF T

---------------------------------------------------------------------------
(* Rows stay rows, each key once, and their keys follow them.                *)
LEMMA RowsInsert ==
  ASSUME NEW K, NEW rows \in RowSeqs(K), NEW i \in 1..Len(rows) + 1, NEW row \in Rows(K),
         \A p \in 1..Len(rows) : rows[p].key # row.key
  PROVE  InsertAt(rows, i, row) \in RowSeqs(K)
<1> DEFINE t == InsertAt(rows, i, row)
<1>1. rows \in Seq(Rows(K)) /\ Unique(rows) /\ Len(rows) \in Nat /\ i \in Nat /\ i >= 1
  BY DEF RowSeqs
<1>2. /\ t \in Seq(Rows(K)) /\ Len(t) = Len(rows) + 1
      /\ \A j \in 1..Len(rows) + 1 : t[j] = IF j < i THEN rows[j] ELSE IF j = i THEN row ELSE rows[j - 1]
  BY <1>1, Inserted
<1> HIDE DEF t
<1>3. ASSUME NEW j \in 1..Len(t)
      PROVE  \/ j < i /\ j \in 1..Len(rows) /\ t[j] = rows[j]
             \/ j = i /\ t[j] = row
             \/ j > i /\ j - 1 \in 1..Len(rows) /\ t[j] = rows[j - 1]
  BY <1>1, <1>2
<1>4. ASSUME NEW j \in 1..Len(t), NEW h \in 1..Len(t), t[j].key = t[h].key PROVE j = h
  <2>1. j \in Nat /\ h \in Nat
    OBVIOUS
  <2>2. \A p, q \in 1..Len(rows) : rows[p].key = rows[q].key => p = q
    BY <1>1 DEF Unique
  <2>3. \/ j < i /\ j \in 1..Len(rows) /\ t[j] = rows[j]
        \/ j = i /\ t[j] = row
        \/ j > i /\ j - 1 \in 1..Len(rows) /\ t[j] = rows[j - 1]
    BY <1>3
  <2>4. \/ h < i /\ h \in 1..Len(rows) /\ t[h] = rows[h]
        \/ h = i /\ t[h] = row
        \/ h > i /\ h - 1 \in 1..Len(rows) /\ t[h] = rows[h - 1]
    BY <1>3
  <2>5. CASE t[j] = row /\ j = i
    BY <1>4, <2>1, <2>4, <2>5
  <2>6. CASE t[h] = row /\ h = i
    BY <1>4, <2>1, <2>3, <2>6
  <2>7. CASE j # i /\ h # i
    <3>1. PICK a \in 1..Len(rows) : t[j] = rows[a] /\ ((j < i /\ a = j) \/ (j > i /\ a = j - 1))
      <4>1. CASE j < i
        <5>1. j \in 1..Len(rows) /\ t[j] = rows[j]
          BY <1>1, <2>1, <2>3, <4>1
        <5> QED BY <4>1, <5>1
      <4>2. CASE j > i
        <5> DEFINE y == j - 1
        <5>1. y \in 1..Len(rows) /\ t[j] = rows[y] /\ y = j - 1
          BY <1>1, <2>1, <2>3, <4>2
        <5> HIDE DEF y
        <5> QED BY <4>2, <5>1
      <4> QED BY <1>1, <2>1, <2>7, <4>1, <4>2
    <3>2. PICK b \in 1..Len(rows) : t[h] = rows[b] /\ ((h < i /\ b = h) \/ (h > i /\ b = h - 1))
      <4>1. CASE h < i
        <5>1. h \in 1..Len(rows) /\ t[h] = rows[h]
          BY <1>1, <2>1, <2>4, <4>1
        <5> QED BY <4>1, <5>1
      <4>2. CASE h > i
        <5> DEFINE y == h - 1
        <5>1. y \in 1..Len(rows) /\ t[h] = rows[y] /\ y = h - 1
          BY <1>1, <2>1, <2>4, <4>2
        <5> HIDE DEF y
        <5> QED BY <4>2, <5>1
      <4> QED BY <1>1, <2>1, <2>7, <4>1, <4>2
    <3>3. a = b
      BY <1>4, <2>2, <3>1, <3>2
    <3> QED BY <1>1, <2>1, <3>1, <3>2, <3>3
  <2> QED BY <2>3, <2>4, <2>5, <2>6, <2>7
<1> QED BY <1>2, <1>4 DEF RowSeqs, Unique, t

LEMMA RowsRemove ==
  ASSUME NEW K, NEW rows \in RowSeqs(K), NEW i \in 1..Len(rows)
  PROVE  /\ RemoveAt(rows, i) \in RowSeqs(K)
         /\ \A j \in 1..Len(rows) - 1 : RemoveAt(rows, i)[j].key # rows[i].key
<1> DEFINE t == RemoveAt(rows, i)
<1>1. rows \in Seq(Rows(K)) /\ Unique(rows) /\ Len(rows) \in Nat /\ i \in Nat /\ i >= 1
  BY DEF RowSeqs
<1>2. /\ t \in Seq(Rows(K)) /\ Len(t) = Len(rows) - 1
      /\ \A j \in 1..Len(rows) - 1 : t[j] = IF j < i THEN rows[j] ELSE rows[j + 1]
  BY <1>1, Removed
<1> HIDE DEF t
<1>3. ASSUME NEW j \in 1..Len(t)
      PROVE  \/ j < i /\ j \in 1..Len(rows) /\ t[j] = rows[j]
             \/ j >= i /\ j + 1 \in 1..Len(rows) /\ t[j] = rows[j + 1]
  BY <1>1, <1>2
<1>4. \A p, q \in 1..Len(rows) : rows[p].key = rows[q].key => p = q
  BY <1>1 DEF Unique
<1>5. ASSUME NEW j \in 1..Len(t), NEW h \in 1..Len(t), t[j].key = t[h].key PROVE j = h
  <2>1. j \in Nat /\ h \in Nat
    OBVIOUS
  <2>2. CASE j < i
    BY SMTT(40), <1>1, <1>3, <1>4, <1>5, <2>1, <2>2
  <2>3. CASE j >= i
    BY SMTT(40), <1>1, <1>3, <1>4, <1>5, <2>1, <2>3
  <2> QED BY <1>1, <2>1, <2>2, <2>3
<1>6. ASSUME NEW j \in 1..Len(t) PROVE t[j].key # rows[i].key
  BY <1>1, <1>3, <1>4
<1> QED BY <1>2, <1>5, <1>6 DEF RowSeqs, Unique, t

LEMMA RowsReplace ==
  ASSUME NEW K, NEW rows \in RowSeqs(K), NEW i \in 1..Len(rows), NEW row \in Rows(K),
         row.key = rows[i].key
  PROVE  [rows EXCEPT ![i] = row] \in RowSeqs(K)
<1> DEFINE t == [rows EXCEPT ![i] = row]
<1>1. rows \in Seq(Rows(K)) /\ Unique(rows) /\ Len(rows) \in Nat
  BY DEF RowSeqs
<1>2. /\ t \in Seq(Rows(K)) /\ Len(t) = Len(rows)
      /\ \A j \in 1..Len(rows) : t[j] = IF j = i THEN row ELSE rows[j]
  BY <1>1, ExceptSeq
<1> HIDE DEF t
<1>3. \A j \in 1..Len(t) : t[j].key = rows[j].key
  BY <1>2
<1>4. \A j, h \in 1..Len(t) : t[j].key = t[h].key => j = h
  BY <1>1, <1>2, <1>3 DEF Unique
<1> QED BY <1>2, <1>4 DEF RowSeqs, Unique, t

LEMMA KeyListInsert ==
  ASSUME NEW K, NEW rows \in Seq(Rows(K)), NEW i \in 1..Len(rows) + 1, NEW row \in Rows(K)
  PROVE  KeyList(InsertAt(rows, i, row)) = InsertAt(KeyList(rows), i, row.key)
<1> DEFINE ks == KeyList(rows)
           t == InsertAt(rows, i, row)
           u == InsertAt(ks, i, row.key)
           a == KeyList(t)
<1>1. ks \in Seq(K) /\ Len(ks) = Len(rows) /\ \A j \in 1..Len(rows) : ks[j] = rows[j].key
  BY KeysAre
<1>2. /\ t \in Seq(Rows(K)) /\ Len(t) = Len(rows) + 1
      /\ \A j \in 1..Len(rows) + 1 : t[j] = IF j < i THEN rows[j] ELSE IF j = i THEN row ELSE rows[j - 1]
  BY Inserted
<1> HIDE DEF ks, t
<1>3. a \in Seq(K) /\ Len(a) = Len(t) /\ \A j \in 1..Len(t) : a[j] = t[j].key
  BY <1>2, KeysAre
<1>4. row.key \in K /\ i \in 1..Len(ks) + 1
  BY <1>1 DEF Rows
<1> HIDE DEF a, u
<1>5. /\ u \in Seq(K) /\ Len(u) = Len(ks) + 1
      /\ \A j \in 1..Len(ks) + 1 : u[j] = IF j < i THEN ks[j] ELSE IF j = i THEN row.key ELSE ks[j - 1]
  <2>1. ks \in Seq(K)
    BY <1>1
  <2> QED BY <1>4, <2>1, Inserted DEF u
<1>6. ASSUME NEW j \in 1..Len(a) PROVE a[j] = u[j]
  <2>0. Len(rows) \in Nat /\ i \in Nat /\ j \in 1..Len(rows) + 1
    BY <1>2, <1>3
  <2>1. CASE j < i
    BY SMTT(40), <1>1, <1>2, <1>3, <1>5, <2>0, <2>1
  <2>2. CASE j = i
    BY <1>1, <1>2, <1>3, <1>5, <2>0, <2>2
  <2>3. CASE j > i
    <3>1. j - 1 \in 1..Len(rows)
      BY <2>0, <2>3
    <3>2. t[j] = rows[j - 1]
      BY <1>2, <2>0, <2>3
    <3>3. u[j] = ks[j - 1]
      BY <1>1, <1>5, <2>0, <2>3
    <3>4. ks[j - 1] = rows[j - 1].key /\ a[j] = t[j].key
      BY <1>1, <1>2, <1>3, <2>0, <3>1
    <3> QED BY <3>2, <3>3, <3>4
  <2> QED BY <2>0, <2>1, <2>2, <2>3
<1>7. a = u
  BY <1>1, <1>2, <1>3, <1>5, <1>6, SeqEqual
<1> QED BY <1>7 DEF a, u, ks, t

LEMMA KeyListRemove ==
  ASSUME NEW K, NEW rows \in Seq(Rows(K)), NEW i \in 1..Len(rows)
  PROVE  KeyList(RemoveAt(rows, i)) = RemoveAt(KeyList(rows), i)
<1> DEFINE ks == KeyList(rows)
           t == RemoveAt(rows, i)
           u == RemoveAt(ks, i)
           a == KeyList(t)
<1>1. ks \in Seq(K) /\ Len(ks) = Len(rows) /\ \A j \in 1..Len(rows) : ks[j] = rows[j].key
  BY KeysAre
<1>2. /\ t \in Seq(Rows(K)) /\ Len(t) = Len(rows) - 1
      /\ \A j \in 1..Len(rows) - 1 : t[j] = IF j < i THEN rows[j] ELSE rows[j + 1]
  BY Removed
<1> HIDE DEF ks, t
<1>3. a \in Seq(K) /\ Len(a) = Len(t) /\ \A j \in 1..Len(t) : a[j] = t[j].key
  BY <1>2, KeysAre
<1> HIDE DEF a, u
<1>4. /\ u \in Seq(K) /\ Len(u) = Len(ks) - 1
      /\ \A j \in 1..Len(ks) - 1 : u[j] = IF j < i THEN ks[j] ELSE ks[j + 1]
  <2>1. ks \in Seq(K) /\ i \in 1..Len(ks)
    BY <1>1
  <2> QED BY <2>1, Removed DEF u
<1>5. ASSUME NEW j \in 1..Len(a) PROVE a[j] = u[j]
  <2>0. Len(rows) \in Nat /\ i \in Nat /\ j \in 1..Len(rows) - 1
    BY <1>2, <1>3
  <2>1. CASE j < i
    <3>1. j \in 1..Len(rows)
      BY <2>0
    <3>2. t[j] = rows[j] /\ u[j] = ks[j] /\ ks[j] = rows[j].key /\ a[j] = t[j].key
      BY <1>1, <1>2, <1>3, <1>4, <2>0, <2>1, <3>1
    <3> QED BY <3>2
  <2>2. CASE j >= i
    <3>1. j + 1 \in 1..Len(rows)
      BY <2>0
    <3>2. t[j] = rows[j + 1] /\ u[j] = ks[j + 1] /\ ks[j + 1] = rows[j + 1].key /\ a[j] = t[j].key
      BY <1>1, <1>2, <1>3, <1>4, <2>0, <2>2, <3>1
    <3> QED BY <3>2
  <2> QED BY <2>0, <2>1, <2>2
<1>6. a = u
  BY <1>1, <1>2, <1>3, <1>4, <1>5, SeqEqual
<1> QED BY <1>6 DEF a, u, ks, t

LEMMA KeyListReplace ==
  ASSUME NEW K, NEW rows \in Seq(Rows(K)), NEW i \in 1..Len(rows), NEW row \in Rows(K),
         row.key = rows[i].key
  PROVE  KeyList([rows EXCEPT ![i] = row]) = KeyList(rows)
<1> DEFINE t == [rows EXCEPT ![i] = row]
<1>1. DOMAIN t = DOMAIN rows /\ \A j \in DOMAIN rows : t[j].key = rows[j].key
  OBVIOUS
<1> HIDE DEF t
<1>2. KeyList(t) = KeyList(rows)
  BY <1>1 DEF KeyList
<1> QED BY <1>2 DEF t

---------------------------------------------------------------------------
(* The patch of an ordinary sequence.  While the keys stay, the rows that    *)
(* have changed are updated in place.                                        *)
AnyChange(K) == {InsertRow(i, row) : i \in Nat, row \in Rows(K)} \cup {UpdateRow(row) : row \in Rows(K)}
                \cup {DeleteRow(k) : k \in K} \cup {MoveRow(k, i) : k \in K, i \in Nat}

Updates(s) == [i \in DOMAIN s |-> UpdateRow(s[i])]
Deletes(s) == [i \in DOMAIN s |-> DeleteRow(s[i])]

LEMMA UpdatesSeq ==
  ASSUME NEW K, NEW s \in Seq(Rows(K))
  PROVE  Updates(s) \in Seq(AnyChange(K))
<1>1. \A r \in Rows(K) : UpdateRow(r) \in AnyChange(K)
  BY DEF AnyChange
<1>2. DOMAIN s = 1..Len(s) /\ Len(s) \in Nat /\ \A i \in 1..Len(s) : s[i] \in Rows(K)
  BY ElementOfSeq
<1>3. Updates(s) = [i \in 1..Len(s) |-> UpdateRow(s[i])]
  BY <1>2 DEF Updates
<1> QED BY <1>1, <1>2, <1>3

LEMMA UpdatesAre ==
  ASSUME NEW K, NEW s \in Seq(Rows(K)), NEW row \in Rows(K)
  PROVE  /\ Updates(s) \in Seq(AnyChange(K))
         /\ Updates(Append(s, row)) = Append(Updates(s), UpdateRow(row))
<1> DEFINE t == Append(s, row)
           a == Updates(t)
           b == Append(Updates(s), UpdateRow(row))
<1>1. \A r \in Rows(K) : UpdateRow(r) \in AnyChange(K)
  BY DEF AnyChange
<1>2. DOMAIN s = 1..Len(s) /\ Len(s) \in Nat /\ \A i \in 1..Len(s) : s[i] \in Rows(K)
  BY ElementOfSeq
<1>3. Updates(s) = [i \in 1..Len(s) |-> UpdateRow(s[i])]
  BY <1>2 DEF Updates
<1>4. /\ Updates(s) \in Seq(AnyChange(K)) /\ Len(Updates(s)) = Len(s)
      /\ \A i \in 1..Len(s) : Updates(s)[i] = UpdateRow(s[i])
  BY <1>1, <1>2, <1>3
<1>5. /\ t \in Seq(Rows(K)) /\ Len(t) = Len(s) + 1 /\ t[Len(s) + 1] = row
      /\ \A i \in 1..Len(s) : t[i] = s[i]
  BY AppendProperties
<1> HIDE DEF t
<1>6. \A i \in 1..Len(t) : t[i] \in Rows(K)
  BY <1>5, ElementOfSeq
<1>7. a = [i \in 1..Len(t) |-> UpdateRow(t[i])]
  BY <1>5 DEF Updates
<1>8. /\ a \in Seq(AnyChange(K)) /\ Len(a) = Len(s) + 1
      /\ \A i \in 1..Len(s) + 1 : a[i] = UpdateRow(t[i])
  BY <1>1, <1>2, <1>5, <1>6, <1>7
<1>9. /\ b \in Seq(AnyChange(K)) /\ Len(b) = Len(s) + 1 /\ b[Len(s) + 1] = UpdateRow(row)
      /\ \A i \in 1..Len(s) : b[i] = Updates(s)[i]
  <2>1. UpdateRow(row) \in AnyChange(K)
    BY <1>1
  <2> HIDE DEF a
  <2> QED BY <1>4, <2>1, AppendProperties
<1> HIDE DEF a, b
<1>10. ASSUME NEW i \in 1..Len(a) PROVE a[i] = b[i]
  <2>1. CASE i = Len(s) + 1
    BY <1>2, <1>5, <1>8, <1>9, <2>1
  <2>2. CASE i \in 1..Len(s)
    <3>1. a[i] = UpdateRow(t[i]) /\ t[i] = s[i] /\ b[i] = UpdateRow(s[i])
      BY <1>4, <1>5, <1>8, <1>9, <2>2
    <3> QED BY <3>1
  <2> QED BY <1>2, <1>8, <2>1, <2>2
<1>11. a = b
  BY <1>8, <1>9, <1>10, SeqEqual
<1> QED BY <1>4, <1>11 DEF a, b, t

LEMMA DeletesSeq ==
  ASSUME NEW K, NEW s \in Seq(K)
  PROVE  Deletes(s) \in Seq(AnyChange(K))
<1>1. \A r \in K : DeleteRow(r) \in AnyChange(K)
  BY DEF AnyChange
<1>2. DOMAIN s = 1..Len(s) /\ Len(s) \in Nat /\ \A i \in 1..Len(s) : s[i] \in K
  BY ElementOfSeq
<1>3. Deletes(s) = [i \in 1..Len(s) |-> DeleteRow(s[i])]
  BY <1>2 DEF Deletes
<1> QED BY <1>1, <1>2, <1>3

LEMMA DeletesAre ==
  ASSUME NEW K, NEW s \in Seq(K), NEW k \in K
  PROVE  /\ Deletes(s) \in Seq(AnyChange(K))
         /\ Deletes(Append(s, k)) = Append(Deletes(s), DeleteRow(k))
<1> DEFINE t == Append(s, k)
           a == Deletes(t)
           b == Append(Deletes(s), DeleteRow(k))
<1>1. \A r \in K : DeleteRow(r) \in AnyChange(K)
  BY DEF AnyChange
<1>2. DOMAIN s = 1..Len(s) /\ Len(s) \in Nat /\ \A i \in 1..Len(s) : s[i] \in K
  BY ElementOfSeq
<1>3. Deletes(s) = [i \in 1..Len(s) |-> DeleteRow(s[i])]
  BY <1>2 DEF Deletes
<1>4. /\ Deletes(s) \in Seq(AnyChange(K)) /\ Len(Deletes(s)) = Len(s)
      /\ \A i \in 1..Len(s) : Deletes(s)[i] = DeleteRow(s[i])
  BY <1>1, <1>2, <1>3
<1>5. /\ t \in Seq(K) /\ Len(t) = Len(s) + 1 /\ t[Len(s) + 1] = k
      /\ \A i \in 1..Len(s) : t[i] = s[i]
  BY AppendProperties
<1> HIDE DEF t
<1>6. \A i \in 1..Len(t) : t[i] \in K
  BY <1>5, ElementOfSeq
<1>7. a = [i \in 1..Len(t) |-> DeleteRow(t[i])]
  BY <1>5 DEF Deletes
<1>8. /\ a \in Seq(AnyChange(K)) /\ Len(a) = Len(s) + 1
      /\ \A i \in 1..Len(s) + 1 : a[i] = DeleteRow(t[i])
  BY <1>1, <1>2, <1>5, <1>6, <1>7
<1>9. /\ b \in Seq(AnyChange(K)) /\ Len(b) = Len(s) + 1 /\ b[Len(s) + 1] = DeleteRow(k)
      /\ \A i \in 1..Len(s) : b[i] = Deletes(s)[i]
  <2>1. DeleteRow(k) \in AnyChange(K)
    BY <1>1
  <2> HIDE DEF a
  <2> QED BY <1>4, <2>1, AppendProperties
<1> HIDE DEF a, b
<1>10. ASSUME NEW i \in 1..Len(a) PROVE a[i] = b[i]
  <2>1. CASE i = Len(s) + 1
    BY <1>2, <1>5, <1>8, <1>9, <2>1
  <2>2. CASE i \in 1..Len(s)
    <3>1. a[i] = DeleteRow(t[i]) /\ t[i] = s[i] /\ b[i] = DeleteRow(s[i])
      BY <1>4, <1>5, <1>8, <1>9, <2>2
    <3> QED BY <3>1
  <2> QED BY <1>2, <1>8, <2>1, <2>2
<1>11. a = b
  BY <1>8, <1>9, <1>10, SeqEqual
<1> QED BY <1>4, <1>11 DEF a, b, t

Stale(old, new) == Those(new, {row \in ToSet(new) : old[IndexOf(old, row.key)] # row})
LEMMA PlaysUpdates ==
  ASSUME NEW K, NEW old \in RowSeqs(K), NEW new \in RowSeqs(K), KeyList(old) = KeyList(new)
  PROVE  /\ Updates(Stale(old, new)) \in Seq(AnyChange(K))
         /\ Plays(old, Updates(Stale(old, new)), new)
<1> DEFINE n == Len(new)
           A == {row \in ToSet(new) : old[IndexOf(old, row.key)] # row}
           mix(i) == [j \in 1..n |-> IF j <= i THEN new[j] ELSE old[j]]
<1>1. old \in Seq(Rows(K)) /\ new \in Seq(Rows(K)) /\ n \in Nat
  BY DEF RowSeqs
<1>2. Len(old) = n /\ \A i \in 1..n : old[i].key = new[i].key
  <2>1. Len(KeyList(old)) = Len(old) /\ \A i \in 1..Len(old) : KeyList(old)[i] = old[i].key
    BY <1>1, KeysAre
  <2>2. Len(KeyList(new)) = Len(new) /\ \A i \in 1..Len(new) : KeyList(new)[i] = new[i].key
    BY <1>1, KeysAre
  <2> QED BY <2>1, <2>2
<1>3. \A i \in 1..n : old[i] \in Rows(K) /\ new[i] \in Rows(K)
  BY <1>1, <1>2, ElementOfSeq
<1>4. PICK f : Picks(f, new, A)
  BY <1>1, ThoseIs
<1>5. \A i \in 0..n : f[i] \in Seq(Rows(K))
  <2> HIDE DEF A, n
  <2> QED BY <1>1, <1>4, PicksSeq DEF n
<1>6. ASSUME NEW i \in 1..n PROVE (new[i] \in A) <=> (new[i] # old[i])
  <2>1. IndexOf(old, new[i].key) = i
    <3>1. i \in 1..Len(old) /\ old[i].key = new[i].key
      BY <1>2
    <3> QED BY <3>1, IndexIs
  <2>2. new[i] \in ToSet(new)
    BY <1>1 DEF ToSet
  <2> QED BY <2>1, <2>2
<1> HIDE DEF A
<1> DEFINE T == {i \in Nat : i <= n => mix(i) \in RowSeqs(K) /\ Plays(old, Updates(f[i]), mix(i))}
<1>7. 0 \in T
  <2>1. mix(0) = old
    <3>1. old = [j \in 1..n |-> old[j]]
      BY <1>1, <1>2
    <3>2. \A j \in 1..n : ~(j <= 0)
      OBVIOUS
    <3> HIDE DEF n
    <3> QED BY <3>1, <3>2
  <2>2. Updates(f[0]) = <<>>
    BY <1>4 DEF Picks, Updates
  <2> QED BY <2>1, <2>2, PlaysNone
<1>8. ASSUME NEW i \in T PROVE i + 1 \in T
  <2>0. i \in Nat
    OBVIOUS
  <2> SUFFICES ASSUME i + 1 <= n
               PROVE  mix(i + 1) \in RowSeqs(K) /\ Plays(old, Updates(f[i + 1]), mix(i + 1))
    BY <2>0
  <2>1. i + 1 \in 1..n /\ i + 1 - 1 = i /\ i \in 0..n
    BY <2>0
  <2>2. mix(i) \in RowSeqs(K) /\ Plays(old, Updates(f[i]), mix(i))
    BY <2>0, <2>1
  <2>3. mix(i) \in Seq(Rows(K)) /\ Len(mix(i)) = n /\ mix(i)[i + 1] = old[i + 1]
    BY <1>1, <1>3, <2>0, <2>1
  <2>4. mix(i + 1) = [mix(i) EXCEPT ![i + 1] = new[i + 1]]
    <3> DEFINE a == mix(i + 1)
               m == mix(i)
               b == [m EXCEPT ![i + 1] = new[i + 1]]
    <3>1. a = [j \in 1..n |-> a[j]] /\ b = [j \in 1..n |-> b[j]]
      OBVIOUS
    <3>2. ASSUME NEW j \in 1..n PROVE a[j] = b[j]
      <4>1. a[j] = IF j <= i + 1 THEN new[j] ELSE old[j]
        OBVIOUS
      <4>2. b[j] = IF j = i + 1 THEN new[j] ELSE IF j <= i THEN new[j] ELSE old[j]
        OBVIOUS
      <4> HIDE DEF a, b
      <4> QED BY <2>0, <4>1, <4>2
    <3> HIDE DEF a, b
    <3>3. a = b
      BY <3>1, <3>2
    <3> QED BY <3>3 DEF a, b
  <2>5. f[i + 1] = IF new[i + 1] \in A THEN Append(f[i], new[i + 1]) ELSE f[i]
    BY <1>4, <2>1 DEF Picks
  <2> DEFINE m == mix(i)
  <2> HIDE DEF mix, m
  <2>6. new[i + 1] \in Rows(K) /\ new[i + 1].key = m[i + 1].key /\ i + 1 \in 1..Len(m) /\ m \in RowSeqs(K)
    BY <1>2, <1>3, <2>1, <2>2, <2>3 DEF m
  <2>7. mix(i + 1) \in RowSeqs(K)
    <3>1. [m EXCEPT ![i + 1] = new[i + 1]] \in RowSeqs(K)
      BY <2>6, RowsReplace
    <3> QED BY <2>4, <3>1 DEF m
  <2>8. CASE new[i + 1] \in A
    <3>1. Takes(m, UpdateRow(new[i + 1]), [m EXCEPT ![i + 1] = new[i + 1]])
      BY <2>6, TakesUpdate
    <3>2. /\ Updates(f[i]) \in Seq(AnyChange(K))
          /\ Updates(f[i + 1]) = Append(Updates(f[i]), UpdateRow(new[i + 1]))
      <4>1. f[i] \in Seq(Rows(K))
        BY <1>5, <2>1
      <4>2. f[i + 1] = Append(f[i], new[i + 1])
        BY <2>5, <2>8
      <4> QED BY <2>6, <4>1, <4>2, UpdatesAre
    <3>3. UpdateRow(new[i + 1]) \in AnyChange(K)
      BY <2>6 DEF AnyChange
    <3>4. Plays(old, Append(Updates(f[i]), UpdateRow(new[i + 1])), [m EXCEPT ![i + 1] = new[i + 1]])
      BY <2>2, <3>1, <3>2, <3>3, PlaysAppend DEF m
    <3> QED BY <2>4, <2>7, <3>2, <3>4 DEF m
  <2>9. CASE new[i + 1] \notin A
    <3>1. new[i + 1] = m[i + 1]
      BY <1>6, <2>1, <2>3, <2>9 DEF m
    <3>2. [m EXCEPT ![i + 1] = new[i + 1]] = m
      BY <2>3, <3>1 DEF m
    <3> QED BY <2>2, <2>4, <2>5, <2>9, <3>2 DEF m
  <2> QED BY <2>8, <2>9
<1>9. n \in T
  <2> HIDE DEF T
  <2>1. T \in SUBSET Nat
    BY DEF T
  <2> QED BY <1>1, <1>7, <1>8, <2>1, NatSetInduction
<1>10. mix(n) = new
  <2>1. new = [j \in 1..n |-> new[j]]
    BY <1>1
  <2>2. \A j \in 1..n : j <= n
    BY <1>1
  <2> HIDE DEF n
  <2> QED BY <2>1, <2>2
<1>11. f[n] = Stale(old, new)
  BY <1>4 DEF Picks, Stale, A
<1>12. Updates(f[n]) \in Seq(AnyChange(K))
  <2>1. f[n] \in Seq(Rows(K))
    BY <1>1, <1>5
  <2> QED BY <2>1, UpdatesSeq
<1> QED BY SMTT(40), <1>1, <1>9, <1>10, <1>11, <1>12

(* Otherwise the rows that are gone are deleted first.  When the first i old *)
(* rows have been looked at, with the keys o kept, the rows are w.           *)
Swept(old, N, o, i, w) ==
    /\ Len(w) = Len(o) + (Len(old) - i)
    /\ \A j \in 1..Len(o) : w[j].key = o[j] /\ w[j].key \in N
    /\ \A j \in 1..Len(old) - i : w[Len(o) + j] = old[i + j]
    /\ \A j \in 1..Len(w) : \E p \in 1..Len(old) : w[j] = old[p]
    /\ \A p \in 1..Len(old) : old[p].key \in N => \E j \in 1..Len(w) : w[j] = old[p]

LEMMA SweepKeeps ==
  ASSUME NEW K, NEW old \in RowSeqs(K), NEW w \in RowSeqs(K), NEW N, NEW o \in Seq(K),
         NEW i \in Nat, i + 1 <= Len(old), Swept(old, N, o, i, w), old[i + 1].key \in N
  PROVE  Swept(old, N, Append(o, old[i + 1].key), i + 1, w)
<1> DEFINE n == Len(old)
           m == Len(o)
           k == old[i + 1].key
           q == Append(o, k)
<1>1. n \in Nat /\ m \in Nat /\ old \in Seq(Rows(K))
  BY DEF RowSeqs
<1>2. k \in K
  <2>1. i + 1 \in 1..n
    BY <1>1
  <2>2. old[i + 1] \in Rows(K)
    BY <1>1, <2>1, ElementOfSeq
  <2> QED BY <2>2 DEF Rows
<1>3. Len(q) = m + 1 /\ q[m + 1] = k /\ \A j \in 1..m : q[j] = o[j]
  BY <1>2, AppendProperties
<1>4. w[m + 1] = old[i + 1]
  <2>1. 1 \in 1..n - i
    BY <1>1
  <2> QED BY <2>1 DEF Swept
<1> HIDE DEF q, m, n
<1>5. Len(w) = Len(q) + (n - (i + 1))
  BY <1>1, <1>3 DEF Swept, m, n
<1>6. ASSUME NEW j \in 1..Len(q) PROVE w[j].key = q[j] /\ w[j].key \in N
  <2>1. CASE j = m + 1
    BY <1>3, <1>4, <2>1
  <2>2. CASE j # m + 1
    <3>1. j \in 1..m
      BY <1>1, <1>3, <2>2
    <3> QED BY <1>3, <3>1 DEF Swept, m
  <2> QED BY <2>1, <2>2
<1>7. ASSUME NEW j \in 1..n - (i + 1) PROVE w[Len(q) + j] = old[i + 1 + j]
  <2>1. 1 + j \in 1..n - i /\ m + (1 + j) = Len(q) + j /\ i + (1 + j) = i + 1 + j
    BY <1>1, <1>3
  <2>2. w[m + (1 + j)] = old[i + (1 + j)]
    BY <2>1 DEF Swept, m, n
  <2> QED BY <2>1, <2>2
<1>8. \A j \in 1..Len(w) : \E p \in 1..Len(old) : w[j] = old[p]
  BY DEF Swept
<1>9. \A p \in 1..Len(old) : old[p].key \in N => \E j \in 1..Len(w) : w[j] = old[p]
  BY DEF Swept
<1> QED BY <1>5, <1>6, <1>7, <1>8, <1>9 DEF Swept, q, n

LEMMA SweepDrops ==
  ASSUME NEW K, NEW old \in RowSeqs(K), NEW w \in RowSeqs(K), NEW N, NEW o \in Seq(K),
         NEW i \in Nat, i + 1 <= Len(old), Swept(old, N, o, i, w), old[i + 1].key \notin N
  PROVE  /\ Len(o) + 1 \in 1..Len(w) /\ w[Len(o) + 1].key = old[i + 1].key
         /\ Swept(old, N, o, i + 1, RemoveAt(w, Len(o) + 1))
<1> DEFINE n == Len(old)
           m == Len(o)
           x == RemoveAt(w, m + 1)
<1>1. n \in Nat /\ m \in Nat /\ Len(w) \in Nat /\ w \in Seq(Rows(K)) /\ Len(w) = m + (n - i)
  BY DEF RowSeqs, Swept
<1>2. m + 1 \in 1..Len(w) /\ w[m + 1] = old[i + 1]
  <2>1. 1 \in 1..n - i
    BY <1>1
  <2>2. w[m + 1] = old[i + 1]
    BY <2>1 DEF Swept
  <2> QED BY <1>1, <2>2
<1> HIDE DEF m, n, x
<1>3. Len(x) = Len(w) - 1 /\ \A j \in 1..Len(w) - 1 : x[j] = IF j < m + 1 THEN w[j] ELSE w[j + 1]
  BY <1>1, <1>2, Removed DEF x
<1>4. Len(x) = m + (n - (i + 1))
  BY <1>1, <1>3
<1>5. ASSUME NEW j \in 1..m PROVE x[j].key = o[j] /\ x[j].key \in N
  <2>1. j \in 1..Len(w) - 1 /\ j < m + 1
    BY <1>1 DEF n
  <2>2. x[j] = w[j]
    BY <1>3, <2>1
  <2> QED BY <2>2 DEF Swept, m
<1>6. ASSUME NEW j \in 1..n - (i + 1) PROVE x[m + j] = old[i + 1 + j]
  <2>1. /\ 1 + j \in 1..n - i /\ m + (1 + j) = m + j + 1 /\ i + (1 + j) = i + 1 + j
        /\ m + j \in 1..Len(w) - 1 /\ ~(m + j < m + 1)
    BY <1>1
  <2>2. w[m + (1 + j)] = old[i + (1 + j)]
    BY <2>1 DEF Swept, m, n
  <2>3. x[m + j] = w[m + j + 1]
    BY <1>3, <2>1
  <2> QED BY <2>1, <2>2, <2>3
<1>7. ASSUME NEW j \in 1..Len(x) PROVE \E p \in 1..Len(old) : x[j] = old[p]
  <2>1. j \in 1..Len(w) /\ j + 1 \in 1..Len(w) /\ j \in 1..Len(w) - 1
    BY <1>1, <1>3
  <2>2. x[j] = w[j] \/ x[j] = w[j + 1]
    BY <1>3, <2>1
  <2>3. (\E p \in 1..Len(old) : w[j] = old[p]) /\ \E p \in 1..Len(old) : w[j + 1] = old[p]
    BY <2>1 DEF Swept
  <2> QED BY <2>2, <2>3
<1>8. ASSUME NEW p \in 1..Len(old), old[p].key \in N PROVE \E j \in 1..Len(x) : x[j] = old[p]
  <2>1. PICK j \in 1..Len(w) : w[j] = old[p]
    BY <1>8 DEF Swept
  <2>2. j # m + 1
    BY <1>2, <1>8, <2>1
  <2>3. CASE j < m + 1
    <3>1. j \in 1..Len(x) /\ j \in 1..Len(w) - 1
      BY <1>1, <1>2, <1>3, <2>3
    <3>2. x[j] = w[j]
      BY <1>3, <2>3, <3>1
    <3> QED BY <2>1, <3>1, <3>2
  <2>4. CASE j > m + 1
    <3> DEFINE h == j - 1
    <3>1. h \in 1..Len(x) /\ h \in 1..Len(w) - 1 /\ ~(h < m + 1) /\ h + 1 = j
      BY <1>1, <1>2, <1>3, <2>4
    <3> HIDE DEF h
    <3>2. x[h] = w[j]
      BY <1>3, <3>1
    <3> QED BY <2>1, <3>1, <3>2
  <2> QED BY <1>1, <2>2, <2>3, <2>4
<1>9. Swept(old, N, o, i + 1, x)
  BY <1>4, <1>5, <1>6, <1>7, <1>8 DEF Swept, m, n
<1> QED BY <1>2, <1>9 DEF m, x

Gone(old, N) == Those(KeyList(old), KeysOf(old) \ N)
LEMMA PlaysDeletes ==
  ASSUME NEW K, NEW old \in RowSeqs(K), NEW N
  PROVE  /\ Deletes(Gone(old, N)) \in Seq(AnyChange(K))
         /\ \E w \in RowSeqs(K) :
               /\ Plays(old, Deletes(Gone(old, N)), w)
               /\ KeyList(w) = Those(KeyList(old), N)
               /\ \A j \in 1..Len(w) : w[j].key \in N /\ \E p \in 1..Len(old) : w[j] = old[p]
               /\ \A p \in 1..Len(old) : old[p].key \in N => \E j \in 1..Len(w) : w[j] = old[p]
<1> DEFINE n == Len(old)
           ks == KeyList(old)
           A == KeysOf(old) \ N
<1>1. old \in Seq(Rows(K)) /\ n \in Nat
  BY DEF RowSeqs
<1>2. /\ ks \in Seq(K) /\ Len(ks) = n /\ \A i \in 1..n : ks[i] = old[i].key
      /\ \A i \in 1..n : old[i].key \in KeysOf(old)
  BY <1>1, KeysAre
<1> HIDE DEF ks, A, n
<1>3. PICK g : Picks(g, ks, A)
  BY <1>1, <1>2, ThoseIs
<1>4. PICK o : Picks(o, ks, N)
  BY <1>1, <1>2, ThoseIs
<1>5. \A i \in 0..n : g[i] \in Seq(K)
  BY <1>2, <1>3, PicksSeq
<1>6. \A i \in 0..n : o[i] \in Seq(K)
  BY <1>2, <1>4, PicksSeq
<1> DEFINE Reached(i) == \E w \in RowSeqs(K) : Plays(old, Deletes(g[i]), w) /\ Swept(old, N, o[i], i, w)
           T == {i \in Nat : i <= n => Reached(i)}
<1>7. 0 \in T
  <2>1. g[0] = <<>> /\ o[0] = <<>> /\ Len(<<>>) = 0
    BY <1>3, <1>4 DEF Picks
  <2>2. Deletes(g[0]) = <<>>
    BY <2>1 DEF Deletes
  <2>3. Plays(old, Deletes(g[0]), old)
    BY <2>2, PlaysNone
  <2>4. Swept(old, N, o[0], 0, old)
    BY <1>1, <2>1 DEF Swept, n
  <2> QED BY <2>3, <2>4
<1>8. ASSUME NEW i \in T PROVE i + 1 \in T
  <2>0. i \in Nat
    OBVIOUS
  <2> SUFFICES ASSUME i + 1 <= n PROVE Reached(i + 1)
    BY <2>0
  <2>1. i + 1 \in 1..n /\ i \in 0..n /\ i + 1 - 1 = i
    BY <1>1, <2>0
  <2>2. PICK w \in RowSeqs(K) : Plays(old, Deletes(g[i]), w) /\ Swept(old, N, o[i], i, w)
    BY <2>0, <2>1
  <2>3. ks[i + 1] = old[i + 1].key /\ old[i + 1].key \in KeysOf(old)
    BY <1>2, <2>1
  <2>4. g[i + 1] = IF ks[i + 1] \in A THEN Append(g[i], ks[i + 1]) ELSE g[i]
    BY <1>2, <1>3, <2>1 DEF Picks
  <2>5. o[i + 1] = IF ks[i + 1] \in N THEN Append(o[i], ks[i + 1]) ELSE o[i]
    BY <1>2, <1>4, <2>1 DEF Picks
  <2>6. i + 1 <= Len(old) /\ o[i] \in Seq(K)
    BY <1>6, <2>1 DEF n
  <2>7. CASE old[i + 1].key \in N
    <3>1. g[i + 1] = g[i] /\ o[i + 1] = Append(o[i], old[i + 1].key)
      BY <2>3, <2>4, <2>5, <2>7 DEF A
    <3>2. Swept(old, N, o[i + 1], i + 1, w)
      BY <2>0, <2>2, <2>6, <2>7, <3>1, SweepKeeps
    <3> QED BY <2>2, <3>1, <3>2
  <2>8. CASE old[i + 1].key \notin N
    <3> DEFINE p == Len(o[i]) + 1
               x == RemoveAt(w, p)
    <3>1. g[i + 1] = Append(g[i], ks[i + 1]) /\ o[i + 1] = o[i]
      BY <2>3, <2>4, <2>5, <2>8 DEF A
    <3>2. p \in 1..Len(w) /\ w[p].key = ks[i + 1] /\ Swept(old, N, o[i], i + 1, x)
      BY <2>0, <2>2, <2>3, <2>6, <2>8, SweepDrops
    <3> HIDE DEF p
    <3>3. x \in RowSeqs(K)
      BY <3>2, RowsRemove
    <3>4. Takes(w, DeleteRow(w[p].key), x)
      BY <3>2, TakesDelete
    <3> HIDE DEF x
    <3>5. ks[i + 1] \in K /\ g[i] \in Seq(K)
      BY <1>2, <1>5, <2>1, ElementOfSeq
    <3>6. Deletes(g[i]) \in Seq(AnyChange(K)) /\ Deletes(g[i + 1]) = Append(Deletes(g[i]), DeleteRow(w[p].key))
      BY ZenonT(60), <3>1, <3>2, <3>5, DeletesAre
    <3>7. DeleteRow(w[p].key) \in AnyChange(K)
      BY <3>2, <3>5 DEF AnyChange
    <3>8. Plays(old, Deletes(g[i + 1]), x)
      BY <2>2, <3>4, <3>6, <3>7, PlaysAppend
    <3> QED BY <3>1, <3>2, <3>3, <3>8
  <2> QED BY <2>7, <2>8
<1>9. n \in T
  <2> HIDE DEF T
  <2>1. T \in SUBSET Nat
    BY DEF T
  <2> QED BY <1>1, <1>7, <1>8, <2>1, NatSetInduction
<1>10. PICK w \in RowSeqs(K) : Plays(old, Deletes(g[n]), w) /\ Swept(old, N, o[n], n, w)
  BY <1>1, <1>9
<1>11. g[n] = Gone(old, N) /\ o[n] = Those(ks, N)
  BY <1>2, <1>3, <1>4 DEF Picks, Gone, A, ks
<1>12. Deletes(g[n]) \in Seq(AnyChange(K))
  <2>1. g[n] \in Seq(K)
    BY <1>1, <1>5
  <2> QED BY <2>1, DeletesSeq
<1>13. KeyList(w) = o[n] /\ Len(w) = Len(o[n]) /\ \A j \in 1..Len(w) : w[j].key \in N
  <2>1. w \in Seq(Rows(K)) /\ o[n] \in Seq(K)
    BY <1>1, <1>6 DEF RowSeqs
  <2>2. KeyList(w) \in Seq(K) /\ Len(KeyList(w)) = Len(w) /\ \A j \in 1..Len(w) : KeyList(w)[j] = w[j].key
    BY <2>1, KeysAre
  <2>3. Len(w) = Len(o[n])
    <3>1. Len(w) = Len(o[n]) + (n - n) /\ Len(o[n]) \in Nat
      BY <1>10, <2>1 DEF Swept, n
    <3> QED BY <1>1, <3>1
  <2>4. \A j \in 1..Len(w) : w[j].key = o[n][j] /\ w[j].key \in N
    BY <1>10, <2>3 DEF Swept
  <2> DEFINE kw == KeyList(w)
             on == o[n]
  <2>5. /\ kw \in Seq(K) /\ on \in Seq(K) /\ Len(kw) = Len(on)
        /\ \A j \in 1..Len(kw) : kw[j] = on[j]
    BY <2>1, <2>2, <2>3, <2>4
  <2> HIDE DEF kw, on
  <2>6. kw = on
    BY <2>5, SeqEqual
  <2> QED BY <2>3, <2>4, <2>6 DEF kw, on
<1> QED BY <1>10, <1>11, <1>12, <1>13 DEF Swept, ks

(* Then each row of the new list is put in its place.  When the first i are, *)
(* the others of w are old rows whose keys are still to come, all of them.   *)
Placed(old, new, i, w) ==
    /\ i <= Len(w)
    /\ \A j \in 1..i : w[j] = new[j]
    /\ \A j \in i + 1..Len(w) : \E q \in i + 1..Len(new) : w[j].key = new[q].key
    /\ \A j \in i + 1..Len(w) : \E p \in 1..Len(old) : w[j] = old[p]
    /\ \A q \in i + 1..Len(new) :
          new[q].key \in KeysOf(old) => \E j \in i + 1..Len(w) : w[j].key = new[q].key

LEMMA PlacedNew ==
  ASSUME NEW K, NEW old \in RowSeqs(K), NEW new \in RowSeqs(K), NEW w \in RowSeqs(K), NEW i \in Nat,
         i + 1 <= Len(new), Placed(old, new, i, w), new[i + 1].key \notin KeysOf(old)
  PROVE  /\ i + 1 \in 1..Len(w) + 1
         /\ \A p \in 1..Len(w) : w[p].key # new[i + 1].key
         /\ Placed(old, new, i + 1, InsertAt(w, i + 1, new[i + 1]))
<1> DEFINE row == new[i + 1]
           n == Len(w)
           x == InsertAt(w, i + 1, row)
<1>1. /\ w \in Seq(Rows(K)) /\ new \in Seq(Rows(K)) /\ old \in Seq(Rows(K))
      /\ n \in Nat /\ Len(new) \in Nat /\ i <= n
  BY DEF RowSeqs, Placed
<1>2. row \in Rows(K) /\ i + 1 \in 1..Len(new)
  <2>1. i + 1 \in 1..Len(new)
    BY <1>1
  <2> QED BY <1>1, <2>1, ElementOfSeq
<1>3. \A q \in 1..Len(new) : new[q].key = row.key => q = i + 1
  BY <1>2 DEF RowSeqs, Unique
<1>4. \A p \in 1..Len(old) : old[p].key \in KeysOf(old)
  BY <1>1, KeysAre
<1> HIDE DEF row, n, x
<1>5. ASSUME NEW p \in 1..n PROVE w[p].key # row.key
  <2>1. CASE p <= i
    <3>1. p \in 1..i /\ p \in 1..Len(new) /\ p # i + 1
      BY <1>1, <1>2, <2>1
    <3>2. w[p] = new[p]
      BY <3>1 DEF Placed
    <3> QED BY <1>3, <3>1, <3>2
  <2>2. CASE p > i
    <3>1. p \in i + 1..n
      BY <1>1, <2>2
    <3>2. \E y \in 1..Len(old) : w[p] = old[y]
      BY <3>1 DEF Placed, n
    <3> QED BY <1>4, <3>2 DEF row
  <2> QED BY <1>1, <2>1, <2>2
<1>6. i + 1 \in 1..n + 1
  BY <1>1
<1>7. /\ Len(x) = n + 1
      /\ \A j \in 1..n + 1 : x[j] = IF j < i + 1 THEN w[j] ELSE IF j = i + 1 THEN row ELSE w[j - 1]
  BY SMTT(40), <1>1, <1>2, <1>6, Inserted DEF x, n
<1>8. i + 1 <= Len(x)
  BY <1>6, <1>7
<1>9. ASSUME NEW j \in 1..i + 1 PROVE x[j] = new[j]
  <2>1. j \in 1..n + 1
    BY <1>1
  <2>2. CASE j = i + 1
    BY <1>7, <2>1, <2>2 DEF row
  <2>3. CASE j # i + 1
    <3>1. j \in 1..i /\ j < i + 1
      BY <2>3
    <3>2. x[j] = w[j]
      BY <1>7, <2>1, <3>1
    <3> QED BY <3>1, <3>2 DEF Placed
  <2> QED BY <2>2, <2>3
<1>10. ASSUME NEW j \in i + 1 + 1..Len(x)
       PROVE  /\ \E q \in i + 1 + 1..Len(new) : x[j].key = new[q].key
              /\ \E p \in 1..Len(old) : x[j] = old[p]
  <2> DEFINE h == j - 1
  <2>1. h \in i + 1..n /\ h \in 1..n /\ x[j] = w[h]
    <3>1. h \in i + 1..n /\ h \in 1..n /\ j \in 1..n + 1 /\ ~(j < i + 1) /\ j # i + 1
      BY <1>1, <1>7
    <3> QED BY <1>7, <3>1
  <2> HIDE DEF h
  <2>2. PICK q \in i + 1..Len(new) : w[h].key = new[q].key
    BY <2>1 DEF Placed, n
  <2>3. q # i + 1
    BY <1>5, <2>1, <2>2 DEF row
  <2>4. q \in i + 1 + 1..Len(new)
    BY <1>1, <2>3
  <2>5. \E p \in 1..Len(old) : w[h] = old[p]
    BY <2>1 DEF Placed, n
  <2> QED BY <2>1, <2>2, <2>4, <2>5
<1>11. ASSUME NEW q \in i + 1 + 1..Len(new), new[q].key \in KeysOf(old)
       PROVE  \E j \in i + 1 + 1..Len(x) : x[j].key = new[q].key
  <2>1. q \in i + 1..Len(new)
    BY <1>1
  <2>2. PICK h \in i + 1..n : w[h].key = new[q].key
    BY <1>11, <2>1 DEF Placed, n
  <2> DEFINE j == h + 1
  <2>3. j \in i + 1 + 1..Len(x) /\ j \in 1..n + 1 /\ ~(j < i + 1) /\ j # i + 1 /\ j - 1 = h
    BY <1>1, <1>7
  <2> HIDE DEF j
  <2>4. x[j] = w[h]
    BY <1>7, <2>3
  <2> QED BY <2>2, <2>3, <2>4
<1>12. Placed(old, new, i + 1, x)
  BY <1>8, <1>9, <1>10, <1>11 DEF Placed
<1> QED BY <1>5, <1>6, <1>12 DEF x, n, row

LEMMA PlacedKnown ==
  ASSUME NEW K, NEW old \in RowSeqs(K), NEW new \in RowSeqs(K), NEW w \in RowSeqs(K), NEW i \in Nat,
         i + 1 <= Len(new), Placed(old, new, i, w), new[i + 1].key \in KeysOf(old)
  PROVE  \E h \in i + 1..Len(w) :
            /\ w[h].key = new[i + 1].key
            /\ w[h] = old[IndexOf(old, new[i + 1].key)]
            /\ Placed(old, new, i + 1,
                      [InsertAt(RemoveAt(w, h), i + 1, w[h]) EXCEPT ![i + 1] = new[i + 1]])
<1> DEFINE row == new[i + 1]
           n == Len(w)
<1>1. /\ w \in Seq(Rows(K)) /\ new \in Seq(Rows(K)) /\ old \in Seq(Rows(K))
      /\ n \in Nat /\ Len(new) \in Nat /\ i <= n
  BY DEF RowSeqs, Placed
<1>2. row \in Rows(K) /\ i + 1 \in 1..Len(new) /\ i + 1 \in i + 1..Len(new)
  <2>1. i + 1 \in 1..Len(new) /\ i + 1 \in i + 1..Len(new)
    BY <1>1
  <2> QED BY <1>1, <2>1, ElementOfSeq
<1> HIDE DEF n
<1>3. PICK h \in i + 1..n : w[h].key = row.key
  BY <1>2 DEF Placed, n
<1>4. w[h] = old[IndexOf(old, row.key)]
  <2>1. PICK p \in 1..Len(old) : w[h] = old[p]
    BY DEF Placed, n
  <2>2. IndexOf(old, old[p].key) = p
    BY IndexIs
  <2> QED BY <1>3, <2>1, <2>2
<1> DEFINE m == InsertAt(RemoveAt(w, h), i + 1, w[h])
           x == [m EXCEPT ![i + 1] = row]
<1>5. h \in 1..n /\ i + 1 \in 1..n /\ i + 1 <= h
  BY <1>1
<1> HIDE DEF row
<1>6. m \in Seq(Rows(K)) /\ Len(m) = n /\ \A j \in 1..n : m[j] = Moved(w, h, i + 1, j)
  BY <1>1, <1>5, Reinserted DEF n
<1> HIDE DEF m
<1>7. Len(x) = n /\ x[i + 1] = row /\ \A j \in 1..n : j # i + 1 => x[j] = m[j]
  BY <1>2, <1>5, <1>6, ExceptSeq
<1> HIDE DEF x
<1>8. ASSUME NEW j \in 1..n
      PROVE  x[j] = IF j = i + 1 THEN row ELSE IF j < i + 1 \/ j > h THEN w[j] ELSE w[j - 1]
  <2>1. CASE j = i + 1
    BY <1>7, <2>1
  <2>2. CASE j # i + 1
    <3>1. x[j] = Moved(w, h, i + 1, j)
      BY <1>6, <1>7, <2>2
    <3> QED BY <1>5, <2>2, <3>1 DEF Moved
  <2> QED BY <2>1, <2>2
<1>9. \A q \in 1..n : w[q].key = row.key => q = h
  BY <1>3, <1>5 DEF RowSeqs, Unique, n
<1>10. ASSUME NEW j \in 1..i + 1 PROVE x[j] = new[j]
  <2>1. j \in 1..n
    BY <1>1, <1>5
  <2>2. CASE j = i + 1
    BY <1>8, <2>1, <2>2 DEF row
  <2>3. CASE j # i + 1
    <3>1. j \in 1..i /\ j < i + 1
      BY <2>3
    <3>2. x[j] = w[j]
      BY <1>8, <2>1, <3>1
    <3> QED BY <3>1, <3>2 DEF Placed
  <2> QED BY <2>2, <2>3
<1>11. ASSUME NEW j \in i + 1 + 1..Len(x)
       PROVE  /\ \E q \in i + 1 + 1..Len(new) : x[j].key = new[q].key
              /\ \E p \in 1..Len(old) : x[j] = old[p]
  <2>1. j \in 1..n /\ j # i + 1 /\ ~(j < i + 1)
    BY <1>1, <1>7
  <2>2. PICK y \in i + 1..n : x[j] = w[y] /\ y # h
    <3>1. CASE j > h
      <4>1. x[j] = w[j] /\ j \in i + 1..n /\ j # h
        BY <1>5, <1>8, <2>1, <3>1
      <4> QED BY <4>1
    <3>2. CASE j <= h
      <4> DEFINE y == j - 1
      <4>1. y \in i + 1..n /\ y # h /\ j # i + 1 /\ ~(j < i + 1) /\ ~(j > h)
        BY <1>1, <1>5, <2>1, <3>2
      <4>2. x[j] = w[y]
        BY <1>8, <2>1, <4>1
      <4> HIDE DEF y
      <4> QED BY <4>1, <4>2
    <3> QED BY <1>5, <2>1, <3>1, <3>2
  <2>3. PICK q \in i + 1..Len(new) : w[y].key = new[q].key
    BY DEF Placed, n
  <2>4. y \in 1..n
    BY <1>1
  <2>5. q # i + 1
    BY <1>9, <2>2, <2>3, <2>4 DEF row
  <2>6. q \in i + 1 + 1..Len(new)
    BY <1>1, <2>5
  <2>7. \E p \in 1..Len(old) : w[y] = old[p]
    BY DEF Placed, n
  <2> QED BY <2>2, <2>3, <2>6, <2>7
<1>12. ASSUME NEW q \in i + 1 + 1..Len(new), new[q].key \in KeysOf(old)
       PROVE  \E j \in i + 1 + 1..Len(x) : x[j].key = new[q].key
  <2>1. q \in i + 1..Len(new) /\ q \in 1..Len(new) /\ q # i + 1
    BY <1>1
  <2>2. PICK y \in i + 1..n : w[y].key = new[q].key
    BY <1>12, <2>1 DEF Placed, n
  <2>3. new[q].key # row.key
    BY <1>2, <2>1 DEF row, RowSeqs, Unique
  <2>4. y # h
    BY <1>3, <2>2, <2>3
  <2>5. CASE y > h
    <3>1. y \in i + 1 + 1..Len(x) /\ y \in 1..n /\ y # i + 1
      BY <1>1, <1>5, <1>7, <2>5
    <3>2. x[y] = w[y]
      BY <1>8, <2>5, <3>1
    <3> QED BY <2>2, <3>1, <3>2
  <2>6. CASE y < h
    <3> DEFINE j == y + 1
    <3>1. /\ j \in i + 1 + 1..Len(x) /\ j \in 1..n /\ j # i + 1 /\ ~(j < i + 1) /\ ~(j > h)
          /\ j - 1 = y
      BY <1>1, <1>5, <1>7, <2>6
    <3> HIDE DEF j
    <3>2. x[j] = w[y]
      BY <1>8, <3>1
    <3> QED BY <2>2, <3>1, <3>2
  <2> QED BY <1>1, <1>5, <2>4, <2>5, <2>6
<1>13. i + 1 <= Len(x)
  BY <1>5, <1>7
<1>14. Placed(old, new, i + 1, x)
  BY <1>10, <1>11, <1>12, <1>13 DEF Placed
<1> QED BY <1>3, <1>4, <1>14 DEF x, m, n, row

(* The step that the code makes for one row, from a working order that is    *)
(* that of the rows w.                                                       *)
Worked(K, old, new, i, work, w) ==
    /\ w \in RowSeqs(K) /\ Placed(old, new, i, w)
    /\ work.order = KeyList(w)
    /\ work.out \in Seq(AnyChange(K)) /\ Plays(old, work.out, w)

LEMMA JoinOne ==
  ASSUME NEW S, NEW q \in Seq(S), NEW c \in S
  PROVE  q \o <<c>> = Append(q, c) /\ q \o <<>> = q /\ Append(q, c) \in Seq(S)
<1>1. q \o <<>> = q
  BY ConcatEmptySeq
<1>2. q \o <<c>> = Append(q, c)
  <2> DEFINE a == q \o <<c>>
             b == Append(q, c)
  <2>1. <<c>> \in Seq(S) /\ Len(<<c>>) = 1 /\ <<c>>[1] = c
    OBVIOUS
  <2>2. a \in Seq(S) /\ Len(a) = Len(q) + 1 /\ (\A j \in 1..Len(q) : a[j] = q[j]) /\ a[Len(q) + 1] = c
    <3> DEFINE d == <<c>>
    <3>0. d \in Seq(S) /\ Len(d) = 1 /\ d[1] = c
      BY <2>1
    <3> HIDE DEF d
    <3>1. /\ q \o d \in Seq(S) /\ Len(q \o d) = Len(q) + Len(d)
          /\ \A j \in 1..Len(q) : (q \o d)[j] = q[j]
          /\ \A j \in 1..Len(d) : (q \o d)[Len(q) + j] = d[j]
      <4>1. d \in Seq(S)
        BY <3>0
      <4> QED BY <4>1, Joined
    <3>2. (q \o d)[Len(q) + 1] = c
      <4>1. 1 \in 1..Len(d)
        BY <3>0
      <4> QED BY <3>0, <3>1, <4>1
    <3>3. a = q \o d
      BY DEF d
    <3> HIDE DEF a
    <3> QED BY <3>0, <3>1, <3>2, <3>3
  <2>3. b \in Seq(S) /\ Len(b) = Len(q) + 1 /\ (\A j \in 1..Len(q) : b[j] = q[j]) /\ b[Len(q) + 1] = c
    BY AppendProperties
  <2> HIDE DEF a, b
  <2>4. ASSUME NEW j \in 1..Len(a) PROVE a[j] = b[j]
    <3>1. j \in 1..Len(q) \/ j = Len(q) + 1
      BY <2>2
    <3> QED BY <2>2, <2>3, <3>1
  <2>5. a = b
    BY <2>2, <2>3, <2>4, SeqEqual
  <2> QED BY <2>5 DEF a, b
<1>3. Append(q, c) \in Seq(S)
  BY AppendProperties
<1> QED BY <1>1, <1>2, <1>3

LEMMA PlaceWorks ==
  ASSUME NEW K, NEW old \in RowSeqs(K), NEW new \in RowSeqs(K), NEW w, NEW i \in Nat,
         i + 1 <= Len(new), NEW work, Worked(K, old, new, i, work, w)
  PROVE  \E x : Worked(K, old, new, i + 1, Place(old, new, work, i + 1), x)
<1> DEFINE row == new[i + 1]
           k == row.key
           out == work.out
           known == k \in KeysOf(old)
           next == Place(old, new, work, i + 1)
<1>1. /\ w \in Seq(Rows(K)) /\ new \in Seq(Rows(K)) /\ old \in Seq(Rows(K)) /\ w \in RowSeqs(K)
      /\ Len(new) \in Nat /\ Placed(old, new, i, w) /\ work.order = KeyList(w)
      /\ out \in Seq(AnyChange(K)) /\ Plays(old, out, w)
  BY DEF RowSeqs, Worked
<1>2. row \in Rows(K) /\ k \in K
  <2>1. i + 1 \in 1..Len(new)
    BY <1>1
  <2>2. row \in Rows(K)
    BY <1>1, <2>1, ElementOfSeq
  <2> QED BY <2>2 DEF Rows
<1>3. /\ UpdateRow(row) \in AnyChange(K) /\ InsertRow(i + 1, row) \in AnyChange(K)
      /\ MoveRow(k, i + 1) \in AnyChange(K)
  <2> HIDE DEF row
  <2>1. i + 1 \in Nat
    OBVIOUS
  <2> DEFINE y == i + 1
             z == k
  <2>2. y \in Nat /\ row \in Rows(K) /\ z \in K
    BY <1>2, <2>1
  <2> HIDE DEF y, z
  <2>3. UpdateRow(row) \in AnyChange(K)
    BY <2>2 DEF AnyChange
  <2>4. InsertRow(y, row) \in AnyChange(K)
    BY <2>2 DEF AnyChange
  <2>5. MoveRow(z, y) \in AnyChange(K)
    BY <2>2 DEF AnyChange
  <2> QED BY <2>3, <2>4, <2>5 DEF y, z
<1>4. CASE ~known
  <2> DEFINE x == InsertAt(w, i + 1, row)
  <2>1. /\ i + 1 \in 1..Len(w) + 1 /\ Placed(old, new, i + 1, x)
        /\ \A p \in 1..Len(w) : w[p].key # row.key
    BY <1>1, <1>4, PlacedNew
  <2>2. x \in RowSeqs(K) /\ Takes(w, InsertRow(i + 1, row), x)
    BY <1>1, <1>2, <2>1, RowsInsert, TakesInsert
  <2>3. KeyList(x) = InsertAt(KeyList(w), i + 1, k)
    BY <1>1, <1>2, <2>1, KeyListInsert
  <2> HIDE DEF x
  <2>4. next.order = KeyList(x)
    BY <1>1, <1>4, <2>3 DEF Place
  <2>5. next.out = Append(out, InsertRow(i + 1, row))
    <3>1. next.out = (out \o <<InsertRow(i + 1, row)>>) \o <<>>
      BY <1>4 DEF Place
    <3>2. out \o <<InsertRow(i + 1, row)>> = Append(out, InsertRow(i + 1, row))
          /\ Append(out, InsertRow(i + 1, row)) \in Seq(AnyChange(K))
      BY <1>1, <1>3, JoinOne
    <3>3. Append(out, InsertRow(i + 1, row)) \o <<>> = Append(out, InsertRow(i + 1, row))
      BY <1>3, <3>2, JoinOne
    <3> QED BY <3>1, <3>2, <3>3
  <2>6. next.out \in Seq(AnyChange(K)) /\ Plays(old, next.out, x)
    <3> HIDE DEF next
    <3>1. Append(out, InsertRow(i + 1, row)) \in Seq(AnyChange(K))
      BY <1>1, <1>3, JoinOne
    <3>2. Plays(old, Append(out, InsertRow(i + 1, row)), x)
      BY <1>1, <1>3, <2>2, PlaysAppend
    <3> QED BY <2>5, <3>1, <3>2
  <2> HIDE DEF next
  <2>7. Worked(K, old, new, i + 1, next, x)
    BY <2>1, <2>2, <2>4, <2>6 DEF Worked
  <2> QED BY <2>7 DEF next
<1>5. CASE known
  <2>1. PICK h \in i + 1..Len(w) :
            /\ w[h].key = k /\ w[h] = old[IndexOf(old, k)]
            /\ Placed(old, new, i + 1, [InsertAt(RemoveAt(w, h), i + 1, w[h]) EXCEPT ![i + 1] = row])
    BY <1>1, <1>5, PlacedKnown
  <2> DEFINE m == InsertAt(RemoveAt(w, h), i + 1, w[h])
             x == [m EXCEPT ![i + 1] = row]
             moves == work.order[i + 1] # k
             differs == old[IndexOf(old, k)] # row
  <2>2. Len(w) \in Nat /\ h \in 1..Len(w) /\ i + 1 \in 1..Len(w) /\ i + 1 <= h /\ w[h] \in Rows(K)
    <3>1. Len(w) \in Nat /\ h \in 1..Len(w) /\ i + 1 \in 1..Len(w) /\ i + 1 <= h
      BY <1>1
    <3> QED BY <1>1, <3>1, ElementOfSeq
  <2>3. m \in Seq(Rows(K)) /\ Len(m) = Len(w) /\ \A j \in 1..Len(w) : m[j] = Moved(w, h, i + 1, j)
    BY <1>1, <2>2, Reinserted
  <2>4. m[i + 1] = w[h]
    BY <2>2, <2>3 DEF Moved
  <2>5. m \in RowSeqs(K) /\ KeyList(m) = Reordered(KeyList(w), k, i + 1)
    <3> DEFINE r == RemoveAt(w, h)
    <3>1. /\ r \in RowSeqs(K) /\ Len(r) = Len(w) - 1 /\ r \in Seq(Rows(K))
          /\ \A j \in 1..Len(r) : r[j].key # w[h].key
      <4>1. r \in Seq(Rows(K)) /\ Len(r) = Len(w) - 1
        BY <1>1, <2>2, Removed
      <4>2. r \in RowSeqs(K) /\ \A j \in 1..Len(w) - 1 : r[j].key # w[h].key
        BY <1>1, <2>2, RowsRemove
      <4> QED BY <4>1, <4>2
    <3>2. KeyList(r) = RemoveAt(KeyList(w), h)
      BY <1>1, <2>2, KeyListRemove
    <3> HIDE DEF r
    <3>3. i + 1 \in 1..Len(r) + 1
      BY <2>2, <3>1
    <3>4. InsertAt(r, i + 1, w[h]) \in RowSeqs(K)
      BY <2>2, <3>1, <3>3, RowsInsert
    <3>5. KeyList(InsertAt(r, i + 1, w[h])) = InsertAt(KeyList(r), i + 1, w[h].key)
      BY <2>2, <3>1, <3>3, KeyListInsert
    <3>6. Position(KeyList(w), k) = h
      <4>1. IndexOf(w, w[h].key) = h
        BY <1>1, <2>2, IndexIs
      <4> QED BY <2>1, <4>1 DEF IndexOf
    <3> QED BY <2>1, <3>2, <3>4, <3>5, <3>6 DEF Reordered, r
  <2>6. x \in RowSeqs(K) /\ KeyList(x) = KeyList(m) /\ Takes(m, UpdateRow(row), x)
    <3> HIDE DEF m, x, row
    <3>1. i + 1 \in 1..Len(m) /\ row.key = m[i + 1].key
      BY <2>1, <2>2, <2>3, <2>4
    <3> QED BY <1>2, <2>3, <2>5, <3>1, RowsReplace, KeyListReplace, TakesUpdate DEF x
  <2>7. Takes(w, MoveRow(k, i + 1), m)
    <3>1. Takes(w, MoveRow(w[h].key, i + 1), m)
      BY <1>1, <2>2, TakesMove
    <3> QED BY <2>1, <3>1
  <2>8. ~moves => h = i + 1 /\ m = w
    <3> SUFFICES ASSUME ~moves PROVE h = i + 1 /\ m = w
      OBVIOUS
    <3>1. w[i + 1].key = k
      BY <1>1, <2>2, KeysAre
    <3>2. h = i + 1
      BY <1>1, <2>1, <2>2, <3>1 DEF RowSeqs, Unique
    <3>3. \A j \in 1..Len(w) : m[j] = w[j]
      BY <2>3, <3>2 DEF Moved
    <3> HIDE DEF m
    <3>4. m = w
      BY <1>1, <2>3, <3>3, SeqEqual
    <3> QED BY <3>2, <3>4
  <2>9. ~differs => x = m
    <3> HIDE DEF m
    <3> SUFFICES ASSUME ~differs PROVE x = m
      OBVIOUS
    <3>1. m[i + 1] = row
      BY <2>1, <2>4
    <3> QED BY <2>2, <2>3, <3>1
  <2> DEFINE mid == IF moves THEN Append(out, MoveRow(k, i + 1)) ELSE out
  <2>10. mid \in Seq(AnyChange(K)) /\ Plays(old, mid, m)
    <3>1. CASE moves
      BY <1>1, <1>3, <2>7, <3>1, PlaysAppend, AppendProperties
    <3>2. CASE ~moves
      BY <1>1, <2>8, <3>2
    <3> QED BY <3>1, <3>2
  <2>11. next.order = KeyList(x)
    <3>1. CASE moves
      <4>1. next.order = Reordered(work.order, k, i + 1)
        BY <1>5, <3>1 DEF Place
      <4> QED BY <1>1, <2>5, <2>6, <4>1
    <3>2. CASE ~moves
      <4>1. next.order = work.order
        BY SMTT(40), <1>5, <3>2 DEF Place
      <4> QED BY <1>1, <2>6, <2>8, <3>2, <4>1
    <3> QED BY <3>1, <3>2
  <2>12. next.out = IF differs THEN Append(mid, UpdateRow(row)) ELSE mid
    <3>1. next.out = (out \o (IF moves THEN <<MoveRow(k, i + 1)>> ELSE <<>>))
                     \o (IF differs THEN <<UpdateRow(row)>> ELSE <<>>)
      BY <1>5 DEF Place
    <3>2. out \o (IF moves THEN <<MoveRow(k, i + 1)>> ELSE <<>>) = mid
      <4>1. out \in Seq(AnyChange(K)) /\ MoveRow(k, i + 1) \in AnyChange(K)
        BY <1>1, <1>3
      <4> HIDE DEF moves
      <4>2. out \o <<MoveRow(k, i + 1)>> = Append(out, MoveRow(k, i + 1)) /\ out \o <<>> = out
        BY <4>1, JoinOne
      <4> QED BY <4>2
    <3> HIDE DEF mid, next
    <3>3. mid \o <<UpdateRow(row)>> = Append(mid, UpdateRow(row)) /\ mid \o <<>> = mid
      BY <1>3, <2>10, JoinOne
    <3> QED BY <3>1, <3>2, <3>3
  <2> HIDE DEF mid, next, m, x
  <2>13. next.out \in Seq(AnyChange(K)) /\ Plays(old, next.out, x)
    <3>1. CASE differs
      BY <1>3, <2>6, <2>10, <2>12, <3>1, PlaysAppend, AppendProperties
    <3>2. CASE ~differs
      BY <2>9, <2>10, <2>12, <3>2
    <3> QED BY <3>1, <3>2
  <2>14. Placed(old, new, i + 1, x)
    BY <2>1 DEF x, m
  <2>15. Worked(K, old, new, i + 1, next, x)
    BY <2>6, <2>11, <2>13, <2>14 DEF Worked
  <2> QED BY <2>15 DEF next
<1> QED BY <1>4, <1>5

(* The table of SequencePatch's pass over the new list.                      *)
PassRow(f, old, new, start, i) == IF i = 0 THEN start ELSE Place(old, new, f[i - 1], i)
PassTable(f, old, new, start, n) == f = [i \in 0..n |-> PassRow(f, old, new, start, i)]
LEMMA PassTableExists ==
  ASSUME NEW old, NEW new, NEW start, NEW n \in Nat
  PROVE  \E f : PassTable(f, old, new, start, n)
<1> DEFINE T == {k \in Nat : \E f : PassTable(f, old, new, start, k)}
<1>1. 0 \in T
  <2> DEFINE f == [i \in 0..0 |-> start]
  <2>1. f = [i \in 0..0 |-> PassRow(f, old, new, start, i)]
    BY DEF PassRow
  <2> HIDE DEF f
  <2> QED BY <2>1 DEF PassTable
<1>2. ASSUME NEW k \in T PROVE k + 1 \in T
  <2> PICK f : PassTable(f, old, new, start, k)
    BY <1>2
  <2> DEFINE g == [i \in 0..k + 1 |-> PassRow(f, old, new, start, i)]
  <2>1. \A i \in 0..k : f[i] = PassRow(f, old, new, start, i)
    BY DEF PassTable
  <2>2. ASSUME NEW i \in 0..k + 1 PROVE g[i] = PassRow(g, old, new, start, i)
    <3>1. i # 0 => i - 1 \in 0..k /\ g[i - 1] = f[i - 1]
      BY <2>1
    <3>2. g[i] = PassRow(f, old, new, start, i)
      OBVIOUS
    <3> HIDE DEF g
    <3> QED BY <3>1, <3>2 DEF PassRow
  <2>3. g = [i \in 0..k + 1 |-> PassRow(g, old, new, start, i)]
    <3>1. g = [i \in 0..k + 1 |-> g[i]]
      OBVIOUS
    <3> HIDE DEF g
    <3> QED BY <2>2, <3>1
  <2> HIDE DEF g
  <2>4. \E h : PassTable(h, old, new, start, k + 1)
    BY <2>3 DEF PassTable
  <2> QED BY <2>4
<1> HIDE DEF T
<1>3. n \in T
  BY <1>1, <1>2, NatSetInduction DEF T
<1> QED BY <1>3 DEF T

Start(old, new) == [order |-> Those(KeyList(old), KeysOf(new)), moves |-> 0,
                    out |-> Deletes(Gone(old, KeysOf(new)))]
LEMMA PassWorks ==
  ASSUME NEW K, NEW old \in RowSeqs(K), NEW new \in RowSeqs(K),
         NEW f, PassTable(f, old, new, Start(old, new), Len(new))
  PROVE  f[Len(new)].out \in Seq(AnyChange(K)) /\ Plays(old, f[Len(new)].out, new)
<1> DEFINE m == Len(new)
           N == KeysOf(new)
           Reached(i) == \E w : Worked(K, old, new, i, f[i], w)
           T == {i \in Nat : i <= m => Reached(i)}
<1>1. /\ new \in Seq(Rows(K)) /\ old \in Seq(Rows(K)) /\ m \in Nat
      /\ \A k : k \in N <=> \E q \in 1..m : new[q].key = k
      /\ \A k : k \in KeysOf(old) <=> \E p \in 1..Len(old) : old[p].key = k
  <2>1. new \in Seq(Rows(K)) /\ old \in Seq(Rows(K)) /\ m \in Nat
    BY DEF RowSeqs
  <2>2. \A k : k \in N <=> \E q \in 1..m : new[q].key = k
    BY <2>1, KeysAre
  <2>3. \A k : k \in KeysOf(old) <=> \E p \in 1..Len(old) : old[p].key = k
    BY <2>1, KeysAre
  <2> QED BY <2>1, <2>2, <2>3
<1> HIDE DEF m, N
<1>2. \A i \in 0..m : f[i] = PassRow(f, old, new, Start(old, new), i)
  BY DEF PassTable, m
<1>3. 0 \in T
  <2>1. Deletes(Gone(old, N)) \in Seq(AnyChange(K))
    BY PlaysDeletes
  <2>2. PICK w \in RowSeqs(K) :
          /\ Plays(old, Deletes(Gone(old, N)), w)
          /\ KeyList(w) = Those(KeyList(old), N)
          /\ \A j \in 1..Len(w) : w[j].key \in N /\ \E p \in 1..Len(old) : w[j] = old[p]
          /\ \A p \in 1..Len(old) : old[p].key \in N => \E j \in 1..Len(w) : w[j] = old[p]
    BY PlaysDeletes
  <2>3. f[0] = Start(old, new)
    BY <1>1, <1>2 DEF PassRow
  <2>4. Placed(old, new, 0, w)
    <3>1. Len(w) \in Nat
      BY DEF RowSeqs
    <3>2. \A j \in 1..Len(w) : \E q \in 1..m : w[j].key = new[q].key
      BY <1>1, <2>2
    <3>3. ASSUME NEW q \in 1..m, new[q].key \in KeysOf(old)
          PROVE  \E j \in 1..Len(w) : w[j].key = new[q].key
      <4>1. PICK p \in 1..Len(old) : old[p].key = new[q].key
        BY <1>1, <3>3
      <4>2. old[p].key \in N
        BY <1>1, <4>1
      <4>3. PICK j \in 1..Len(w) : w[j] = old[p]
        BY <2>2, <4>2
      <4> QED BY <4>1, <4>3
    <3>4. 0 <= Len(w) /\ 0 + 1 = 1 /\ \A j \in 1..0 : w[j] = new[j]
      BY <3>1
    <3> QED BY <2>2, <3>2, <3>3, <3>4 DEF Placed, m
  <2>5. Worked(K, old, new, 0, f[0], w)
    BY <2>1, <2>2, <2>3, <2>4 DEF Worked, Start, N
  <2>6. Reached(0)
    BY <2>5
  <2> QED BY <2>6
<1>4. ASSUME NEW i \in T PROVE i + 1 \in T
  <2>0. i \in Nat
    OBVIOUS
  <2> SUFFICES ASSUME i + 1 <= m PROVE Reached(i + 1)
    BY <2>0
  <2>1. PICK w : Worked(K, old, new, i, f[i], w)
    BY <1>1, <2>0
  <2>2. f[i + 1] = Place(old, new, f[i], i + 1)
    <3>1. i + 1 \in 0..m /\ i + 1 # 0 /\ i + 1 - 1 = i
      BY <1>1, <2>0
    <3> QED BY <1>2, <3>1 DEF PassRow
  <2>3. i + 1 <= Len(new)
    BY DEF m
  <2>4. \E x : Worked(K, old, new, i + 1, Place(old, new, f[i], i + 1), x)
    BY <2>0, <2>1, <2>3, PlaceWorks
  <2> QED BY <2>2, <2>4
<1>5. m \in T
  <2> HIDE DEF T
  <2>1. T \in SUBSET Nat
    BY DEF T
  <2> QED BY <1>1, <1>3, <1>4, <2>1, NatSetInduction
<1>6. PICK w : Worked(K, old, new, m, f[m], w)
  BY <1>1, <1>5
<1>7. w = new
  <2>1. w \in Seq(Rows(K)) /\ Len(w) \in Nat /\ Placed(old, new, m, w)
    BY <1>6 DEF Worked, RowSeqs
  <2>2. Len(w) = m
    <3>1. m <= Len(w)
      BY <2>1 DEF Placed
    <3>2. ASSUME m < Len(w) PROVE FALSE
      <4>1. m + 1 \in m + 1..Len(w)
        BY <1>1, <2>1, <3>2
      <4>2. PICK q \in m + 1..Len(new) : w[m + 1].key = new[q].key
        BY <2>1, <4>1 DEF Placed
      <4> QED BY <1>1, <4>2 DEF m
    <3> QED BY <1>1, <2>1, <3>1, <3>2
  <2>3. \A j \in 1..Len(w) : w[j] = new[j]
    BY <2>1, <2>2 DEF Placed
  <2> QED BY <1>1, <2>1, <2>2, <2>3, SeqEqual DEF m
<1> QED BY <1>6, <1>7 DEF Worked, m

(* Whatever the patch is, a store of the old rows takes it and holds the new *)
(* ones.                                                                     *)
LEMMA SequencePatchIs ==
  ASSUME NEW K, NEW old \in RowSeqs(K), NEW new \in RowSeqs(K)
  PROVE  \/ SequencePatch(old, new) = <<ResetRows(new)>>
         \/ SequencePatch(old, new) \in Seq(AnyChange(K)) /\ Plays(old, SequencePatch(old, new), new)
<1> DEFINE start == Start(old, new)
           f == CHOOSE f : PassTable(f, old, new, start, Len(new))
           differences == Cardinality((KeysOf(old) \ KeysOf(new)) \cup (KeysOf(new) \ KeysOf(old)))
<1>1. Len(new) \in Nat
  BY DEF RowSeqs
<1>2. PassTable(f, old, new, start, Len(new))
  <2> HIDE DEF start
  <2> QED BY <1>1, PassTableExists
<1>3. SequencePatch(old, new)
        = IF KeyList(old) = KeyList(new) THEN Updates(Stale(old, new))
          ELSE IF differences > PatchLimit \/ f[Len(new)].moves > PatchLimit
               THEN <<ResetRows(new)>> ELSE f[Len(new)].out
  BY DEF SequencePatch, PassTable, PassRow, Start, Updates, Deletes, Stale, Gone
<1> HIDE DEF f, differences
<1>4. CASE KeyList(old) = KeyList(new)
  BY <1>3, <1>4, PlaysUpdates
<1>5. CASE KeyList(old) # KeyList(new)
  <2>1. f[Len(new)].out \in Seq(AnyChange(K)) /\ Plays(old, f[Len(new)].out, new)
    BY <1>2, PassWorks
  <2> QED BY <1>3, <1>5, <2>1
<1> QED BY <1>4, <1>5

LEMMA PreparedPatch ==
  ASSUME NEW K, NEW store, NEW packet, store.rows \in RowSeqs(K), NEW new \in RowSeqs(K),
         Continues(store, packet), packet.changes = SequencePatch(store.rows, new)
  PROVE  Prepared(store, packet).ok = TRUE /\ Prepared(store, packet).rows = new
<1> DEFINE old == store.rows
<1>1. CASE SequencePatch(old, new) = <<ResetRows(new)>>
  <2>1. packet.changes = <<ResetRows(new)>>
    BY <1>1
  <2> QED BY <2>1, PreparedReset
<1>2. CASE SequencePatch(old, new) \in Seq(AnyChange(K)) /\ Plays(old, SequencePatch(old, new), new)
  <2>1. Len(packet.changes) \in Nat
    BY <1>2
  <2>2. Plays(store.rows, packet.changes, new)
    BY <1>2
  <2> QED BY <2>1, <2>2, PreparedPlays
<1> QED BY <1>1, <1>2, SequencePatchIs

LEMMA RowListsAre ==
  ASSUME NEW K, IsFiniteSet(K), NEW rows \in RowLists(K)
  PROVE  rows \in RowSeqs(K)
<1>1. Cardinality(K) \in Nat
  BY FS_CardinalityType
<1>2. PICK n \in 0..Cardinality(K) :
        rows \in {[i \in 1..n |-> Row(o[i], r[i])] :
                     o \in {o \in [1..n -> K] : IsInjective(o)}, r \in [1..n -> 1..2]}
  BY SMTT(40) DEF RowLists
<1>3. PICK o \in [1..n -> K], r \in [1..n -> 1..2] :
        IsInjective(o) /\ rows = [i \in 1..n |-> Row(o[i], r[i])]
  BY <1>2
<1>4. n \in Nat
  BY <1>1
<1>5. \A i \in 1..n : rows[i] = Row(o[i], r[i]) /\ Row(o[i], r[i]) \in Rows(K) /\ rows[i].key = o[i]
  BY <1>3 DEF Row, Rows
<1>6. rows \in Seq(Rows(K)) /\ Len(rows) = n
  BY <1>3, <1>4, <1>5
<1>7. \A i, j \in 1..n : o[i] = o[j] => i = j
  BY <1>3 DEF IsInjective
<1>8. Unique(rows)
  BY <1>5, <1>6, <1>7 DEF Unique
<1> QED BY <1>6, <1>8 DEF RowSeqs

(* _metadata_patch against ListStore::prepare, for rows over any finite set  *)
(* of keys and any limit on the differences: the native store takes the      *)
(* patch between any two lists and then holds the second.                    *)
THEOREM PatchesAreExact == Spec => []PatchIsExact
<1>1. ASSUME NEW old \in RowLists(PatchKeys), NEW new \in RowLists(PatchKeys)
      PROVE  LET work == Prepared([revision |-> 1, rows |-> old],
                                  [base |-> 1, revision |-> 2, changes |-> SequencePatch(old, new)])
             IN  work.ok /\ work.rows = new
  <2> DEFINE store == [revision |-> 1, rows |-> old]
             packet == [base |-> 1, revision |-> 2, changes |-> SequencePatch(old, new)]
  <2>1. old \in RowSeqs(PatchKeys) /\ new \in RowSeqs(PatchKeys)
    BY RowListsAre, ListsAssumption
  <2>2. store.rows = old /\ packet.changes = SequencePatch(old, new) /\ Continues(store, packet)
    BY DEF Continues
  <2> HIDE DEF store, packet
  <2>3. Prepared(store, packet).ok = TRUE /\ Prepared(store, packet).rows = new
    <3>1. store.rows \in RowSeqs(PatchKeys) /\ packet.changes = SequencePatch(store.rows, new)
      BY <2>1, <2>2
    <3> QED BY <2>1, <2>2, <3>1, PreparedPatch
  <2> QED BY <2>3 DEF store, packet
<1>2. PatchIsExact
  BY <1>1 DEF PatchIsExact
<1> QED BY <1>2, PTL

---------------------------------------------------------------------------
(* The rows of a ListData: its keys, each with the revision of its item.     *)
Distinct(ks) == \A i, j \in 1..Len(ks) : ks[i] = ks[j] => i = j
Entries == [Keys -> [rev : Nat, value : Nat]]
RowsOf(ks, en) == [i \in DOMAIN ks |-> Row(ks[i], en[ks[i]].rev)]

LEMMA RowsOfIs ==
  ASSUME NEW ks \in Seq(Keys), Distinct(ks), NEW en \in Entries
  PROVE  /\ RowsOf(ks, en) \in RowSeqs(Keys) /\ RowsOf(ks, en) \in Seq(Rows(Keys))
         /\ KeyList(RowsOf(ks, en)) = ks
         /\ Len(RowsOf(ks, en)) = Len(ks)
         /\ \A i \in 1..Len(ks) : /\ RowsOf(ks, en)[i].key = ks[i]
                                  /\ RowsOf(ks, en)[i].rev = en[ks[i]].rev
<1> DEFINE r == RowsOf(ks, en)
<1>1. DOMAIN ks = 1..Len(ks) /\ Len(ks) \in Nat /\ \A i \in 1..Len(ks) : ks[i] \in Keys
  BY ElementOfSeq
<1>2. r = [i \in 1..Len(ks) |-> Row(ks[i], en[ks[i]].rev)]
  BY <1>1 DEF RowsOf
<1> HIDE DEF r
<1>3. \A i \in 1..Len(ks) : /\ r[i] \in Rows(Keys) /\ r[i].key = ks[i] /\ r[i].rev = en[ks[i]].rev
  BY <1>1, <1>2 DEF Row, Rows, Entries
<1>4. r \in Seq(Rows(Keys)) /\ Len(r) = Len(ks)
  BY <1>1, <1>2, <1>3
<1>5. Unique(r)
  BY <1>3, <1>4 DEF Unique, Distinct
<1>6. KeyList(r) = ks
  <2>1. KeyList(r) \in Seq(Keys) /\ Len(KeyList(r)) = Len(r) /\ \A i \in 1..Len(r) : KeyList(r)[i] = r[i].key
    BY <1>4, KeysAre
  <2> DEFINE q == KeyList(r)
  <2>2. q \in Seq(Keys) /\ Len(q) = Len(ks) /\ \A i \in 1..Len(q) : q[i] = ks[i]
    BY <1>3, <1>4, <2>1
  <2> HIDE DEF q
  <2>3. q = ks
    BY <2>2, SeqEqual
  <2> QED BY <2>3 DEF q
<1> QED BY <1>3, <1>4, <1>5, <1>6 DEF RowSeqs, r

(* Rows with these keys and revisions are those of the ListData.             *)
LEMMA RowsOfOnly ==
  ASSUME NEW rows \in RowSeqs(Keys), NEW en \in Entries,
         \A i \in 1..Len(rows) : rows[i].rev = en[rows[i].key].rev
  PROVE  /\ KeyList(rows) \in Seq(Keys) /\ Distinct(KeyList(rows))
         /\ rows = RowsOf(KeyList(rows), en)
<1> DEFINE ks == KeyList(rows)
<1>1. rows \in Seq(Rows(Keys)) /\ Unique(rows) /\ Len(rows) \in Nat
  BY DEF RowSeqs
<1>2. ks \in Seq(Keys) /\ Len(ks) = Len(rows) /\ \A i \in 1..Len(rows) : ks[i] = rows[i].key
  BY <1>1, KeysAre
<1> HIDE DEF ks
<1>3. Distinct(ks)
  BY <1>1, <1>2 DEF Distinct, Unique
<1>4. \A i \in 1..Len(rows) : rows[i] \in Rows(Keys)
  BY <1>1, ElementOfSeq
<1>5. /\ RowsOf(ks, en) \in Seq(Rows(Keys)) /\ Len(RowsOf(ks, en)) = Len(rows)
      /\ \A i \in 1..Len(rows) : RowsOf(ks, en)[i].key = ks[i] /\ RowsOf(ks, en)[i].rev = en[ks[i]].rev
  BY <1>2, <1>3, RowsOfIs
<1> DEFINE r == RowsOf(ks, en)
<1> HIDE DEF r
<1>6. \A i \in 1..Len(rows) : r[i] \in Rows(Keys)
  BY <1>5, ElementOfSeq DEF r
<1>7. ASSUME NEW i \in 1..Len(rows) PROVE rows[i] = r[i]
  <2>1. rows[i].key = r[i].key /\ rows[i].rev = r[i].rev
    BY <1>2, <1>5 DEF r
  <2>2. rows[i] \in Rows(Keys) /\ r[i] \in Rows(Keys)
    BY <1>4, <1>6
  <2> QED BY <2>1, <2>2 DEF Rows
<1>8. rows = r
  BY <1>1, <1>5, <1>7, SeqEqual DEF r
<1> QED BY <1>2, <1>3, <1>8 DEF r, ks

LEMMA SourceInsert ==
  ASSUME NEW ks \in Seq(Keys), Distinct(ks), NEW en \in Entries, NEW k \in Keys, k \notin ToSet(ks),
         NEW i \in 1..Len(ks) + 1, NEW e \in [rev : Nat, value : Nat]
  PROVE  LET rows == RowsOf(ks, en)
             more == InsertAt(ks, i, k)
         IN  /\ more \in Seq(Keys) /\ Distinct(more)
             /\ RowsOf(more, [en EXCEPT ![k] = e]) = InsertAt(rows, i, Row(k, e.rev))
             /\ i \in 1..Len(rows) + 1 /\ Row(k, e.rev) \in Rows(Keys)
             /\ \A p \in 1..Len(rows) : rows[p].key # Row(k, e.rev).key
<1> DEFINE rows == RowsOf(ks, en)
           row == Row(k, e.rev)
           en2 == [en EXCEPT ![k] = e]
           x == InsertAt(rows, i, row)
<1>1. /\ rows \in RowSeqs(Keys) /\ rows \in Seq(Rows(Keys)) /\ KeyList(rows) = ks /\ Len(rows) = Len(ks)
      /\ \A p \in 1..Len(ks) : rows[p].key = ks[p] /\ rows[p].rev = en[ks[p]].rev
  BY RowsOfIs
<1>2. row \in Rows(Keys) /\ row.key = k /\ row.rev = e.rev
  BY DEF Row, Rows
<1>3. \A p \in 1..Len(ks) : ks[p] # k /\ ks[p] \in Keys
  BY ElementOfSeq DEF ToSet
<1>4. en2 \in Entries /\ en2[k] = e /\ \A q \in Keys : q # k => en2[q] = en[q]
  BY DEF Entries
<1> HIDE DEF rows, row, en2, x
<1>5. i \in 1..Len(rows) + 1 /\ \A p \in 1..Len(rows) : rows[p].key # row.key
  BY <1>1, <1>2, <1>3
<1>6. x \in RowSeqs(Keys)
  BY <1>1, <1>2, <1>5, RowsInsert DEF x
<1>7. KeyList(x) = InsertAt(ks, i, k)
  <2>1. KeyList(x) = InsertAt(KeyList(rows), i, row.key)
    BY <1>1, <1>2, <1>5, KeyListInsert DEF x
  <2> QED BY <1>1, <1>2, <2>1
<1>8. Len(rows) \in Nat /\ Len(x) = Len(rows) + 1
      /\ \A j \in 1..Len(rows) + 1 : x[j] = IF j < i THEN rows[j] ELSE IF j = i THEN row ELSE rows[j - 1]
  BY <1>1, <1>2, <1>5, Inserted DEF x
<1>9. ASSUME NEW j \in 1..Len(x) PROVE x[j].rev = en2[x[j].key].rev
  <2>1. CASE x[j] = row
    BY <1>2, <1>4, <2>1
  <2>2. ASSUME NEW p \in 1..Len(rows), x[j] = rows[p] PROVE x[j].rev = en2[x[j].key].rev
    <3>1. rows[p].key = ks[p] /\ rows[p].rev = en[ks[p]].rev /\ ks[p] # k /\ ks[p] \in Keys
      BY <1>1, <1>3
    <3> QED BY <1>4, <2>2, <3>1
  <2>3. x[j] = row \/ \E p \in 1..Len(rows) : x[j] = rows[p]
    <3>1. CASE j < i
      <4>1. j \in 1..Len(rows) /\ x[j] = rows[j]
        BY <1>5, <1>8, <3>1
      <4> QED BY <4>1
    <3>2. CASE j = i
      BY <1>8, <3>2
    <3>3. CASE j > i
      <4> DEFINE p == j - 1
      <4>1. p \in 1..Len(rows) /\ x[j] = rows[p]
        BY <1>5, <1>8, <3>3
      <4> HIDE DEF p
      <4> QED BY <4>1
    <3> QED BY <1>8, <3>1, <3>2, <3>3
  <2> QED BY <2>1, <2>2, <2>3
<1>10. KeyList(x) \in Seq(Keys) /\ Distinct(KeyList(x)) /\ x = RowsOf(KeyList(x), en2)
  BY <1>4, <1>6, <1>9, RowsOfOnly
<1> QED BY <1>2, <1>5, <1>7, <1>10 DEF rows, row, en2, x

LEMMA SourceUpdate ==
  ASSUME NEW ks \in Seq(Keys), Distinct(ks), NEW en \in Entries, NEW p \in 1..Len(ks), NEW k, k = ks[p],
         NEW e \in [rev : Nat, value : Nat]
  PROVE  LET rows == RowsOf(ks, en)
         IN  /\ RowsOf(ks, [en EXCEPT ![k] = e]) = [rows EXCEPT ![p] = Row(k, e.rev)]
             /\ p \in 1..Len(rows) /\ Row(k, e.rev) \in Rows(Keys) /\ Row(k, e.rev).key = rows[p].key
<1> DEFINE rows == RowsOf(ks, en)
           row == Row(k, e.rev)
           en2 == [en EXCEPT ![k] = e]
           x == [rows EXCEPT ![p] = row]
<1>1. /\ rows \in RowSeqs(Keys) /\ rows \in Seq(Rows(Keys)) /\ KeyList(rows) = ks /\ Len(rows) = Len(ks)
      /\ \A q \in 1..Len(ks) : rows[q].key = ks[q] /\ rows[q].rev = en[ks[q]].rev
  BY RowsOfIs
<1>2. k \in Keys /\ \A q \in 1..Len(ks) : ks[q] \in Keys
  BY ElementOfSeq
<1>3. row \in Rows(Keys) /\ row.key = k /\ row.rev = e.rev
  BY <1>2 DEF Row, Rows
<1>4. en2 \in Entries /\ en2[k] = e /\ \A q \in Keys : q # k => en2[q] = en[q]
  BY <1>2 DEF Entries
<1> HIDE DEF rows, row, en2, x
<1>5. p \in 1..Len(rows) /\ row.key = rows[p].key
  BY <1>1, <1>3
<1>6. x \in RowSeqs(Keys) /\ KeyList(x) = ks
  <2>1. x \in RowSeqs(Keys)
    BY <1>1, <1>3, <1>5, RowsReplace DEF x
  <2>2. KeyList(x) = KeyList(rows)
    BY <1>1, <1>3, <1>5, KeyListReplace DEF x
  <2> QED BY <1>1, <2>1, <2>2
<1>7. Len(x) = Len(rows) /\ x[p] = row /\ \A j \in 1..Len(rows) : j # p => x[j] = rows[j]
  BY <1>1, <1>3, <1>5, ExceptSeq DEF x
<1>8. ASSUME NEW j \in 1..Len(x) PROVE x[j].rev = en2[x[j].key].rev
  <2>1. CASE j = p
    BY <1>3, <1>4, <1>7, <2>1
  <2>2. CASE j # p
    <3>1. x[j] = rows[j] /\ rows[j].key = ks[j] /\ rows[j].rev = en[ks[j]].rev
      BY <1>1, <1>7, <2>2
    <3>2. ks[j] # k /\ ks[j] \in Keys
      BY <1>1, <1>2, <1>7, <2>2 DEF Distinct
    <3> QED BY <1>4, <3>1, <3>2
  <2> QED BY <2>1, <2>2
<1>9. x = RowsOf(KeyList(x), en2)
  BY <1>4, <1>6, <1>8, RowsOfOnly
<1> QED BY <1>3, <1>5, <1>6, <1>9 DEF rows, row, en2, x

LEMMA SourceRemove ==
  ASSUME NEW ks \in Seq(Keys), Distinct(ks), NEW en \in Entries, NEW p \in 1..Len(ks), NEW k, k = ks[p],
         NEW e \in [rev : Nat, value : Nat]
  PROVE  LET rows == RowsOf(ks, en)
             less == RemoveAt(ks, p)
         IN  /\ less \in Seq(Keys) /\ Distinct(less) /\ k \notin ToSet(less)
             /\ RowsOf(less, [en EXCEPT ![k] = e]) = RemoveAt(rows, p)
             /\ p \in 1..Len(rows) /\ k = rows[p].key
<1> DEFINE rows == RowsOf(ks, en)
           en2 == [en EXCEPT ![k] = e]
           x == RemoveAt(rows, p)
<1>1. /\ rows \in RowSeqs(Keys) /\ rows \in Seq(Rows(Keys)) /\ KeyList(rows) = ks /\ Len(rows) = Len(ks)
      /\ \A q \in 1..Len(ks) : rows[q].key = ks[q] /\ rows[q].rev = en[ks[q]].rev
  BY RowsOfIs
<1>2. k \in Keys /\ \A q \in 1..Len(ks) : ks[q] \in Keys
  BY ElementOfSeq
<1>3. en2 \in Entries /\ \A q \in Keys : q # k => en2[q] = en[q]
  BY <1>2 DEF Entries
<1> HIDE DEF rows, en2, x
<1>4. p \in 1..Len(rows) /\ k = rows[p].key
  BY <1>1
<1>5. x \in RowSeqs(Keys) /\ \A j \in 1..Len(rows) - 1 : x[j].key # k
  <2>1. /\ RemoveAt(rows, p) \in RowSeqs(Keys)
        /\ \A j \in 1..Len(rows) - 1 : RemoveAt(rows, p)[j].key # rows[p].key
    BY ONLY <1>1, <1>4, RowsRemove
  <2> QED BY ONLY <1>4, <2>1 DEF x
<1>6. KeyList(x) = RemoveAt(ks, p)
  <2>1. KeyList(x) = RemoveAt(KeyList(rows), p)
    BY <1>1, <1>4, KeyListRemove DEF x
  <2> QED BY <1>1, <2>1
<1>7. Len(rows) \in Nat /\ Len(x) = Len(rows) - 1
      /\ \A j \in 1..Len(rows) - 1 : x[j] = IF j < p THEN rows[j] ELSE rows[j + 1]
  BY <1>1, <1>4, Removed DEF x
<1>8. ASSUME NEW j \in 1..Len(x) PROVE x[j].rev = en2[x[j].key].rev
  <2>1. PICK q \in 1..Len(rows) : x[j] = rows[q]
    <3>1. CASE j < p
      <4>1. j \in 1..Len(rows) /\ x[j] = rows[j]
        BY <1>4, <1>7, <3>1
      <4> QED BY <4>1
    <3>2. CASE j >= p
      <4> DEFINE q == j + 1
      <4>1. q \in 1..Len(rows) /\ x[j] = rows[q]
        BY <1>4, <1>7, <3>2
      <4> HIDE DEF q
      <4> QED BY <4>1
    <3> QED BY <1>4, <1>7, <3>1, <3>2
  <2>2. rows[q].key = ks[q] /\ rows[q].rev = en[ks[q]].rev /\ ks[q] \in Keys
    BY <1>1, <1>2
  <2>3. x[j].key # k
    BY <1>5, <1>7
  <2> QED BY <1>3, <2>1, <2>2, <2>3
<1>9. KeyList(x) \in Seq(Keys) /\ Distinct(KeyList(x)) /\ x = RowsOf(KeyList(x), en2)
  BY <1>3, <1>5, <1>8, RowsOfOnly
<1>10. k \notin ToSet(KeyList(x))
  <2>1. x \in Seq(Rows(Keys))
    BY <1>5 DEF RowSeqs
  <2>2. k \in KeysOf(x) => \E j \in 1..Len(x) : x[j].key = k
    BY <2>1, KeysAre
  <2>3. k \notin KeysOf(x)
    BY <1>5, <1>7, <2>2
  <2> QED BY <2>3 DEF KeysOf
<1> QED BY <1>4, <1>6, <1>9, <1>10 DEF rows, en2, x

LEMMA SourceMove ==
  ASSUME NEW ks \in Seq(Keys), Distinct(ks), NEW en \in Entries, NEW p \in 1..Len(ks), NEW k, k = ks[p],
         NEW i \in 1..Len(ks)
  PROVE  LET rows == RowsOf(ks, en)
             other == Reordered(ks, k, i)
         IN  /\ other \in Seq(Keys) /\ Distinct(other) /\ Len(other) = Len(ks)
             /\ RowsOf(other, en) = InsertAt(RemoveAt(rows, p), i, rows[p])
             /\ p \in 1..Len(rows) /\ i \in 1..Len(rows) /\ k = rows[p].key
             /\ \A j \in 1..Len(ks) : ks[j] \in ToSet(other)
             /\ \A j \in 1..Len(ks) : other[j] \in ToSet(ks)
<1> DEFINE rows == RowsOf(ks, en)
           r == RemoveAt(rows, p)
           x == InsertAt(r, i, rows[p])
<1>1. /\ rows \in RowSeqs(Keys) /\ rows \in Seq(Rows(Keys)) /\ KeyList(rows) = ks /\ Len(rows) = Len(ks)
      /\ \A q \in 1..Len(ks) : rows[q].key = ks[q] /\ rows[q].rev = en[ks[q]].rev
  BY RowsOfIs
<1> HIDE DEF rows
<1>2. p \in 1..Len(rows) /\ i \in 1..Len(rows) /\ k = rows[p].key /\ rows[p] \in Rows(Keys)
  <2>1. p \in 1..Len(rows)
    BY <1>1
  <2> QED BY <1>1, <2>1, ElementOfSeq
<1>3. r \in RowSeqs(Keys) /\ \A j \in 1..Len(rows) - 1 : r[j].key # k
  BY <1>1, <1>2, RowsRemove
<1>4. r \in Seq(Rows(Keys)) /\ Len(rows) \in Nat /\ Len(r) = Len(rows) - 1
  BY <1>1, <1>2, Removed
<1>5. KeyList(r) = RemoveAt(ks, p)
  <2>1. KeyList(r) = RemoveAt(KeyList(rows), p)
    BY <1>1, <1>2, KeyListRemove
  <2> QED BY <1>1, <2>1
<1>6. /\ x \in Seq(Rows(Keys)) /\ Len(x) = Len(rows)
      /\ \A j \in 1..Len(rows) : x[j] = Moved(rows, p, i, j)
  BY <1>1, <1>2, Reinserted
<1> HIDE DEF r
<1>7. i \in 1..Len(r) + 1 /\ \A j \in 1..Len(r) : r[j].key # rows[p].key
  BY <1>2, <1>3, <1>4
<1>8. x \in RowSeqs(Keys)
  BY <1>2, <1>3, <1>7, RowsInsert
<1>9. KeyList(x) = Reordered(ks, k, i)
  <2>1. KeyList(x) = InsertAt(KeyList(r), i, rows[p].key)
    BY <1>2, <1>4, <1>7, KeyListInsert
  <2>2. Position(ks, k) = p
    <3>1. IndexOf(rows, rows[p].key) = p
      BY <1>1, <1>2, IndexIs
    <3> QED BY <1>1, <1>2, <3>1 DEF IndexOf
  <2> QED BY <1>2, <1>5, <2>1, <2>2 DEF Reordered
<1> HIDE DEF x
<1>10. ASSUME NEW j \in 1..Len(rows)
       PROVE  /\ \E q \in 1..Len(rows) : x[j] = rows[q]
              /\ \E q \in 1..Len(rows) : x[q] = rows[j]
  <2>1. x[j] \in {rows[j], rows[p], rows[j + 1], rows[j - 1]}
    BY <1>6 DEF Moved
  <2>2. \E q \in 1..Len(rows) : x[j] = rows[q]
    <3>1. x[j] = Moved(rows, p, i, j)
      BY <1>6
    <3>2. CASE x[j] = rows[j] \/ x[j] = rows[p]
      BY <1>2, <3>2
    <3>3. CASE x[j] = rows[j + 1] /\ j + 1 \in 1..Len(rows)
      BY <3>3
    <3>4. CASE x[j] = rows[j - 1] /\ j - 1 \in 1..Len(rows)
      BY <3>4
    <3>5. \/ x[j] = rows[j] \/ x[j] = rows[p]
          \/ x[j] = rows[j + 1] /\ j + 1 \in 1..Len(rows)
          \/ x[j] = rows[j - 1] /\ j - 1 \in 1..Len(rows)
      BY <1>2, <1>4, <3>1 DEF Moved
    <3> QED BY <3>2, <3>3, <3>4, <3>5
  <2>3. \E q \in 1..Len(rows) : x[q] = rows[j]
    <3> DEFINE q == IF j = p THEN i ELSE IF p < i
                    THEN IF j < p \/ j > i THEN j ELSE j - 1
                    ELSE IF j < i \/ j > p THEN j ELSE j + 1
    <3>1. q \in 1..Len(rows)
      BY <1>2, <1>4
    <3>2. Moved(rows, p, i, q) = rows[j]
      BY <1>2, <1>4 DEF Moved
    <3> HIDE DEF q
    <3>3. x[q] = rows[j]
      BY <1>6, <3>1, <3>2
    <3> QED BY <3>1, <3>3
  <2> QED BY <2>2, <2>3
<1>11. ASSUME NEW j \in 1..Len(x) PROVE x[j].rev = en[x[j].key].rev
  <2>1. PICK q \in 1..Len(rows) : x[j] = rows[q]
    BY <1>6, <1>10
  <2>2. rows[q].key = ks[q] /\ rows[q].rev = en[ks[q]].rev
    BY <1>1
  <2> QED BY <2>1, <2>2
<1>12. KeyList(x) \in Seq(Keys) /\ Distinct(KeyList(x)) /\ x = RowsOf(KeyList(x), en)
  BY <1>8, <1>11, RowsOfOnly
<1>13. Len(KeyList(x)) = Len(x) /\ \A j \in 1..Len(x) : KeyList(x)[j] = x[j].key
  BY <1>6, KeysAre
<1>14. \A j \in 1..Len(ks) : ks[j] \in ToSet(KeyList(x))
  <2> SUFFICES ASSUME NEW j \in 1..Len(ks) PROVE ks[j] \in ToSet(KeyList(x))
    OBVIOUS
  <2>1. PICK q \in 1..Len(rows) : x[q] = rows[j]
    BY <1>1, <1>10
  <2>2. KeyList(x)[q] = ks[j] /\ q \in DOMAIN KeyList(x)
    BY <1>1, <1>6, <1>12, <1>13, <2>1
  <2> QED BY <2>2 DEF ToSet
<1>15. \A j \in 1..Len(ks) : KeyList(x)[j] \in ToSet(ks)
  <2> SUFFICES ASSUME NEW j \in 1..Len(ks) PROVE KeyList(x)[j] \in ToSet(ks)
    OBVIOUS
  <2>1. PICK q \in 1..Len(rows) : x[j] = rows[q]
    BY <1>1, <1>10
  <2>2. KeyList(x)[j] = ks[q] /\ q \in DOMAIN ks
    BY <1>1, <1>6, <1>13, <2>1
  <2> QED BY <2>2 DEF ToSet
<1>16. Len(KeyList(x)) = Len(ks)
  BY <1>1, <1>6, <1>13
<1> QED BY <1>2, <1>9, <1>12, <1>14, <1>15, <1>16 DEF rows, r, x

---------------------------------------------------------------------------
(* The journal: its entries carry consecutive revisions, the last of them    *)
(* the source's, so the change that made a revision is found by position.    *)
DataChange == AnyChange(Keys) \cup {ResetRows(<<>>)}
JournalIs(h, rev) ==
    /\ h \in Seq([at : Nat, change : DataChange]) /\ rev \in Nat
    /\ \A i \in 1..Len(h) : h[i].at = rev - Len(h) + i
ChangeTo(h, rev, r) == h[r - (rev - Len(h))].change
Recorded(h, rev, c) ==
    LET longer == Append(h, [at |-> rev + 1, change |-> c])
    IN  IF Len(longer) > HistoryLimit THEN Tail(longer) ELSE longer

LEMMA RecordedIs ==
  ASSUME NEW h, NEW rev, JournalIs(h, rev), NEW c \in DataChange
  PROVE  LET g == Recorded(h, rev, c)
         IN  /\ JournalIs(g, rev + 1)
             /\ rev + 1 - Len(g) \in Int
             /\ rev - Len(h) <= rev + 1 - Len(g) /\ rev + 1 - Len(g) <= rev
             /\ ChangeTo(g, rev + 1, rev + 1) = c
             /\ \A r \in rev + 1 - Len(g) + 1..rev : ChangeTo(g, rev + 1, r) = ChangeTo(h, rev, r)
<1> DEFINE S == [at : Nat, change : DataChange]
           e == [at |-> rev + 1, change |-> c]
           longer == Append(h, e)
           n == Len(h)
<1>1. h \in Seq(S) /\ rev \in Nat /\ n \in Nat /\ \A i \in 1..n : h[i].at = rev - n + i
  BY DEF JournalIs
<1>2. e \in S /\ e.at = rev + 1 /\ e.change = c
  BY <1>1
<1> HIDE DEF S, e
<1>3. /\ longer \in Seq(S) /\ Len(longer) = n + 1 /\ longer[n + 1] = e
      /\ \A i \in 1..n : longer[i] = h[i]
  BY <1>1, <1>2, AppendProperties
<1> HIDE DEF n, longer
<1>4. \A i \in 1..n + 1 : longer[i].at = rev - n + i
  <2> SUFFICES ASSUME NEW i \in 1..n + 1 PROVE longer[i].at = rev - n + i
    OBVIOUS
  <2>1. CASE i = n + 1
    BY <1>1, <1>2, <1>3, <2>1
  <2>2. CASE i \in 1..n
    <3>1. longer[i] = h[i] /\ h[i].at = rev - n + i
      BY <1>1, <1>3, <2>2
    <3> QED BY <3>1
  <2> QED BY <1>1, <2>1, <2>2
<1>5. CASE Len(longer) > HistoryLimit
  <2> DEFINE g == Tail(longer)
  <2>1. /\ g \in Seq(S) /\ Len(g) = n /\ \A i \in 1..n : g[i] = longer[i + 1]
    <3>1. longer # <<>>
      BY <1>1, <1>3
    <3> QED BY <1>1, <1>3, <3>1, HeadTailProperties
  <2>2. n >= 1
    BY <1>1, <1>3, <1>5, ListsAssumption
  <2> HIDE DEF g
  <2>3. ASSUME NEW i \in 1..n PROVE g[i].at = rev + 1 - n + i
    <3>1. i + 1 \in 1..n + 1 /\ rev - n + (i + 1) = rev + 1 - n + i
      BY <1>1
    <3>2. g[i] = longer[i + 1] /\ longer[i + 1].at = rev - n + (i + 1)
      BY <1>4, <2>1, <3>1
    <3> QED BY <3>1, <3>2
  <2>4. JournalIs(g, rev + 1)
    BY <1>1, <2>1, <2>3 DEF JournalIs, S
  <2>5. ChangeTo(g, rev + 1, rev + 1) = c
    <3>1. rev + 1 - (rev + 1 - n) = n /\ n \in 1..n
      BY <1>1, <2>2
    <3>2. g[n] = e
      BY <1>3, <2>1, <3>1
    <3>3. ChangeTo(g, rev + 1, rev + 1) = g[rev + 1 - (rev + 1 - Len(g))].change
      BY <1>1, <2>1 DEF ChangeTo
    <3>4. rev + 1 - (rev + 1 - Len(g)) = n
      BY <2>1, <3>1
    <3> QED BY <1>2, <3>2, <3>3, <3>4
  <2>6. ASSUME NEW r \in rev + 1 - n + 1..rev PROVE ChangeTo(g, rev + 1, r) = ChangeTo(h, rev, r)
    <3> DEFINE i == r - (rev + 1 - n)
    <3>1. i \in 1..n /\ i + 1 = r - (rev - n) /\ i + 1 \in 1..n
      BY <1>1
    <3>2. g[i] = longer[i + 1] /\ longer[i + 1] = h[i + 1]
      BY <1>3, <2>1, <3>1
    <3>3. ChangeTo(g, rev + 1, r) = g[r - (rev + 1 - Len(g))].change
          /\ ChangeTo(h, rev, r) = h[r - (rev - n)].change
      BY <1>1, <2>1 DEF ChangeTo, n
    <3>4. r - (rev + 1 - Len(g)) = i
      BY <2>1
    <3> HIDE DEF i
    <3> QED BY <3>1, <3>2, <3>3, <3>4
  <2>7. Recorded(h, rev, c) = g
    BY <1>5 DEF Recorded, g, longer, e
  <2>8. rev - n <= rev + 1 - n /\ rev + 1 - n <= rev /\ rev + 1 - n \in Int
    BY <1>1, <2>2
  <2> QED BY <2>1, <2>4, <2>5, <2>6, <2>7, <2>8 DEF n
<1>6. CASE ~(Len(longer) > HistoryLimit)
  <2>1. JournalIs(longer, rev + 1)
    <3>1. ASSUME NEW i \in 1..Len(longer) PROVE longer[i].at = rev + 1 - Len(longer) + i
      <4>1. i \in 1..n + 1 /\ rev + 1 - Len(longer) + i = rev - n + i
        BY <1>1, <1>3
      <4> QED BY <1>4, <4>1
    <3>2. rev + 1 \in Nat
      BY <1>1
    <3> QED BY <1>3, <3>1, <3>2 DEF JournalIs, S
  <2>2. rev + 1 - Len(longer) = rev - n /\ rev - n \in Int
    BY <1>1, <1>3
  <2>3. ChangeTo(longer, rev + 1, rev + 1) = c
    <3>1. rev + 1 - (rev - n) = n + 1
      BY <1>1
    <3>2. ChangeTo(longer, rev + 1, rev + 1) = longer[rev + 1 - (rev + 1 - Len(longer))].change
      BY <1>1, <1>3 DEF ChangeTo
    <3> QED BY <1>2, <1>3, <2>2, <3>1, <3>2
  <2>4. ASSUME NEW r \in rev - n + 1..rev PROVE ChangeTo(longer, rev + 1, r) = ChangeTo(h, rev, r)
    <3>1. r - (rev - n) \in 1..n
      BY <1>1
    <3>2. longer[r - (rev - n)] = h[r - (rev - n)]
      BY <1>3, <3>1
    <3>3. ChangeTo(longer, rev + 1, r) = longer[r - (rev + 1 - Len(longer))].change
          /\ ChangeTo(h, rev, r) = h[r - (rev - n)].change
      BY <1>1, <1>3 DEF ChangeTo, n
    <3> QED BY <2>2, <3>2, <3>3
  <2>5. Recorded(h, rev, c) = longer
    BY <1>6 DEF Recorded, longer, e
  <2>6. rev - n <= rev + 1 - Len(longer) /\ rev + 1 - Len(longer) <= rev
    BY <1>1, <2>2
  <2> QED BY <2>1, <2>2, <2>3, <2>4, <2>5, <2>6 DEF n
<1> QED BY <1>5, <1>6

(* A dataset can be followed to the source's rows: if the journal still has  *)
(* every change since it was prepared, and none of them is a clear, they     *)
(* turn its rows into what the list would show now.                          *)
Path(f, d, rows, h, rev) ==
    /\ f[d.at] = d.rows /\ f[rev] = Shown(d.header, rows, d.size = 0)
    /\ \A r \in d.at + 1..rev : Takes(f[r - 1], Shift(ChangeTo(h, rev, r), d.header), f[r])
Unbroken(d, h, rev) ==
    rev - Len(h) <= d.at /\ \A r \in d.at + 1..rev : ChangeTo(h, rev, r).op # "reset"
Follows(d, rows, h, rev) ==
    /\ d.at \in Nat /\ d.at <= rev
    /\ Unbroken(d, h, rev) => \E f : Path(f, d, rows, h, rev)

LEMMA FollowsStep ==
  ASSUME NEW h, NEW rev, JournalIs(h, rev), NEW d, NEW rows, Follows(d, rows, h, rev),
         NEW c \in DataChange, NEW new,
         c.op # "reset" => Takes(Shown(d.header, rows, d.size = 0), Shift(c, d.header),
                                 Shown(d.header, new, d.size = 0))
  PROVE  Follows(d, new, Recorded(h, rev, c), rev + 1)
<1> DEFINE g == Recorded(h, rev, c)
           b == rev + 1 - Len(g)
<1>1. /\ JournalIs(g, rev + 1) /\ b \in Int /\ rev - Len(h) <= b /\ b <= rev
      /\ ChangeTo(g, rev + 1, rev + 1) = c
      /\ \A r \in b + 1..rev : ChangeTo(g, rev + 1, r) = ChangeTo(h, rev, r)
  BY RecordedIs
<1>2. rev \in Nat /\ d.at \in Nat /\ d.at <= rev /\ Len(h) \in Nat
  BY DEF JournalIs, Follows
<1> HIDE DEF g
<1>3. ASSUME Unbroken(d, g, rev + 1) PROVE \E f : Path(f, d, new, g, rev + 1)
  <2>1. b <= d.at /\ \A r \in d.at + 1..rev + 1 : ChangeTo(g, rev + 1, r).op # "reset"
    <3>1. b <= d.at
      BY <1>1, <1>2, <1>3 DEF Unbroken
    <3>2. \A r \in d.at + 1..rev + 1 : ChangeTo(g, rev + 1, r).op # "reset"
      BY <1>3 DEF Unbroken
    <3> QED BY <3>1, <3>2
  <2> HIDE DEF b
  <2>2. \A r \in d.at + 1..rev : ChangeTo(g, rev + 1, r) = ChangeTo(h, rev, r)
    BY <1>1, <1>2, <2>1
  <2>3. Unbroken(d, h, rev)
    <3>1. rev - Len(h) <= d.at
      BY <1>1, <1>2, <2>1
    <3>2. ASSUME NEW r \in d.at + 1..rev PROVE ChangeTo(h, rev, r).op # "reset"
      <4>1. r \in d.at + 1..rev + 1
        BY <1>2
      <4> QED BY <2>1, <2>2, <4>1
    <3> QED BY <3>1, <3>2 DEF Unbroken
  <2>4. PICK f : Path(f, d, rows, h, rev)
    BY <2>3 DEF Follows
  <2>5. c.op # "reset"
    <3>1. rev + 1 \in d.at + 1..rev + 1
      BY <1>2
    <3> QED BY <1>1, <2>1, <3>1
  <2> DEFINE s == Shown(d.header, new, d.size = 0)
             e == [r \in 0..rev + 1 |-> IF r = rev + 1 THEN s ELSE f[r]]
  <2>6. e[rev + 1] = s /\ \A r \in 0..rev : e[r] = f[r]
    BY <1>2
  <2> HIDE DEF e
  <2>7. e[d.at] = d.rows /\ e[rev] = Shown(d.header, rows, d.size = 0)
    <3>1. d.at \in 0..rev /\ rev \in 0..rev
      BY <1>2
    <3> QED BY <2>4, <2>6, <3>1 DEF Path
  <2>8. ASSUME NEW r \in d.at + 1..rev + 1
        PROVE  Takes(e[r - 1], Shift(ChangeTo(g, rev + 1, r), d.header), e[r])
    <3>1. CASE r = rev + 1
      <4>1. r - 1 = rev
        BY <1>2, <3>1
      <4> QED BY <1>1, <2>5, <2>6, <2>7, <3>1, <4>1
    <3>2. CASE r # rev + 1
      <4>1. r \in d.at + 1..rev /\ r \in 0..rev /\ r - 1 \in 0..rev
        BY <1>2, <3>2
      <4>2. Takes(f[r - 1], Shift(ChangeTo(h, rev, r), d.header), f[r])
        BY <2>4, <4>1 DEF Path
      <4>3. e[r - 1] = f[r - 1] /\ e[r] = f[r] /\ ChangeTo(g, rev + 1, r) = ChangeTo(h, rev, r)
        BY <2>2, <2>6, <4>1
      <4> QED BY <4>2, <4>3
    <3> QED BY <3>1, <3>2
  <2>9. Path(e, d, new, g, rev + 1)
    BY <2>6, <2>7, <2>8 DEF Path
  <2> QED BY <2>9
<1>4. d.at <= rev + 1
  BY <1>2
<1> QED BY <1>2, <1>3, <1>4 DEF Follows, g

(* The entries later than a revision the journal still reaches are its last. *)
LEMMA LaterAre ==
  ASSUME NEW h, NEW rev, JournalIs(h, rev), NEW at \in Nat, rev - Len(h) <= at, at <= rev
  PROVE  LET later == Those(h, {x \in ToSet(h) : x.at > at})
         IN  /\ later \in Seq([at : Nat, change : DataChange]) /\ Len(later) = rev - at
             /\ \A j \in 1..rev - at : later[j].change = ChangeTo(h, rev, at + j)
<1> DEFINE S == [at : Nat, change : DataChange]
           A == {x \in ToSet(h) : x.at > at}
           n == Len(h)
           b == rev - n
<1>1. /\ h \in Seq(S) /\ rev \in Nat /\ n \in Nat /\ \A i \in 1..n : h[i].at = rev - n + i
      /\ b \in Int /\ b <= at
  BY DEF JournalIs
<1> HIDE DEF S
<1>2. ASSUME NEW i \in 1..n PROVE (h[i] \in A) <=> (b + i > at)
  <2>1. h[i] \in ToSet(h)
    BY <1>1 DEF ToSet
  <2>2. h[i].at = b + i
    BY <1>1
  <2> QED BY <2>1, <2>2
<1>3. PICK f : Picks(f, h, A)
  BY <1>1, ThoseIs
<1> HIDE DEF A, n
<1>4. \A i \in 0..n : f[i] \in Seq(S)
  BY <1>1, <1>3, PicksSeq DEF n
<1> DEFINE size(i) == IF b + i > at THEN b + i - at ELSE 0
           T == {i \in Nat : i <= n => /\ Len(f[i]) = size(i)
                                       /\ \A j \in 1..size(i) : f[i][j] = h[at - b + j]}
<1>5. 0 \in T
  <2>1. f[0] = <<>> /\ Len(<<>>) = 0 /\ size(0) = 0
    BY <1>1, <1>3 DEF Picks
  <2> QED BY <2>1
<1> HIDE DEF b
<1>6. ASSUME NEW i \in T PROVE i + 1 \in T
  <2>0. i \in Nat
    OBVIOUS
  <2> SUFFICES ASSUME i + 1 <= n
               PROVE  /\ Len(f[i + 1]) = size(i + 1)
                      /\ \A j \in 1..size(i + 1) : f[i + 1][j] = h[at - b + j]
    BY <2>0
  <2>1. i + 1 \in 1..n /\ i \in 0..n /\ i + 1 - 1 = i
    BY SMTT(40), <1>1, <2>0
  <2>2. Len(f[i]) = size(i) /\ \A j \in 1..size(i) : f[i][j] = h[at - b + j]
    BY <1>1, <2>0
  <2>3. f[i + 1] = IF h[i + 1] \in A THEN Append(f[i], h[i + 1]) ELSE f[i]
    BY <1>3, <2>1 DEF Picks, n
  <2>4. CASE b + (i + 1) > at
    <3>1. h[i + 1] \in S /\ f[i] \in Seq(S)
      BY <1>1, <1>4, <2>1, ElementOfSeq DEF n
    <3> DEFINE t == Append(f[i], h[i + 1])
    <3>2. /\ f[i + 1] = t /\ Len(t) = Len(f[i]) + 1 /\ t[Len(f[i]) + 1] = h[i + 1]
          /\ \A j \in 1..Len(f[i]) : t[j] = f[i][j]
      BY <1>2, <2>1, <2>3, <2>4, <3>1, AppendProperties
    <3> HIDE DEF t
    <3>3. size(i) = b + i - at /\ size(i + 1) = size(i) + 1 /\ size(i) \in Nat
      BY <1>1, <2>0, <2>4
    <3>4. ASSUME NEW j \in 1..size(i + 1) PROVE t[j] = h[at - b + j]
      <4>1. CASE j = size(i + 1)
        <5>1. at - b + j = i + 1 /\ j = Len(f[i]) + 1
          BY <1>1, <2>0, <2>2, <3>3, <4>1
        <5> QED BY <3>2, <5>1
      <4>2. CASE j # size(i + 1)
        <5>1. j \in 1..size(i)
          BY <3>3, <4>2
        <5>2. t[j] = f[i][j] /\ f[i][j] = h[at - b + j]
          BY <2>2, <3>2, <5>1
        <5> QED BY <5>2
      <4> QED BY <4>1, <4>2
    <3> QED BY <2>2, <3>2, <3>3, <3>4
  <2>5. CASE ~(b + (i + 1) > at)
    <3>1. size(i) = 0 /\ size(i + 1) = 0
      BY <1>1, <2>0, <2>5
    <3>2. f[i + 1] = f[i]
      BY <1>2, <2>1, <2>3, <2>5
    <3> QED BY <2>2, <3>1, <3>2
  <2> QED BY <2>4, <2>5
<1>7. n \in T
  <2> HIDE DEF T
  <2>1. T \in SUBSET Nat
    BY DEF T
  <2> QED BY <1>1, <1>5, <1>6, <2>1, NatSetInduction
<1> DEFINE later == f[n]
<1>8. later \in Seq(S) /\ size(n) = rev - at
  <2>1. n \in 0..n /\ b + n = rev
    BY <1>1 DEF b
  <2>2. later \in Seq(S)
    BY <1>4, <2>1
  <2>3. CASE rev > at
    BY <1>1, <2>1, <2>2, <2>3
  <2>4. CASE rev = at
    BY <1>1, <2>1, <2>2, <2>4
  <2>5. rev > at \/ rev = at
    BY <1>1
  <2> QED BY <2>3, <2>4, <2>5
<1>9. Len(later) = rev - at /\ \A j \in 1..rev - at : later[j] = h[at - b + j]
  <2>1. Len(f[n]) = size(n) /\ \A j \in 1..size(n) : f[n][j] = h[at - b + j]
    BY <1>1, <1>7
  <2> HIDE DEF size
  <2> QED BY <1>8, <2>1
<1> HIDE DEF later
<1>10. ASSUME NEW j \in 1..rev - at PROVE later[j].change = ChangeTo(h, rev, at + j)
  <2>1. at + j - (rev - Len(h)) = at - b + j
    BY <1>1 DEF b, n
  <2>2. ChangeTo(h, rev, at + j) = h[at + j - (rev - Len(h))].change
    BY <1>1 DEF ChangeTo, n
  <2> QED BY <1>9, <2>1, <2>2
<1>11. later = Those(h, {x \in ToSet(h) : x.at > at})
  BY <1>3 DEF Picks, later, n, A
<1> QED BY <1>8, <1>9, <1>10, <1>11 DEF S

(* _changes_since: what it answers leads from the dataset to the list the    *)
(* source would show.                                                        *)
Shifted(changes, header) == [i \in DOMAIN changes |-> Shift(changes[i], header)]
LEMMA KnownChanges ==
  ASSUME NEW d, NEW rows, JournalIs(history, revision), Follows(d, rows, history, revision),
         ChangesSince(d.at).known
  PROVE  LET q == Shifted(ChangesSince(d.at).changes, d.header)
         IN  /\ Len(q) \in Nat
             /\ Plays(d.rows, q, Shown(d.header, rows, d.size = 0))
             /\ ChangesSince(d.at).changes = <<>> => d.at = revision
<1> DEFINE at == d.at
           n == Len(history)
           later == Those(history, {h \in ToSet(history) : h.at > at})
           changes == [i \in DOMAIN later |-> later[i].change]
           since == ChangesSince(at)
<1>1. revision \in Nat /\ at \in Nat /\ at <= revision /\ n \in Nat
  BY DEF JournalIs, Follows
<1>2. since = IF at = revision THEN [known |-> TRUE, changes |-> <<>>]
              ELSE IF Expired(at) \/ Reset(changes) THEN [known |-> FALSE, changes |-> <<>>]
              ELSE [known |-> TRUE, changes |-> changes]
  BY DEF ChangesSince
<1> HIDE DEF since
<1>3. CASE at = revision
  <2>1. since.changes = <<>>
    BY <1>2, <1>3
  <2>2. Shifted(since.changes, d.header) = <<>>
    BY <2>1 DEF Shifted
  <2>3. Unbroken(d, history, revision)
    BY <1>1, <1>3 DEF Unbroken
  <2>4. PICK f : Path(f, d, rows, history, revision)
    BY <2>3 DEF Follows
  <2>5. d.rows = Shown(d.header, rows, d.size = 0)
    BY <1>3, <2>4 DEF Path
  <2>6. Plays(d.rows, <<>>, d.rows) /\ Len(<<>>) = 0
    BY PlaysNone
  <2> QED BY <1>3, <2>2, <2>5, <2>6 DEF since
<1>4. CASE at # revision
  <2>1. ~Expired(at) /\ ~Reset(changes) /\ since.changes = changes
    <3> HIDE DEF changes
    <3>1. since.known
      BY DEF since
    <3> QED BY <1>2, <1>4, <3>1
  <2>2. revision - n <= at
    <3>1. history # <<>> /\ ~(at < history[1].at - 1)
      BY <2>1 DEF Expired
    <3>2. n >= 1
      BY <1>1, <3>1 DEF JournalIs
    <3>3. history[1].at = revision - n + 1
      <4>1. 1 \in 1..n
        BY <1>1, <3>2
      <4> QED BY <4>1 DEF JournalIs
    <3> QED BY <1>1, <3>1, <3>3
  <2> HIDE DEF at, n
  <2>3. /\ later \in Seq([at : Nat, change : DataChange]) /\ Len(later) = revision - at
        /\ \A j \in 1..revision - at : later[j].change = ChangeTo(history, revision, at + j)
    BY ZenonT(60), <1>1, <2>2, LaterAre DEF n
  <2> HIDE DEF later
  <2>4. /\ DOMAIN changes = 1..revision - at
        /\ \A j \in 1..revision - at : changes[j] = ChangeTo(history, revision, at + j)
    BY <2>3
  <2> HIDE DEF changes
  <2>5. ASSUME NEW r \in at + 1..revision PROVE ChangeTo(history, revision, r).op # "reset"
    <3> DEFINE j == r - at
    <3>1. j \in 1..revision - at /\ at + j = r
      BY <1>1
    <3> HIDE DEF j
    <3>2. changes[j] = ChangeTo(history, revision, r) /\ j \in DOMAIN changes
      BY <2>4, <3>1
    <3> QED BY <2>1, <3>2 DEF Reset
  <2>6. Unbroken(d, history, revision)
    BY <2>2, <2>5 DEF Unbroken, at, n
  <2>7. PICK f : Path(f, d, rows, history, revision)
    BY <2>6 DEF Follows
  <2> DEFINE q == Shifted(changes, d.header)
             g == [i \in 0..revision - at |-> f[at + i]]
  <2>8. /\ DOMAIN q = 1..revision - at
        /\ \A j \in 1..revision - at : q[j] = Shift(changes[j], d.header)
    BY <2>4 DEF Shifted
  <2>9. revision - at \in Nat /\ Len(q) = revision - at
    <3>1. revision - at \in Nat
      BY <1>1
    <3>2. q = [j \in 1..revision - at |-> q[j]]
      BY <2>4 DEF Shifted
    <3> HIDE DEF q
    <3> QED BY <3>1, <3>2
  <2> HIDE DEF q
  <2>10. \A i \in 0..revision - at : g[i] = f[at + i]
    OBVIOUS
  <2> HIDE DEF g
  <2>11. g[0] = d.rows
    <3>1. 0 \in 0..revision - at /\ at + 0 = at
      BY <1>1
    <3> QED BY <2>7, <2>10, <3>1 DEF Path, at
  <2>12. g[Len(q)] = Shown(d.header, rows, d.size = 0)
    <3>1. revision - at \in 0..revision - at /\ at + (revision - at) = revision
      BY <1>1
    <3> QED BY <2>7, <2>9, <2>10, <3>1 DEF Path
  <2>13. ASSUME NEW j \in 1..Len(q) PROVE Takes(g[j - 1], q[j], g[j])
    <3>1. /\ j \in 1..revision - at /\ j \in 0..revision - at /\ j - 1 \in 0..revision - at
          /\ at + j \in at + 1..revision /\ at + j - 1 = at + (j - 1)
      BY <1>1, <2>9
    <3>0. \A i \in at + 1..revision :
              Takes(f[i - 1], Shift(ChangeTo(history, revision, i), d.header), f[i])
      BY <2>7 DEF Path, at
    <3>2. Takes(f[at + j - 1], Shift(ChangeTo(history, revision, at + j), d.header), f[at + j])
      <4>1. PICK r \in at + 1..revision : r = at + j
        BY <3>1
      <4>2. Takes(f[r - 1], Shift(ChangeTo(history, revision, r), d.header), f[r])
        BY <3>0
      <4>3. r - 1 = at + j - 1
        BY <1>1, <3>1, <4>1
      <4> QED BY <4>1, <4>2, <4>3, Zenon
    <3>3. g[j] = f[at + j] /\ g[j - 1] = f[at + j - 1]
      BY <2>10, <3>1
    <3>4. q[j] = Shift(ChangeTo(history, revision, at + j), d.header)
      BY <2>4, <2>8, <3>1
    <3> QED BY <3>2, <3>3, <3>4
  <2>14. Plays(d.rows, q, Shown(d.header, rows, d.size = 0))
    BY <2>11, <2>12, <2>13 DEF Plays
  <2>15. since.changes # <<>>
    <3>1. 1 \in DOMAIN changes
      BY <1>1, <1>4, <2>4
    <3>2. DOMAIN <<>> = {}
      OBVIOUS
    <3> QED BY <2>1, <3>1, <3>2
  <2> QED BY <2>1, <2>9, <2>14, <2>15 DEF since, q, at
<1> QED BY <1>3, <1>4

---------------------------------------------------------------------------
(* What a list shows of the application's rows.                              *)
LEMMA DecoratedIs ==
  ASSUME NEW rows \in RowSeqs(Keys), NEW header \in BOOLEAN
  PROVE  /\ Decorated(rows, header) = Shown(header, rows, rows = <<>>)
         /\ Decorated(rows, header) \in RowSeqs(AllKeys)
<1>1. /\ Lead(header) \in Seq(Rows(AllKeys)) /\ rows \in Seq(Rows(AllKeys))
  BY FrameIs, MoreKeys
<1>a. Shown(header, rows, rows = <<>>) \in RowSeqs(AllKeys)
  <2> DEFINE e == rows = <<>>
  <2>1. e \in BOOLEAN
    OBVIOUS
  <2> HIDE DEF e
  <2>2. Shown(header, rows, e) \in RowSeqs(AllKeys)
    BY <2>1, ShownIs
  <2> QED BY <2>2 DEF e
<1>2. CASE rows = <<>>
  <2>1. Lead(header) \o rows = Lead(header)
    BY <1>1, <1>2, ConcatEmptySeq
  <2>2. Foot(rows = <<>>) = <<Row("__empty__", 1)>>
    BY <1>2 DEF Foot
  <2>3. Decorated(rows, header) = Shown(header, rows, rows = <<>>)
    BY <1>2, <2>1, <2>2 DEF Decorated, Shown, Framed
  <2> QED BY <1>a, <2>3
<1>3. CASE rows # <<>>
  <2>1. Lead(header) \o rows \in Seq(Rows(AllKeys))
    BY <1>1, Joined
  <2>2. (Lead(header) \o rows) \o <<>> = Lead(header) \o rows
    BY <2>1, ConcatEmptySeq
  <2>3. Foot(rows = <<>>) = <<>>
    BY <1>3 DEF Foot
  <2>4. Decorated(rows, header) = Lead(header) \o rows
    BY <1>3 DEF Decorated
  <2>5. Shown(header, rows, rows = <<>>) = (Lead(header) \o rows) \o Foot(rows = <<>>)
    BY DEF Shown, Framed
  <2>6. Decorated(rows, header) = Shown(header, rows, rows = <<>>)
    BY <2>2, <2>3, <2>4, <2>5
  <2> QED BY <1>a, <2>6
<1> QED BY <1>2, <1>3

LEMMA NoRows ==
  ASSUME NEW ks \in Seq(Keys), Distinct(ks), NEW en \in Entries
  PROVE  (RowsOf(ks, en) = <<>>) <=> (ks = <<>>)
<1>1. RowsOf(ks, en) \in Seq(Rows(Keys)) /\ Len(RowsOf(ks, en)) = Len(ks)
  BY RowsOfIs
<1> DEFINE r == RowsOf(ks, en)
<1> HIDE DEF r
<1>2. r \in Seq(Rows(Keys)) /\ Len(r) = Len(ks)
  BY <1>1 DEF r
<1>3. (r = <<>>) <=> (Len(r) = 0)
  BY <1>2, EmptySeq
<1>4. (ks = <<>>) <=> (Len(ks) = 0)
  BY EmptySeq
<1> QED BY <1>2, <1>3, <1>4 DEF r

---------------------------------------------------------------------------
(* The invariant.  The tables have an entry for each list; the sequence the  *)
(* application passes has each key once, like the ListData.                  *)
Items == [key : Keys, value : 0..1]
Tables ==
    /\ DOMAIN dataset = Views /\ DOMAIN previous = Views /\ DOMAIN sent = Views
    /\ DOMAIN native = Views /\ DOMAIN wanted = Views /\ DOMAIN event = Views
Sources ==
    /\ keys \in Seq(Keys) /\ Distinct(keys) /\ entry \in Entries
    /\ JournalIs(history, revision)
Settings == plain \in Seq(Items) /\ Unique(plain) /\ props \in [Views -> Props]

(* A dataset of the ListData can be followed to what it is now; one of a     *)
(* sequence is a copy of its rows.                                           *)
Copied == [of : [key : Keys, value : 0..1, index : Nat, last : BOOLEAN], rev : Nat]
CopiedRows(d) == [i \in DOMAIN d.values |-> Row(d.values[i].of.key, d.values[i].rev)]
OfData(d) == (d.at = revision => d.size = Len(keys)) /\ Follows(d, DataRows, history, revision)
OfSequence(d) ==
    /\ Unique(CopiedRows(d)) /\ d.size = Len(d.values)
    /\ d.rows = Decorated(CopiedRows(d), d.header)
Sound(d) ==
    /\ d.rows \in RowSeqs(AllKeys) /\ d.revision \in Nat /\ d.header \in BOOLEAN /\ d.size \in Nat
    /\ d.source \in {"none", "data", "plain"} /\ d.values \in Seq(Copied)
    /\ d.source # "plain" => d.values = <<>>
    /\ d.source = "none" => d.rows = <<>>
    /\ d.source = "data" => OfData(d)
    /\ d.source = "plain" => OfSequence(d)

(* The native store holds the dataset of the last commit, and takes the      *)
(* packet that carries the next one.                                         *)
Held(d) == [revision |-> d.revision, rows |-> d.rows]
Books(v) ==
    /\ Sound(dataset[v]) /\ native[v] = Held(previous[v]) /\ native[v].revision \in Nat
    /\ Idle(v) => dataset[v] = previous[v]
    /\ ~Idle(v) => /\ sent[v].revision = dataset[v].revision
                   /\ dataset[v].revision = native[v].revision + 1
                   /\ wanted[v] = dataset[v].rows
                   /\ Prepared(native[v], sent[v]).ok = TRUE
                   /\ Prepared(native[v], sent[v]).rows = dataset[v].rows

(* An event names a row the store still holds, or an older revision.         *)
Recalls(v) ==
    event[v] # NoEvent =>
        /\ event[v].revision \in Nat /\ event[v].revision <= native[v].revision
        /\ event[v].revision = native[v].revision =>
              /\ event[v].index \in DOMAIN native[v].rows
              /\ event[v].key = native[v].rows[event[v].index].key

IInv ==
    /\ Tables /\ Sources /\ Settings /\ EventsNameTheShownRow
    /\ \A v \in Views : Books(v) /\ Recalls(v)

(* An edit of the ListData: the journal gains the change that turns the rows *)
(* of before into those of after, and no list is told more than to render.   *)
Edited(c) ==
    /\ revision' = revision + 1 /\ history' = Recorded(history, revision, c)
    /\ UNCHANGED <<plain, props, dataset, previous, sent, native, wanted, event, told>>
LEMMA EditStep ==
  ASSUME IInv, NEW c \in DataChange, Edited(c),
         keys' \in Seq(Keys), Distinct(keys'), entry' \in Entries,
         c.op # "reset" => \A header, empty \in BOOLEAN :
             Takes(Shown(header, DataRows, empty), Shift(c, header), Shown(header, DataRows', empty))
  PROVE  IInv'
<1>1. JournalIs(history, revision) /\ revision \in Nat
  BY DEF IInv, Sources, JournalIs
<1>2. revision' = revision + 1 /\ history' = Recorded(history, revision, c)
  BY DEF Edited
<1>3. JournalIs(history', revision')
  BY <1>1, <1>2, RecordedIs
<1>4. ASSUME NEW d, Sound(d), d.source = "data" PROVE OfData(d)'
  <2>1. Follows(d, DataRows, history, revision) /\ d.header \in BOOLEAN
    BY <1>4 DEF Sound, OfData
  <2> DEFINE e == d.size = 0
  <2>2. e \in BOOLEAN
    OBVIOUS
  <2> HIDE DEF e
  <2>3. c.op # "reset" => Takes(Shown(d.header, DataRows, e), Shift(c, d.header), Shown(d.header, DataRows', e))
    BY <2>1, <2>2
  <2>4. Follows(d, DataRows', Recorded(history, revision, c), revision + 1)
    BY <1>1, <2>1, <2>3, FollowsStep DEF e
  <2>5. d.at \in Nat /\ d.at <= revision
    BY <2>1 DEF Follows
  <2>6. d.at # revision'
    BY <1>1, <1>2, <2>5
  <2> QED BY <1>2, <2>4, <2>6 DEF OfData
<1>5. ASSUME NEW d, Sound(d) PROVE Sound(d)'
  BY <1>4, <1>5 DEF Sound, OfSequence
<1>6. ASSUME NEW v \in Views PROVE Books(v)' /\ Recalls(v)'
  <2>1. Books(v) /\ Recalls(v)
    BY DEF IInv
  <2>2. Sound(dataset[v])'
    BY <1>5, <2>1 DEF Books, Edited
  <2>3. Books(v)'
    BY <2>1, <2>2 DEF Books, Edited, Idle
  <2>4. Recalls(v)'
    BY <2>1 DEF Recalls, Edited
  <2> QED BY <2>3, <2>4
<1>7. Tables' /\ Settings' /\ EventsNameTheShownRow'
  BY DEF IInv, Tables, Settings, EventsNameTheShownRow, Edited
<1> QED BY <1>3, <1>6, <1>7 DEF IInv, Sources

(* _record, as the journal sees it. *)
LEMMA RecordEdits ==
  ASSUME NEW c, Record(c)
  PROVE  Edited(c)
BY DEF Record, Edited, Recorded

LEMMA InsertStep ==
  ASSUME IInv, NEW k \in Keys, NEW i, Insert(k, i)
  PROVE  IInv'
<1> DEFINE e == [rev |-> 1, value |-> revision + 1]
           row == Row(k, 1)
<1>1. keys \in Seq(Keys) /\ Distinct(keys) /\ entry \in Entries /\ revision \in Nat
  BY DEF IInv, Sources, JournalIs
<1>2. /\ k \notin ToSet(keys) /\ i \in 1..Len(keys) + 1 /\ keys' = InsertAt(keys, i, k)
      /\ entry' = [entry EXCEPT ![k] = e]
  BY DEF Insert
<1>3. Edited(InsertRow(i, row))
  BY RecordEdits DEF Insert
<1>4. e \in [rev : Nat, value : Nat] /\ e.rev = 1
  BY <1>1
<1> HIDE DEF e
<1>5. /\ keys' \in Seq(Keys) /\ Distinct(keys')
      /\ RowsOf(keys', entry') = InsertAt(RowsOf(keys, entry), i, row)
      /\ i \in 1..Len(RowsOf(keys, entry)) + 1 /\ row \in Rows(Keys)
      /\ \A p \in 1..Len(RowsOf(keys, entry)) : RowsOf(keys, entry)[p].key # row.key
  <2> DEFINE more == InsertAt(keys, i, k)
             next == [entry EXCEPT ![k] = e]
             rows == RowsOf(keys, entry)
  <2>1. /\ more \in Seq(Keys) /\ Distinct(more) /\ RowsOf(more, next) = InsertAt(rows, i, Row(k, e.rev))
        /\ i \in 1..Len(rows) + 1 /\ Row(k, e.rev) \in Rows(Keys)
        /\ \A p \in 1..Len(rows) : rows[p].key # Row(k, e.rev).key
    <3>1. /\ keys \in Seq(Keys) /\ Distinct(keys) /\ entry \in Entries /\ k \notin ToSet(keys)
          /\ i \in 1..Len(keys) + 1 /\ e \in [rev : Nat, value : Nat]
      BY <1>1, <1>2, <1>4
    <3> QED BY <3>1, SourceInsert
  <2>2. Row(k, e.rev) = row
    BY <1>4
  <2> HIDE DEF more, next, rows, row
  <2>3. keys' = more /\ entry' = next
    BY <1>2 DEF more, next
  <2> QED BY <2>1, <2>2, <2>3 DEF rows
<1>6. entry' \in Entries
  BY <1>1, <1>2, <1>4 DEF Entries
<1>7. RowsOf(keys, entry) \in RowSeqs(Keys)
  BY <1>1, RowsOfIs
<1> HIDE DEF row
<1>8. ASSUME NEW header \in BOOLEAN, NEW empty \in BOOLEAN
      PROVE  Takes(Shown(header, DataRows, empty), Shift(InsertRow(i, row), header),
                   Shown(header, DataRows', empty))
  <2>1. Takes(Shown(header, RowsOf(keys, entry), empty), Shift(InsertRow(i, row), header),
              Shown(header, InsertAt(RowsOf(keys, entry), i, row), empty))
    BY <1>5, <1>7, ShownInsert
  <2> QED BY <1>5, <2>1 DEF DataRows, RowsOf
<1>9. InsertRow(i, row) \in DataChange
  <2>1. i \in Nat
    BY <1>1, <1>2
  <2> QED BY <1>5, <2>1 DEF DataChange, AnyChange
<1> QED BY <1>3, <1>5, <1>6, <1>8, <1>9, EditStep

LEMMA UpdateStep ==
  ASSUME IInv, NEW k \in Keys, Update(k)
  PROVE  IInv'
<1> DEFINE e == [rev |-> entry[k].rev + 1, value |-> revision + 1]
           row == Row(k, entry[k].rev + 1)
<1>1. keys \in Seq(Keys) /\ Distinct(keys) /\ entry \in Entries /\ revision \in Nat
  BY DEF IInv, Sources, JournalIs
<1>2. k \in ToSet(keys) /\ keys' = keys /\ entry' = [entry EXCEPT ![k] = e]
  BY <1>1 DEF Update, Entries
<1>3. Edited(UpdateRow(row))
  BY RecordEdits DEF Update
<1>4. e \in [rev : Nat, value : Nat] /\ Row(k, e.rev) = row
  BY <1>1 DEF Entries
<1> HIDE DEF e, row
<1>5. PICK p \in 1..Len(keys) : k = keys[p]
  BY <1>1, <1>2 DEF ToSet
<1>6. /\ RowsOf(keys, entry') = [RowsOf(keys, entry) EXCEPT ![p] = row]
      /\ p \in 1..Len(RowsOf(keys, entry)) /\ row \in Rows(Keys) /\ row.key = RowsOf(keys, entry)[p].key
  <2> DEFINE next == [entry EXCEPT ![k] = e]
             rows == RowsOf(keys, entry)
  <2>1. /\ RowsOf(keys, next) = [rows EXCEPT ![p] = Row(k, e.rev)]
        /\ p \in 1..Len(rows) /\ Row(k, e.rev) \in Rows(Keys) /\ Row(k, e.rev).key = rows[p].key
    BY <1>1, <1>4, <1>5, SourceUpdate
  <2> HIDE DEF next, rows
  <2>2. keys' = keys /\ entry' = next
    BY <1>2 DEF next
  <2> QED BY <1>4, <2>1, <2>2 DEF rows
<1>7. RowsOf(keys, entry) \in RowSeqs(Keys)
  BY <1>1, RowsOfIs
<1>8. ASSUME NEW header \in BOOLEAN, NEW empty \in BOOLEAN
      PROVE  Takes(Shown(header, DataRows, empty), Shift(UpdateRow(row), header),
                   Shown(header, DataRows', empty))
  <2>1. Takes(Shown(header, RowsOf(keys, entry), empty), Shift(UpdateRow(row), header),
              Shown(header, [RowsOf(keys, entry) EXCEPT ![p] = row], empty))
    BY <1>6, <1>7, ShownUpdate
  <2> QED BY <1>2, <1>6, <2>1 DEF DataRows, RowsOf
<1>9. UpdateRow(row) \in DataChange
  BY <1>6 DEF DataChange, AnyChange
<1>10. keys' \in Seq(Keys) /\ Distinct(keys') /\ entry' \in Entries
  <2>1. entry' \in Entries
    BY <1>1, <1>2, <1>4 DEF Entries
  <2> QED BY <1>1, <1>2, <2>1
<1> QED BY <1>3, <1>8, <1>9, <1>10, EditStep

LEMMA RemoveStep ==
  ASSUME IInv, NEW k \in Keys, Remove1(k)
  PROVE  IInv'
<1>1. keys \in Seq(Keys) /\ Distinct(keys) /\ entry \in Entries /\ revision \in Nat
  BY DEF IInv, Sources, JournalIs
<1>2. k \in ToSet(keys) /\ keys' = RemoveAt(keys, Position(keys, k)) /\ entry' = [entry EXCEPT ![k] = Absent]
  BY DEF Remove1
<1>3. Edited(DeleteRow(k))
  BY RecordEdits DEF Remove1
<1>4. Absent \in [rev : Nat, value : Nat]
  BY DEF Absent
<1>5. PICK p \in 1..Len(keys) : k = keys[p]
  BY <1>1, <1>2 DEF ToSet
<1>6. Position(keys, k) = p
  <2>1. DOMAIN keys = 1..Len(keys) /\ \A i \in 1..Len(keys) : keys[i] = keys[p] => i = p
    BY <1>1 DEF Distinct
  <2> QED BY <1>5, <2>1, PositionIs
<1>7. /\ keys' \in Seq(Keys) /\ Distinct(keys')
      /\ RowsOf(keys', entry') = RemoveAt(RowsOf(keys, entry), p)
      /\ p \in 1..Len(RowsOf(keys, entry)) /\ k = RowsOf(keys, entry)[p].key
  <2> DEFINE next == [entry EXCEPT ![k] = Absent]
             less == RemoveAt(keys, p)
             rows == RowsOf(keys, entry)
  <2>1. /\ less \in Seq(Keys) /\ Distinct(less) /\ RowsOf(less, next) = RemoveAt(rows, p)
        /\ p \in 1..Len(rows) /\ k = rows[p].key
    BY <1>1, <1>4, <1>5, SourceRemove
  <2> HIDE DEF next, less, rows
  <2>2. keys' = less /\ entry' = next
    BY <1>2, <1>6 DEF next, less
  <2> QED BY <2>1, <2>2 DEF rows
<1>8. RowsOf(keys, entry) \in RowSeqs(Keys)
  BY <1>1, RowsOfIs
<1>9. ASSUME NEW header \in BOOLEAN, NEW empty \in BOOLEAN
      PROVE  Takes(Shown(header, DataRows, empty), Shift(DeleteRow(k), header),
                   Shown(header, DataRows', empty))
  <2>1. Takes(Shown(header, RowsOf(keys, entry), empty), Shift(DeleteRow(k), header),
              Shown(header, RemoveAt(RowsOf(keys, entry), p), empty))
    BY <1>7, <1>8, ShownDelete
  <2> QED BY <1>7, <2>1 DEF DataRows, RowsOf
<1>10. DeleteRow(k) \in DataChange
  BY DEF DataChange, AnyChange
<1>11. entry' \in Entries
  BY <1>1, <1>2, <1>4 DEF Entries
<1> QED BY <1>3, <1>7, <1>9, <1>10, <1>11, EditStep

LEMMA MoveStep ==
  ASSUME IInv, NEW k \in Keys, NEW i, Move(k, i)
  PROVE  IInv'
<1>1. keys \in Seq(Keys) /\ Distinct(keys) /\ entry \in Entries /\ revision \in Nat
  BY DEF IInv, Sources, JournalIs
<1>2. k \in ToSet(keys) /\ i \in 1..Len(keys) /\ keys' = Reordered(keys, k, i) /\ entry' = entry
  BY <1>1 DEF Move
<1>3. Edited(MoveRow(k, i))
  BY RecordEdits DEF Move
<1>5. PICK p \in 1..Len(keys) : k = keys[p]
  BY <1>1, <1>2 DEF ToSet
<1> DEFINE rows == RowsOf(keys, entry)
<1>7. /\ keys' \in Seq(Keys) /\ Distinct(keys')
      /\ RowsOf(keys', entry') = InsertAt(RemoveAt(rows, p), i, rows[p])
      /\ p \in 1..Len(rows) /\ i \in 1..Len(rows) /\ k = rows[p].key
  BY <1>1, <1>2, <1>5, SourceMove
<1>8. rows \in RowSeqs(Keys)
  BY <1>1, RowsOfIs
<1>9. ASSUME NEW header \in BOOLEAN, NEW empty \in BOOLEAN
      PROVE  Takes(Shown(header, DataRows, empty), Shift(MoveRow(k, i), header),
                   Shown(header, DataRows', empty))
  <2> HIDE DEF rows
  <2>1. Takes(Shown(header, rows, empty), Shift(MoveRow(k, i), header),
              Shown(header, InsertAt(RemoveAt(rows, p), i, rows[p]), empty))
    BY <1>7, <1>8, ShownMove
  <2> QED BY <1>7, <2>1 DEF DataRows, RowsOf, rows
<1>10. MoveRow(k, i) \in DataChange
  <2>1. i \in Nat
    BY <1>2
  <2> QED BY <2>1 DEF DataChange, AnyChange
<1>11. entry' \in Entries
  BY <1>1, <1>2
<1> QED BY <1>3, <1>7, <1>9, <1>10, <1>11, EditStep

LEMMA ClearStep ==
  ASSUME IInv, Clear
  PROVE  IInv'
<1>1. Edited(ResetRows(<<>>)) /\ keys' = <<>> /\ entry' = [k \in Keys |-> Absent]
  BY RecordEdits DEF Clear
<1>2. keys' \in Seq(Keys) /\ Distinct(keys')
  <2>1. <<>> \in Seq(Keys) /\ Len(<<>>) = 0
    OBVIOUS
  <2> QED BY <1>1, <2>1 DEF Distinct
<1>3. entry' \in Entries
  BY <1>1 DEF Entries, Absent
<1>4. ResetRows(<<>>) \in DataChange /\ ResetRows(<<>>).op = "reset"
  BY DEF DataChange, ResetRows
<1> QED BY <1>1, <1>2, <1>3, <1>4, EditStep

---------------------------------------------------------------------------
(* What a render prepares.                                                   *)
NextData(d, p) == [source |-> "data", revision |-> d.revision + 1, at |-> revision, size |-> Len(keys),
                rows |-> Decorated(DataRows, p.header), header |-> p.header, inputs |-> p.inputs,
                values |-> <<>>]
LEMMA ShowsData ==
  ASSUME Sources, NEW header \in BOOLEAN, NEW size, (size = 0) = (keys = <<>>)
  PROVE  /\ DataRows \in RowSeqs(Keys)
         /\ Decorated(DataRows, header) = Shown(header, DataRows, size = 0)
         /\ Decorated(DataRows, header) \in RowSeqs(AllKeys)
<1>1. keys \in Seq(Keys) /\ Distinct(keys) /\ entry \in Entries
  BY DEF Sources
<1>2. DataRows = RowsOf(keys, entry)
  BY DEF DataRows, RowsOf
<1>3. DataRows \in RowSeqs(Keys) /\ (DataRows = <<>>) = (keys = <<>>)
  BY <1>1, <1>2, RowsOfIs, NoRows
<1> QED BY <1>3, DecoratedIs

LEMMA SoundNext ==
  ASSUME Sources, NEW d, d.revision \in Nat, NEW p \in Props
  PROVE  Sound(NextData(d, p))
<1> DEFINE new == NextData(d, p)
<1>1. p.header \in BOOLEAN
  BY DEF Props
<1>2. /\ new.source = "data" /\ new.revision = d.revision + 1 /\ new.at = revision
      /\ new.size = Len(keys) /\ new.rows = Decorated(DataRows, p.header) /\ new.header = p.header
  BY DEF NextData
<1> HIDE DEF new
<1>3. (new.size = 0) = (keys = <<>>)
  BY <1>2, EmptySeq DEF Sources
<1>4. /\ DataRows \in RowSeqs(Keys) /\ new.rows = Shown(p.header, DataRows, new.size = 0)
      /\ new.rows \in RowSeqs(AllKeys)
  BY <1>1, <1>2, <1>3, ShowsData
<1>5. revision \in Nat
  BY DEF Sources, JournalIs
<1>6. \E f : Path(f, new, DataRows, history, revision)
  <2> DEFINE f == [r \in {revision} |-> new.rows]
  <2>1. f[revision] = new.rows
    OBVIOUS
  <2> HIDE DEF f
  <2>2. \A r \in revision + 1..revision : FALSE
    BY <1>5
  <2>3. f[new.at] = new.rows /\ f[revision] = Shown(new.header, DataRows, new.size = 0)
    BY <1>2, <1>4, <2>1
  <2>4. Path(f, new, DataRows, history, revision)
    BY <1>2, <2>2, <2>3 DEF Path
  <2> QED BY <2>4
<1>7. Follows(new, DataRows, history, revision)
  BY <1>2, <1>5, <1>6 DEF Follows
<1>8. new.values = <<>> /\ <<>> \in Seq(Copied) /\ Len(keys) \in Nat
  BY DEF new, NextData, Sources
<1> QED BY <1>1, <1>2, <1>4, <1>7, <1>8 DEF Sound, OfData, new

Packet(d, next) == [base |-> d.revision, revision |-> next.dataset.revision, changes |-> next.changes]
Continued(d, next) ==
    \/ next.dataset = d
    \/ /\ next.dataset.revision = d.revision + 1
       /\ Sound(next.dataset)
       /\ Prepared(Held(d), Packet(d, next)).ok = TRUE
       /\ Prepared(Held(d), Packet(d, next)).rows = next.dataset.rows
LEMMA IncrementalIs ==
  ASSUME Sources, NEW d, Sound(d), NEW p \in Props
  PROVE  LET next == Incremental(d, p)
         IN  /\ Continued(d, next) /\ Sound(next.dataset)
             /\ next.dataset.source = "data" /\ next.dataset.at = revision
             /\ next.dataset.header = p.header
             /\ next.dataset.rows = Decorated(DataRows, p.header)
<1> DEFINE reusable == d.source = "data" /\ d.inputs = p.inputs
           since == IF reusable THEN ChangesSince(d.at) ELSE [known |-> FALSE, changes |-> <<>>]
           same == d.header = p.header /\ (d.size = 0) = (keys = <<>>)
           rows == Decorated(DataRows, p.header)
           new == NextData(d, p)
           moved == Shifted(since.changes, p.header)
           next == Incremental(d, p)
<1>1. next = IF since.known /\ same /\ since.changes = <<>> THEN [dataset |-> d, changes |-> <<>>]
             ELSE [dataset |-> new, changes |-> IF since.known /\ same THEN moved ELSE <<ResetRows(rows)>>]
  BY DEF Incremental, NextData, Shifted, Shift
<1>2. p.header \in BOOLEAN /\ d.revision \in Nat
  BY DEF Props, Sound
<1>3. Sound(new)
  BY <1>2, SoundNext
<1>4. /\ new.source = "data" /\ new.revision = d.revision + 1 /\ new.at = revision
      /\ new.rows = rows /\ new.header = p.header
  BY DEF NextData
<1>5. rows \in RowSeqs(AllKeys)
  BY <1>3, <1>4 DEF Sound
<1>6. since.known /\ same =>
         /\ d.source = "data" /\ d.header = p.header /\ Len(moved) \in Nat
         /\ Plays(d.rows, moved, rows)
         /\ since.changes = <<>> => d.at = revision
  <2> SUFFICES ASSUME since.known, same
               PROVE  /\ d.source = "data" /\ d.header = p.header /\ Len(moved) \in Nat
                      /\ Plays(d.rows, moved, rows)
                      /\ since.changes = <<>> => d.at = revision
    OBVIOUS
  <2>1. reusable
    OBVIOUS
  <2>2. d.source = "data" /\ since = ChangesSince(d.at)
    BY <2>1
  <2>3. Follows(d, DataRows, history, revision) /\ JournalIs(history, revision)
    BY <2>2 DEF Sound, OfData, Sources
  <2>4. d.header = p.header /\ rows = Shown(d.header, DataRows, d.size = 0)
    <3>1. d.header = p.header /\ (d.size = 0) = (keys = <<>>)
      OBVIOUS
    <3>2. d.header \in BOOLEAN
      BY <1>2, <3>1
    <3> QED BY ZenonT(60), <3>1, <3>2, ShowsData
  <2>5. ChangesSince(d.at).known
    BY <2>2
  <2> HIDE DEF since, rows
  <2> DEFINE q == Shifted(ChangesSince(d.at).changes, d.header)
  <2>6. /\ Len(q) \in Nat /\ Plays(d.rows, q, Shown(d.header, DataRows, d.size = 0))
        /\ ChangesSince(d.at).changes = <<>> => d.at = revision
    BY <2>3, <2>5, KnownChanges
  <2>7. q = moved
    BY <2>2, <2>4
  <2> HIDE DEF q, moved
  <2> QED BY <2>2, <2>4, <2>6, <2>7
<1> HIDE DEF since, same, new, rows, moved
<1>7. CASE since.known /\ same /\ since.changes = <<>>
  <2>1. next.dataset = d
    BY <1>1, <1>7
  <2>2. d.at = revision /\ d.source = "data" /\ d.header = p.header
    BY <1>6, <1>7
  <2>3. d.rows = rows
    <3>1. moved = <<>>
      BY <1>7 DEF moved, Shifted
    <3>2. Plays(d.rows, <<>>, rows)
      BY <1>6, <1>7, <3>1
    <3> QED BY <3>2 DEF Plays
  <2> QED BY <2>1, <2>2, <2>3 DEF Continued, rows
<1>8. CASE ~(since.known /\ same /\ since.changes = <<>>)
  <2>1. next.dataset = new /\ next.changes = IF since.known /\ same THEN moved ELSE <<ResetRows(rows)>>
    BY <1>1, <1>8
  <2> HIDE DEF next
  <2> DEFINE packet == Packet(d, next)
             store == Held(d)
  <2>2. /\ packet.base = d.revision /\ packet.revision = d.revision + 1 /\ packet.changes = next.changes
        /\ store.revision = d.revision /\ store.rows = d.rows
    BY <1>4, <2>1 DEF Packet, Held
  <2> HIDE DEF packet, store
  <2>3. Continues(store, packet)
    BY <2>2 DEF Continues
  <2>4. Prepared(store, packet).ok = TRUE /\ Prepared(store, packet).rows = rows
    <3>1. CASE since.known /\ same
      <4>1. Plays(store.rows, packet.changes, rows) /\ Len(packet.changes) \in Nat
        BY <1>6, <2>1, <2>2, <3>1
      <4> QED BY <2>3, <4>1, PreparedPlays
    <3>2. CASE ~(since.known /\ same)
      <4>1. packet.changes = <<ResetRows(rows)>>
        BY <2>1, <2>2, <3>2
      <4> QED BY ZenonT(60), <1>5, <2>3, <4>1, PreparedReset
    <3> QED BY <3>1, <3>2
  <2>5. Continued(d, next)
    BY <1>3, <1>4, <2>1, <2>4 DEF Continued, packet, store
  <2> QED BY <1>3, <1>4, <2>1, <2>5 DEF rows, next
<1> QED BY <1>7, <1>8

(* A list shows different rows of the application differently.               *)
LEMMA DecoratedOnly ==
  ASSUME NEW x \in RowSeqs(Keys), NEW y \in RowSeqs(Keys), NEW g \in BOOLEAN, NEW h \in BOOLEAN,
         Decorated(x, g) = Decorated(y, h)
  PROVE  g = h /\ x = y
<1> DEFINE a == Len(Lead(g))
           b == Len(Lead(h))
           s == Decorated(x, g)
           t == Decorated(y, h)
<1>1. /\ x \in Seq(Rows(Keys)) /\ y \in Seq(Rows(Keys))
      /\ \A i \in 1..Len(x) : x[i].key \in Keys
      /\ \A i \in 1..Len(y) : y[i].key \in Keys
  BY MoreKeys DEF RowSeqs
<1>2. /\ a \in 0..1 /\ b \in 0..1 /\ (g <=> a = 1) /\ (h <=> b = 1)
  BY FrameIs
<1>3. /\ (x = <<>>) <=> (Len(x) = 0)
      /\ (y = <<>>) <=> (Len(y) = 0)
      /\ Len(x) \in Nat /\ Len(y) \in Nat
  BY <1>1, EmptySeq
<1>4. /\ Len(s) = a + Len(x) + (IF x = <<>> THEN 1 ELSE 0)
      /\ \A i \in 1..a : s[i].key = "__header__"
      /\ \A i \in 1..Len(x) : s[a + i] = x[i]
      /\ x = <<>> => s[a + 1].key = "__empty__"
  <2> DEFINE e == x = <<>>
  <2>1. e \in BOOLEAN /\ s = Shown(g, x, e)
    BY DecoratedIs
  <2>2. Len(Foot(e)) = (IF x = <<>> THEN 1 ELSE 0)
    BY DEF Foot
  <2> HIDE DEF e, s
  <2>3. /\ Len(s) = a + Len(x) + Len(Foot(e))
        /\ \A i \in 1..a : s[i].key = "__header__"
        /\ \A i \in 1..Len(x) : s[a + i] = x[i]
        /\ \A i \in 1..Len(Foot(e)) : s[a + Len(x) + i].key = "__empty__"
    <3> DEFINE u == Shown(g, x, e)
    <3>3. e \in BOOLEAN
      BY <2>1
    <3>4. Len(u) = a + Len(x) + Len(Foot(e))
      BY <3>3, ShownIs
    <3>5. \A i \in 1..a : u[i].key = "__header__"
      BY <3>3, ShownIs
    <3>6. \A i \in 1..Len(x) : u[a + i] = x[i]
      BY <3>3, ShownIs
    <3>7. \A i \in 1..Len(Foot(e)) : u[a + Len(x) + i].key = "__empty__"
      BY <3>3, ShownIs
    <3>1. /\ Len(u) = a + Len(x) + Len(Foot(e))
          /\ \A i \in 1..a : u[i].key = "__header__"
          /\ \A i \in 1..Len(x) : u[a + i] = x[i]
          /\ \A i \in 1..Len(Foot(e)) : u[a + Len(x) + i].key = "__empty__"
      BY <3>4, <3>5, <3>6, <3>7
    <3> HIDE DEF u
    <3>2. s = u
      BY <2>1 DEF u
    <3> QED BY <3>1, <3>2
  <2> HIDE DEF a
  <2>4. x = <<>> => s[a + 1].key = "__empty__"
    <3> SUFFICES ASSUME x = <<>> PROVE s[a + 1].key = "__empty__"
      OBVIOUS
    <3>1. 1 \in 1..Len(Foot(e)) /\ a + Len(x) + 1 = a + 1
      BY <1>2, <1>3, <2>2
    <3> QED BY <2>3, <3>1
  <2> QED BY <2>2, <2>3, <2>4
<1>5. /\ Len(t) = b + Len(y) + (IF y = <<>> THEN 1 ELSE 0)
      /\ \A i \in 1..b : t[i].key = "__header__"
      /\ \A i \in 1..Len(y) : t[b + i] = y[i]
      /\ y = <<>> => t[b + 1].key = "__empty__"
  <2> DEFINE e == y = <<>>
  <2>1. e \in BOOLEAN /\ t = Shown(h, y, e)
    BY DecoratedIs
  <2>2. Len(Foot(e)) = (IF y = <<>> THEN 1 ELSE 0)
    BY DEF Foot
  <2> HIDE DEF e, t
  <2>3. /\ Len(t) = b + Len(y) + Len(Foot(e))
        /\ \A i \in 1..b : t[i].key = "__header__"
        /\ \A i \in 1..Len(y) : t[b + i] = y[i]
        /\ \A i \in 1..Len(Foot(e)) : t[b + Len(y) + i].key = "__empty__"
    <3> DEFINE u == Shown(h, y, e)
    <3>3. e \in BOOLEAN
      BY <2>1
    <3>4. Len(u) = b + Len(y) + Len(Foot(e))
      BY <3>3, ShownIs
    <3>5. \A i \in 1..b : u[i].key = "__header__"
      BY <3>3, ShownIs
    <3>6. \A i \in 1..Len(y) : u[b + i] = y[i]
      BY <3>3, ShownIs
    <3>7. \A i \in 1..Len(Foot(e)) : u[b + Len(y) + i].key = "__empty__"
      BY <3>3, ShownIs
    <3>1. /\ Len(u) = b + Len(y) + Len(Foot(e))
          /\ \A i \in 1..b : u[i].key = "__header__"
          /\ \A i \in 1..Len(y) : u[b + i] = y[i]
          /\ \A i \in 1..Len(Foot(e)) : u[b + Len(y) + i].key = "__empty__"
      BY <3>4, <3>5, <3>6, <3>7
    <3> HIDE DEF u
    <3>2. t = u
      BY <2>1 DEF u
    <3> QED BY <3>1, <3>2
  <2> HIDE DEF b
  <2>4. y = <<>> => t[b + 1].key = "__empty__"
    <3> SUFFICES ASSUME y = <<>> PROVE t[b + 1].key = "__empty__"
      OBVIOUS
    <3>1. 1 \in 1..Len(Foot(e)) /\ b + Len(y) + 1 = b + 1
      BY <1>2, <1>3, <2>2
    <3> QED BY <2>3, <3>1
  <2> QED BY <2>2, <2>3, <2>4
<1>6. s = t
  OBVIOUS
<1> HIDE DEF a, b, s, t
<1>7. "__header__" \notin Keys /\ "__empty__" \notin Keys
  BY ListsAssumption
<1>8. ~(g /\ ~h)
  <2> SUFFICES ASSUME g, ~h PROVE FALSE
    OBVIOUS
  <2>1. a = 1 /\ b = 0
    BY <1>2
  <2>2. s[1].key = "__header__"
    BY <1>4, <2>1
  <2>3. CASE y = <<>>
    BY <1>5, <1>6, <2>1, <2>2, <2>3
  <2>4. CASE y # <<>>
    <3>1. 1 \in 1..Len(y) /\ b + 1 = 1
      BY <1>3, <2>1, <2>4
    <3>2. t[1] = y[1] /\ y[1].key \in Keys
      BY <1>1, <1>5, <3>1
    <3> QED BY <1>6, <1>7, <2>2, <3>2
  <2> QED BY <2>3, <2>4
<1>9. ~(h /\ ~g)
  <2> SUFFICES ASSUME h, ~g PROVE FALSE
    OBVIOUS
  <2>1. b = 1 /\ a = 0
    BY <1>2
  <2>2. t[1].key = "__header__"
    BY <1>5, <2>1
  <2>3. CASE x = <<>>
    BY <1>4, <1>6, <2>1, <2>2, <2>3
  <2>4. CASE x # <<>>
    <3>1. 1 \in 1..Len(x) /\ a + 1 = 1
      BY <1>3, <2>1, <2>4
    <3>2. s[1] = x[1] /\ x[1].key \in Keys
      BY <1>1, <1>4, <3>1
    <3> QED BY <1>6, <1>7, <2>2, <3>2
  <2> QED BY <2>3, <2>4
<1>10. g = h /\ a = b
  BY <1>2, <1>8, <1>9
<1>11. (x = <<>>) <=> (y = <<>>)
  <2>1. ASSUME x = <<>>, y # <<>> PROVE FALSE
    <3>1. 1 \in 1..Len(y)
      BY <1>3, <2>1
    <3>2. t[b + 1] = y[1] /\ y[1].key \in Keys
      BY <1>1, <1>5, <3>1
    <3> QED BY <1>4, <1>6, <1>7, <1>10, <2>1, <3>2
  <2>2. ASSUME y = <<>>, x # <<>> PROVE FALSE
    <3>1. 1 \in 1..Len(x)
      BY <1>3, <2>2
    <3>2. s[a + 1] = x[1] /\ x[1].key \in Keys
      BY <1>1, <1>4, <3>1
    <3> QED BY <1>5, <1>6, <1>7, <1>10, <2>2, <3>2
  <2> QED BY <2>1, <2>2
<1>12. Len(x) = Len(y)
  BY <1>2, <1>3, <1>4, <1>5, <1>6, <1>10, <1>11
<1>13. \A i \in 1..Len(x) : x[i] = y[i]
  BY <1>4, <1>5, <1>6, <1>10, <1>12
<1>14. x = y
  BY <1>1, <1>12, <1>13, SeqEqual
<1> QED BY <1>10, <1>14

(* The rows _prepare_snapshot makes of the sequence: the revision of a row   *)
(* goes on when its item, its place or the inputs are others.                *)
Old(d, k) == {x \in ToSet(d.values) : x.of.key = k}
RevAt(d, p, i) ==
    IF Old(d, plain[i].key) = {} THEN 1
    ELSE LET seen == CHOOSE x \in Old(d, plain[i].key) : TRUE
         IN  IF d.inputs # p.inputs \/ seen.of # ValueAt(i) THEN seen.rev + 1 ELSE seen.rev
PlainRows(d, p) == [i \in DOMAIN plain |-> Row(plain[i].key, RevAt(d, p, i))]
PlainValues(d, p) == [i \in DOMAIN plain |-> [of |-> ValueAt(i), rev |-> RevAt(d, p, i)]]
LEMMA PlainRowsAre ==
  ASSUME Settings, NEW d, Sound(d), NEW p \in Props
  PROVE  /\ PlainRows(d, p) \in RowSeqs(Keys) /\ Len(PlainRows(d, p)) = Len(plain)
         /\ PlainValues(d, p) \in Seq(Copied) /\ Len(PlainValues(d, p)) = Len(plain)
         /\ [i \in DOMAIN PlainValues(d, p) |->
               Row(PlainValues(d, p)[i].of.key, PlainValues(d, p)[i].rev)] = PlainRows(d, p)
<1>1. plain \in Seq(Items) /\ Unique(plain) /\ d.values \in Seq(Copied)
  BY DEF Settings, Sound
<1>2. ASSUME NEW i \in 1..Len(plain)
      PROVE  /\ plain[i] \in Items /\ RevAt(d, p, i) \in Nat
             /\ ValueAt(i) \in [key : Keys, value : 0..1, index : Nat, last : BOOLEAN]
             /\ ValueAt(i).key = plain[i].key
  <2>1. plain[i] \in Items
    BY <1>1, ElementOfSeq
  <2>2. ValueAt(i) \in [key : Keys, value : 0..1, index : Nat, last : BOOLEAN]
        /\ ValueAt(i).key = plain[i].key
    <3>1. i \in Nat /\ (i = Len(plain)) \in BOOLEAN
      BY <1>1
    <3> QED BY <2>1, <3>1 DEF ValueAt, Items
  <2>3. RevAt(d, p, i) \in Nat
    <3>1. CASE Old(d, plain[i].key) = {}
      BY <3>1 DEF RevAt
    <3>2. CASE Old(d, plain[i].key) # {}
      <4> DEFINE seen == CHOOSE x \in Old(d, plain[i].key) : TRUE
      <4>1. seen \in Old(d, plain[i].key)
        BY <3>2
      <4>2. RevAt(d, p, i) = IF d.inputs # p.inputs \/ seen.of # ValueAt(i) THEN seen.rev + 1 ELSE seen.rev
        BY <3>2 DEF RevAt
      <4> HIDE DEF seen
      <4>3. seen \in ToSet(d.values)
        BY <4>1 DEF Old
      <4>4. seen \in Copied
        BY <1>1, <4>3 DEF ToSet
      <4>5. seen.rev \in Nat
        BY <4>4 DEF Copied
      <4> QED BY <4>2, <4>5
    <3> QED BY <3>1, <3>2
  <2> QED BY <2>1, <2>2, <2>3
<1> DEFINE rows == PlainRows(d, p)
           values == PlainValues(d, p)
           n == Len(plain)
<1>3. n \in Nat /\ DOMAIN plain = 1..n
  BY <1>1
<1>4. /\ rows = [i \in 1..n |-> rows[i]] /\ DOMAIN rows = 1..n
      /\ \A i \in 1..n : rows[i] = Row(plain[i].key, RevAt(d, p, i))
  BY <1>3 DEF PlainRows
<1>5. /\ values = [i \in 1..n |-> values[i]] /\ DOMAIN values = 1..n
      /\ \A i \in 1..n : values[i] = [of |-> ValueAt(i), rev |-> RevAt(d, p, i)]
  BY <1>3 DEF PlainValues
<1> HIDE DEF rows, values, n
<1>6. \A i \in 1..n : rows[i] \in Rows(Keys) /\ rows[i].key = plain[i].key
  BY <1>2, <1>4 DEF n, Items, Rows, Row
<1>7. rows \in Seq(Rows(Keys)) /\ Len(rows) = n
  BY <1>3, <1>4, <1>6
<1>8. Unique(rows)
  BY <1>1, <1>6, <1>7 DEF Unique, n
<1>9. \A i \in 1..n : values[i] \in Copied
  BY <1>2, <1>5 DEF n, Copied
<1>10. values \in Seq(Copied) /\ Len(values) = n
  BY <1>3, <1>5, <1>9
<1>11. [i \in DOMAIN values |-> Row(values[i].of.key, values[i].rev)] = rows
  <2>1. \A i \in 1..n : Row(values[i].of.key, values[i].rev) = rows[i]
    BY <1>2, <1>4, <1>5 DEF n
  <2>2. [i \in 1..n |-> Row(values[i].of.key, values[i].rev)] = [i \in 1..n |-> rows[i]]
    BY <2>1
  <2> QED BY <1>4, <1>5, <2>2
<1> QED BY <1>7, <1>8, <1>10, <1>11 DEF RowSeqs, rows, values, n

NextPlain(d, p) ==
    [source |-> "plain", revision |-> d.revision + 1, at |-> 0, size |-> Len(plain),
     rows |-> Decorated(PlainRows(d, p), p.header), header |-> p.header, inputs |-> p.inputs,
     values |-> PlainValues(d, p)]
LEMMA SnapshotIs ==
  ASSUME Settings, NEW d, Sound(d), NEW p \in Props
  PROVE  LET next == Snapshot(d, p)
         IN  /\ Continued(d, next) /\ Sound(next.dataset)
             /\ next.dataset.source = "plain"
             /\ next.dataset.rows = Decorated(PlainRows(d, p), p.header)
<1> DEFINE rows == Decorated(PlainRows(d, p), p.header)
           new == NextPlain(d, p)
           changed == d.source # "plain" \/ rows # d.rows
           next == Snapshot(d, p)
<1>1. next = IF ~changed THEN [dataset |-> d, changes |-> <<>>]
             ELSE [dataset |-> new,
                   changes |-> IF d.source = "plain" THEN SequencePatch(d.rows, rows)
                               ELSE <<ResetRows(rows)>>]
  BY DEF Snapshot, NextPlain, PlainRows, PlainValues, RevAt, Old
<1>2. p.header \in BOOLEAN /\ d.revision \in Nat /\ d.rows \in RowSeqs(AllKeys)
  BY DEF Props, Sound
<1>3. /\ new.source = "plain" /\ new.revision = d.revision + 1 /\ new.size = Len(plain)
      /\ new.rows = rows /\ new.header = p.header /\ new.values = PlainValues(d, p)
  BY DEF NextPlain
<1>4. rows \in RowSeqs(AllKeys)
  BY <1>2, PlainRowsAre, DecoratedIs
<1>5. Sound(new)
  <2> HIDE DEF new, rows
  <2>1. CopiedRows(new) = PlainRows(d, p)
    BY <1>3, PlainRowsAre DEF CopiedRows
  <2>2. /\ Unique(CopiedRows(new)) /\ new.values \in Seq(Copied) /\ new.size = Len(new.values)
        /\ new.size \in Nat
    BY <1>3, <2>1, PlainRowsAre DEF RowSeqs, Settings
  <2>3. new.rows = Decorated(CopiedRows(new), new.header)
    BY <1>3, <2>1 DEF rows
  <2>4. new.source \in {"none", "data", "plain"} /\ new.source # "none" /\ new.source # "data"
    BY <1>3
  <2> QED BY <1>2, <1>3, <1>4, <2>2, <2>3, <2>4 DEF Sound, OfSequence
<1> HIDE DEF rows, new
<1>7. CASE ~changed
  <2>1. next.dataset = d /\ d.source = "plain" /\ d.rows = rows
    BY <1>1, <1>7
  <2> QED BY <2>1 DEF Continued, rows
<1>8. CASE changed
  <2>1. /\ next.dataset = new
        /\ next.changes = IF d.source = "plain" THEN SequencePatch(d.rows, rows) ELSE <<ResetRows(rows)>>
    BY <1>1, <1>8
  <2> HIDE DEF next
  <2> DEFINE packet == Packet(d, next)
             store == Held(d)
  <2>2. /\ packet.base = d.revision /\ packet.revision = d.revision + 1 /\ packet.changes = next.changes
        /\ store.revision = d.revision /\ store.rows = d.rows
    BY <1>3, <2>1 DEF Packet, Held
  <2> HIDE DEF packet, store
  <2>3. Continues(store, packet)
    BY <2>2 DEF Continues
  <2>4. Prepared(store, packet).ok = TRUE /\ Prepared(store, packet).rows = rows
    <3>1. CASE d.source = "plain"
      <4>1. packet.changes = SequencePatch(store.rows, rows) /\ store.rows \in RowSeqs(AllKeys)
        BY <1>2, <2>1, <2>2, <3>1
      <4> QED BY <1>4, <2>3, <4>1, PreparedPatch
    <3>2. CASE d.source # "plain"
      <4>1. packet.changes = <<ResetRows(rows)>>
        BY <2>1, <2>2, <3>2
      <4> QED BY <1>4, <2>3, <4>1, PreparedReset
    <3> QED BY <3>1, <3>2
  <2>5. Continued(d, next)
    BY <1>3, <1>5, <2>1, <2>4 DEF Continued, packet, store
  <2> QED BY <1>3, <1>5, <2>1, <2>5 DEF rows, next
<1> QED BY <1>7, <1>8

---------------------------------------------------------------------------
(* The invariant holds at first, and every step keeps it.                    *)
LEMMA InitHolds ==
  ASSUME Init
  PROVE  IInv
<1>1. Tables
  BY DEF Init, Tables
<1>2. Sources
  <2>1. First \in Seq(Keys) /\ Distinct(First)
    BY ListsAssumption DEF IsInjective, Distinct
  <2>2. entry \in Entries
    BY DEF Init, Entries, Absent
  <2>3. JournalIs(<<>>, 0)
    <3>1. <<>> \in Seq([at : Nat, change : DataChange]) /\ Len(<<>>) = 0
      OBVIOUS
    <3> QED BY <3>1 DEF JournalIs
  <2> QED BY <2>1, <2>2, <2>3 DEF Init, Sources
<1>3. Settings
  <2>1. <<>> \in Seq(Items) /\ Unique(<<>>)
    <3>1. <<>> \in Seq(Items) /\ Len(<<>>) = 0
      OBVIOUS
    <3> QED BY <3>1 DEF Unique
  <2> QED BY <2>1 DEF Init, Settings
<1>4. Sound(NoDataset)
  <2>1. <<>> \in Seq(Rows(AllKeys)) /\ Len(<<>>) = 0 /\ <<>> \in Seq(Copied)
    OBVIOUS
  <2>2. <<>> \in RowSeqs(AllKeys)
    BY <2>1 DEF RowSeqs, Unique
  <2> QED BY <2>1, <2>2 DEF Sound, NoDataset
<1>5. ASSUME NEW v \in Views PROVE Books(v) /\ Recalls(v)
  BY <1>4 DEF Init, Books, Recalls, Held, EmptyStore, Idle, NoDataset
<1>6. EventsNameTheShownRow
  BY DEF Init, EventsNameTheShownRow
<1> QED BY <1>1, <1>2, <1>3, <1>5, <1>6 DEF IInv

LEMMA PrepareIs ==
  ASSUME IInv, NEW v \in Views, Idle(v)
  PROVE  Continued(previous[v], Prepare(v)) /\ Sound(Prepare(v).dataset)
<1>1. Sound(previous[v])
  BY DEF IInv, Books
<1>2. props[v] \in Props /\ Sources /\ Settings
  BY DEF IInv, Settings
<1>3. Continued(previous[v], Incremental(previous[v], props[v]))
      /\ Sound(Incremental(previous[v], props[v]).dataset)
  BY <1>1, <1>2, IncrementalIs
<1>4. Continued(previous[v], Snapshot(previous[v], props[v]))
      /\ Sound(Snapshot(previous[v], props[v]).dataset)
  BY <1>1, <1>2, SnapshotIs
<1> QED BY <1>3, <1>4 DEF Prepare

LEMMA RenderStep ==
  ASSUME IInv, NEW v \in Views, Render(v)
  PROVE  IInv'
<1> DEFINE next == Prepare(v)
           d == previous[v]
<1>1. Continued(d, next) /\ Sound(next.dataset) /\ Books(v) /\ Recalls(v) /\ Tables /\ Idle(v)
  BY PrepareIs DEF IInv, Render
<1>2. /\ dataset' = [dataset EXCEPT ![v] = next.dataset]
      /\ wanted' = [wanted EXCEPT ![v] = next.dataset.rows]
      /\ sent' = [sent EXCEPT ![v] = IF next.dataset = d THEN NoPacket ELSE Packet(d, next)]
      /\ UNCHANGED <<source, plain, props, previous, native, event, told>>
  BY DEF Render, Packet
<1> HIDE DEF next
<1>3. ASSUME NEW x, Sound(x) PROVE Sound(x)'
  BY <1>2, <1>3 DEF Sound, OfData, OfSequence, CopiedRows, DataRows, source
<1>4. Books(v)'
  <2>1. native'[v] = native[v] /\ native[v] = Held(d) /\ previous'[v] = d /\ native[v].revision \in Nat
    BY <1>1, <1>2 DEF Books
  <2>2. dataset'[v] = next.dataset /\ wanted'[v] = next.dataset.rows
    BY <1>1, <1>2 DEF Tables
  <2>6. Sound(dataset[v])'
    <3>1. PICK y : y = next.dataset
      OBVIOUS
    <3>2. Sound(y)'
      BY <1>1, <1>3, <3>1
    <3>3. dataset'[v] = y
      BY <2>2, <3>1
    <3> QED BY <3>2, <3>3
  <2>3. sent'[v] = IF next.dataset = d THEN NoPacket ELSE Packet(d, next)
    BY <1>1, <1>2 DEF Tables
  <2>4. CASE next.dataset = d
    <3>1. Idle(v)' /\ dataset'[v] = previous'[v]
      BY <2>1, <2>2, <2>3, <2>4 DEF Idle
    <3> QED BY <2>1, <2>2, <2>6, <3>1 DEF Books, Held
  <2>5. CASE next.dataset # d
    <3>1. /\ next.dataset.revision = d.revision + 1
          /\ Prepared(Held(d), Packet(d, next)).ok = TRUE
          /\ Prepared(Held(d), Packet(d, next)).rows = next.dataset.rows
      BY <1>1, <2>5 DEF Continued
    <3>2. sent'[v] = Packet(d, next) /\ Packet(d, next).revision = next.dataset.revision
      BY <2>3, <2>5 DEF Packet
    <3>3. native[v].revision = d.revision /\ d.revision \in Nat
      BY <2>1 DEF Held
    <3>4. Packet(d, next) # NoPacket
      BY <3>1, <3>2, <3>3 DEF NoPacket
    <3>5. ~Idle(v)'
      BY <3>2, <3>4 DEF Idle
    <3> QED BY <2>1, <2>2, <2>6, <3>1, <3>2, <3>3, <3>5 DEF Books, Held
  <2> QED BY <2>4, <2>5
<1>5. ASSUME NEW w \in Views, w # v PROVE Books(w)'
  <2>1. Books(w)
    BY DEF IInv
  <2>2. /\ dataset'[w] = dataset[w] /\ wanted'[w] = wanted[w] /\ sent'[w] = sent[w]
        /\ native' = native /\ previous' = previous
    BY <1>1, <1>2, <1>5 DEF Tables
  <2>3. Sound(dataset[w])'
    BY <1>3, <2>1, <2>2 DEF Books
  <2> QED BY <2>1, <2>2, <2>3 DEF Books, Idle
<1>6. ASSUME NEW w \in Views PROVE Recalls(w)'
  <2>1. Recalls(w)
    BY DEF IInv
  <2> QED BY <1>2, <2>1 DEF Recalls
<1>7. Tables' /\ Sources' /\ Settings' /\ EventsNameTheShownRow'
  BY <1>1, <1>2 DEF IInv, Tables, Sources, Settings, EventsNameTheShownRow, source
<1> QED BY <1>4, <1>5, <1>6, <1>7 DEF IInv

LEMMA AnswerStep ==
  ASSUME IInv, NEW v \in Views, Answer(v)
  PROVE  IInv'
<1>1. Books(v) /\ Recalls(v) /\ Tables /\ ~Idle(v)
  BY DEF IInv, Answer
<1>2. /\ native' = [native EXCEPT ![v] = Published(native[v], sent[v])]
      /\ sent' = [sent EXCEPT ![v] = NoPacket]
      /\ previous' = [previous EXCEPT ![v] = dataset[v]]
      /\ UNCHANGED <<source, plain, props, dataset, event, told, wanted>>
  BY <1>1 DEF Answer, Tables
<1>3. ASSUME NEW x, Sound(x) PROVE Sound(x)'
  BY <1>2, <1>3 DEF Sound, OfData, OfSequence, CopiedRows, DataRows, source
<1>4. Published(native[v], sent[v]) = Held(dataset[v])
  BY <1>1 DEF Books, Published, Held
<1>5. native'[v] = Held(dataset[v]) /\ previous'[v] = dataset[v] /\ dataset' = dataset /\ Idle(v)'
  BY <1>1, <1>2, <1>4 DEF Tables, Idle
<1>6. native'[v].revision = native[v].revision + 1 /\ native[v].revision \in Nat
  BY <1>1, <1>5 DEF Books, Held
<1>7. Books(v)'
  <2>1. Sound(dataset[v])'
    BY <1>1, <1>2, <1>3 DEF Books
  <2> QED BY <1>5, <1>6, <2>1 DEF Books, Held
<1>8. Recalls(v)'
  <2>1. event'[v] = event[v]
    BY <1>2
  <2> QED BY <1>1, <1>6, <2>1 DEF Recalls
<1>9. ASSUME NEW w \in Views, w # v PROVE Books(w)' /\ Recalls(w)'
  <2>1. Books(w) /\ Recalls(w)
    BY DEF IInv
  <2>2. /\ dataset' = dataset /\ wanted' = wanted /\ event' = event
        /\ sent'[w] = sent[w] /\ native'[w] = native[w] /\ previous'[w] = previous[w]
    BY <1>1, <1>2, <1>9 DEF Tables
  <2>3. Sound(dataset[w])'
    BY <1>3, <2>1, <2>2 DEF Books
  <2> QED BY <2>1, <2>2, <2>3 DEF Books, Recalls, Idle
<1>10. Tables' /\ Sources' /\ Settings' /\ EventsNameTheShownRow'
  BY <1>1, <1>2 DEF IInv, Tables, Sources, Settings, EventsNameTheShownRow, source
<1> QED BY <1>7, <1>8, <1>9, <1>10 DEF IInv

(* Steps that leave the datasets, the packets and the stores alone.          *)
LEMMA BooksKept ==
  ASSUME IInv, UNCHANGED <<keys, entry, revision, history, dataset, previous, sent, native, wanted>>
  PROVE  Sources' /\ (\A v \in Views : Books(v)') /\ (DOMAIN event' = Views => Tables')
<1>1. ASSUME NEW x, Sound(x) PROVE Sound(x)'
  BY <1>1 DEF Sound, OfData, OfSequence, CopiedRows, DataRows
<1>2. ASSUME NEW v \in Views PROVE Books(v)'
  <2>1. Books(v)
    BY DEF IInv
  <2>2. Sound(dataset[v])'
    BY <1>1, <2>1 DEF Books
  <2> QED BY <2>1, <2>2 DEF Books, Idle
<1>3. Sources' /\ (DOMAIN event' = Views => Tables')
  BY DEF IInv, Sources, Tables
<1> QED BY <1>2, <1>3

LEMMA QuietStep ==
  ASSUME IInv, UNCHANGED <<keys, entry, revision, history, dataset, previous, sent, native, wanted,
                           event, told>>,
         Settings'
  PROVE  IInv'
<1>1. Sources' /\ (\A v \in Views : Books(v)') /\ Tables'
  BY BooksKept DEF IInv, Tables
<1>2. ASSUME NEW v \in Views PROVE Recalls(v)'
  BY DEF IInv, Recalls
<1>3. EventsNameTheShownRow'
  BY DEF IInv, EventsNameTheShownRow
<1> QED BY <1>1, <1>2, <1>3 DEF IInv

LEMMA PlainIs ==
  ASSUME NEW rows \in Plain
  PROVE  rows \in Seq(Items) /\ Unique(rows)
<1>1. Cardinality(Keys) \in Nat
  BY FS_CardinalityType, ListsAssumption
<1>2. PICK o \in Orders, w \in 0..1 : rows = [i \in DOMAIN o |-> [key |-> o[i], value |-> w]]
  BY DEF Plain
<1>3. PICK n \in 0..Cardinality(Keys) : o \in [1..n -> Keys] /\ IsInjective(o)
  BY <1>2 DEF Orders
<1>4. n \in Nat
  BY <1>1
<1>5. \A i \in 1..n : rows[i] \in Items /\ rows[i].key = o[i]
  BY <1>2, <1>3 DEF Items
<1>6. rows \in Seq(Items) /\ Len(rows) = n
  BY <1>2, <1>3, <1>4, <1>5
<1>7. \A i, j \in 1..n : o[i] = o[j] => i = j
  BY <1>3 DEF IsInjective
<1> QED BY <1>5, <1>6, <1>7 DEF Unique

LEMMA RemountStep ==
  ASSUME IInv, NEW v \in Views, Remount(v)
  PROVE  IInv'
<1>1. /\ dataset' = [dataset EXCEPT ![v] = NoDataset]
      /\ previous' = [previous EXCEPT ![v] = NoDataset]
      /\ sent' = [sent EXCEPT ![v] = NoPacket]
      /\ native' = [native EXCEPT ![v] = EmptyStore]
      /\ wanted' = [wanted EXCEPT ![v] = <<>>]
      /\ event' = [event EXCEPT ![v] = NoEvent]
      /\ UNCHANGED <<source, plain, props, told>>
  BY DEF Remount
<1>2. ASSUME NEW x, Sound(x) PROVE Sound(x)'
  BY <1>1, <1>2 DEF Sound, OfData, OfSequence, CopiedRows, DataRows, source
<1>3. Tables
  BY DEF IInv
<1>4. Books(v)' /\ Recalls(v)'
  <2>1. /\ dataset'[v] = NoDataset /\ previous'[v] = NoDataset /\ Idle(v)'
        /\ native'[v] = EmptyStore /\ event'[v] = NoEvent
    BY <1>1, <1>3 DEF Tables, Idle
  <2>2. Sound(NoDataset)'
    <3>1. <<>> \in Seq(Rows(AllKeys)) /\ Len(<<>>) = 0 /\ <<>> \in Seq(Copied)
      OBVIOUS
    <3>2. <<>> \in RowSeqs(AllKeys)
      BY <3>1 DEF RowSeqs, Unique
    <3> QED BY <3>1, <3>2 DEF Sound, NoDataset
  <2>3. Sound(dataset[v])'
    BY <2>1, <2>2
  <2> QED BY <2>1, <2>3 DEF Books, Recalls, Held, EmptyStore, NoDataset
<1>5. ASSUME NEW w \in Views, w # v PROVE Books(w)' /\ Recalls(w)'
  <2>1. Books(w) /\ Recalls(w)
    BY DEF IInv
  <2>2. /\ dataset'[w] = dataset[w] /\ wanted'[w] = wanted[w] /\ event'[w] = event[w]
        /\ sent'[w] = sent[w] /\ native'[w] = native[w] /\ previous'[w] = previous[w]
    BY <1>1, <1>3, <1>5 DEF Tables
  <2>3. Sound(dataset[w])'
    BY <1>2, <2>1, <2>2 DEF Books
  <2> QED BY <2>1, <2>2, <2>3 DEF Books, Recalls, Idle
<1>6. Tables' /\ Sources' /\ Settings' /\ EventsNameTheShownRow'
  BY <1>1 DEF IInv, Tables, Sources, Settings, EventsNameTheShownRow, source
<1> QED BY <1>4, <1>5, <1>6 DEF IInv

LEMMA EmitStep ==
  ASSUME IInv, NEW v \in Views, NEW kind, NEW i, Emit(v, kind, i)
  PROVE  IInv'
<1>1. /\ i \in DOMAIN native[v].rows
      /\ event' = [event EXCEPT ![v] = [kind |-> kind, revision |-> native[v].revision,
                                        index |-> i, key |-> native[v].rows[i].key]]
      /\ UNCHANGED <<keys, entry, revision, history, dataset, previous, sent, native, wanted>>
      /\ UNCHANGED <<plain, props, told>>
  BY DEF Emit, source, view
<1>2. Tables
  BY DEF IInv
<1>3. Sources' /\ (\A w \in Views : Books(w)') /\ Tables'
  BY <1>1, <1>2, BooksKept DEF Tables
<1>4. ASSUME NEW w \in Views PROVE Recalls(w)'
  <2>1. Recalls(w) /\ Books(w)
    BY DEF IInv
  <2>2. CASE w = v
    <3>1. event'[w] = [kind |-> kind, revision |-> native[v].revision,
                       index |-> i, key |-> native[v].rows[i].key]
      BY <1>1, <1>2, <2>2 DEF Tables
    <3>2. native[v].revision \in Nat
      BY <2>1, <2>2 DEF Books
    <3> QED BY <1>1, <2>2, <3>1, <3>2 DEF Recalls
  <2>3. CASE w # v
    <3>1. event'[w] = event[w]
      BY <1>1, <1>2, <2>3 DEF Tables
    <3> QED BY <1>1, <2>1, <3>1 DEF Recalls
  <2> QED BY <2>2, <2>3
<1>5. Settings' /\ EventsNameTheShownRow'
  BY <1>1 DEF IInv, Settings, EventsNameTheShownRow
<1> QED BY <1>3, <1>4, <1>5 DEF IInv

(* What the native store shows of a dataset whose source has not changed is  *)
(* what is read at the same place through it.                                *)
LEMMA Unchanged ==
  ASSUME Sources, NEW d, Sound(d), d.source = "data", d.at = revision
  PROVE  d.rows = Decorated(DataRows, d.header) /\ d.rows = Shown(d.header, DataRows, d.size = 0)
<1>1. OfData(d) /\ d.header \in BOOLEAN /\ revision \in Nat /\ Len(history) \in Nat
  BY DEF Sound, Sources, JournalIs
<1>2. Unbroken(d, history, revision)
  BY <1>1 DEF Unbroken
<1>3. PICK f : Path(f, d, DataRows, history, revision)
  BY <1>1, <1>2 DEF OfData, Follows
<1>4. d.rows = Shown(d.header, DataRows, d.size = 0)
  BY <1>3 DEF Path
<1>5. (d.size = 0) = (keys = <<>>)
  BY <1>1, EmptySeq DEF OfData, Sources
<1> QED BY <1>1, <1>4, <1>5, ShowsData

LEMMA ReadsTheShownRow ==
  ASSUME Sources, NEW d, Sound(d), SourceIsCurrent(d), NEW i \in DOMAIN d.rows
  PROVE  LiveKey(d, i) = d.rows[i].key
<1>1. CASE d.source = "none"
  <2>1. DOMAIN <<>> = {} /\ d.rows = <<>>
    BY <1>1 DEF Sound
  <2> QED BY <2>1
<1>2. ASSUME d.source # "none"
      PROVE  \E x \in RowSeqs(Keys), e \in BOOLEAN :
                /\ d.rows = Shown(d.header, x, e)
                /\ LiveSize(d) = Len(x)
                /\ \A j \in 1..Len(x) : LiveRow(d, j).key = x[j].key
  <2>1. CASE d.source = "data"
    <3>1. d.at = revision
      BY <2>1 DEF SourceIsCurrent
    <3>2. d.rows = Shown(d.header, DataRows, d.size = 0) /\ LiveSize(d) = Len(keys)
      BY <2>1, <3>1, Unchanged DEF LiveSize
    <3>3. /\ DataRows \in RowSeqs(Keys) /\ Len(DataRows) = Len(keys)
          /\ \A j \in 1..Len(keys) : DataRows[j].key = keys[j]
      <4>1. DataRows = RowsOf(keys, entry)
        BY DEF DataRows, RowsOf
      <4> QED BY <4>1, RowsOfIs DEF Sources
    <3>4. \A j \in 1..Len(keys) : LiveRow(d, j).key = keys[j]
      BY <2>1 DEF LiveRow
    <3> DEFINE e == d.size = 0
    <3>5. e \in BOOLEAN
      OBVIOUS
    <3>6. d.rows = Shown(d.header, DataRows, e)
      BY <3>2
    <3> HIDE DEF e
    <3> QED BY <3>2, <3>3, <3>4, <3>5, <3>6
  <2>2. CASE d.source = "plain"
    <3> DEFINE x == CopiedRows(d)
    <3>1. /\ d.values \in Seq(Copied) /\ Unique(x) /\ d.size = Len(d.values)
          /\ d.rows = Decorated(x, d.header) /\ d.header \in BOOLEAN
      BY <2>2 DEF Sound, OfSequence
    <3>2. x \in RowSeqs(Keys) /\ Len(x) = Len(d.values)
      <4> DEFINE n == Len(d.values)
      <4>1. n \in Nat /\ DOMAIN d.values = 1..n /\ \A j \in 1..n : d.values[j] \in Copied
        BY <3>1, ElementOfSeq
      <4>3. /\ x = [j \in 1..n |-> x[j]]
            /\ \A j \in 1..n : x[j] = Row(d.values[j].of.key, d.values[j].rev)
        BY <4>1 DEF CopiedRows
      <4> HIDE DEF x, n
      <4>4. \A j \in 1..n : x[j] \in Rows(Keys)
        BY <4>1, <4>3 DEF Copied, Rows, Row
      <4>2. x \in Seq(Rows(Keys)) /\ Len(x) = n
        BY <4>1, <4>3, <4>4
      <4> QED BY <3>1, <4>2 DEF RowSeqs, n
    <3>3. \A j \in 1..Len(x) : LiveRow(d, j).key = x[j].key
      BY <2>2, <3>1, <3>2 DEF LiveRow, CopiedRows, Row
    <3>4. LiveSize(d) = Len(x)
      BY <2>2, <3>1, <3>2 DEF LiveSize
    <3> DEFINE e == x = <<>>
    <3> HIDE DEF x
    <3>5. e \in BOOLEAN /\ d.rows = Shown(d.header, x, e)
      BY <3>1, <3>2, DecoratedIs
    <3> HIDE DEF e
    <3> QED BY <3>2, <3>3, <3>4, <3>5
  <2> QED BY <1>2, <2>1, <2>2 DEF Sound
<1>3. CASE d.source # "none"
  <2>1. PICK x \in RowSeqs(Keys), e \in BOOLEAN :
                /\ d.rows = Shown(d.header, x, e)
                /\ LiveSize(d) = Len(x)
                /\ \A j \in 1..Len(x) : LiveRow(d, j).key = x[j].key
    BY <1>2, <1>3
  <2> DEFINE s == Shown(d.header, x, e)
             lead == Len(Lead(d.header))
             foot == Len(Foot(e))
  <2>2. d.header \in BOOLEAN
    BY DEF Sound
  <2>3. /\ s \in Seq(Rows(AllKeys)) /\ Len(s) = lead + Len(x) + foot
        /\ \A j \in 1..lead : s[j].key = "__header__"
        /\ \A j \in 1..Len(x) : s[lead + j] = x[j]
        /\ \A j \in 1..foot : s[lead + Len(x) + j].key = "__empty__"
    <3>1. s \in RowSeqs(AllKeys) /\ Len(s) = lead + Len(x) + foot
      BY <2>2, ShownIs
    <3>2. \A j \in 1..lead : s[j].key = "__header__"
      BY <2>2, ShownIs
    <3>3. \A j \in 1..Len(x) : s[lead + j] = x[j]
      BY <2>2, ShownIs
    <3>4. \A j \in 1..foot : s[lead + Len(x) + j].key = "__empty__"
      BY <2>2, ShownIs
    <3> HIDE DEF s, lead, foot
    <3> QED BY <3>1, <3>2, <3>3, <3>4 DEF RowSeqs
  <2>4. lead \in Nat /\ foot \in Nat /\ Len(x) \in Nat
    <3>1. lead \in 0..1 /\ foot \in 0..1
      BY <2>2, FrameIs
    <3>2. x \in Seq(Rows(Keys))
      BY DEF RowSeqs
    <3> HIDE DEF lead, foot
    <3> QED BY <3>1, <3>2
  <2>5. LiveKey(d, i) = IF i <= lead THEN "__header__"
                        ELSE IF i - lead \in 1..Len(x) THEN LiveRow(d, i - lead).key
                        ELSE "__empty__"
    BY <2>1 DEF LiveKey
  <2>6. d.rows = s
    BY <2>1
  <2> HIDE DEF s, lead, foot
  <2>7. i \in 1..lead + Len(x) + foot
    BY <2>3, <2>4, <2>6
  <2>8. CASE i <= lead
    BY <2>3, <2>4, <2>5, <2>6, <2>7, <2>8
  <2>9. CASE i - lead \in 1..Len(x)
    <3> DEFINE j == i - lead
    <3>1. lead + j = i /\ j \in 1..Len(x) /\ ~(i <= lead)
      BY <2>4, <2>7, <2>9
    <3> HIDE DEF j
    <3>2. s[i] = x[j] /\ LiveRow(d, j).key = x[j].key
      BY <2>1, <2>3, <3>1
    <3> QED BY <2>5, <2>6, <3>1, <3>2 DEF j
  <2>10. CASE ~(i <= lead) /\ ~(i - lead \in 1..Len(x))
    <3> DEFINE j == i - lead - Len(x)
    <3>1. lead + Len(x) + j = i /\ j \in 1..foot
      BY SMTT(40), <2>4, <2>7, <2>10
    <3> HIDE DEF j
    <3>2. s[i].key = "__empty__"
      BY <2>3, <3>1
    <3> QED BY <2>5, <2>6, <2>10, <3>2
  <2> QED BY <2>8, <2>9, <2>10
<1> QED BY <1>1, <1>3

LEMMA DeliverStep ==
  ASSUME IInv, NEW v \in Views, Deliver(v)
  PROVE  IInv'
<1> DEFINE e == event[v]
           d == dataset[v]
           current == e.revision = d.revision /\ SourceIsCurrent(d)
           named == LiveKey(d, e.index)
<1>1. /\ e # NoEvent /\ Idle(v) /\ event' = [event EXCEPT ![v] = NoEvent]
      /\ UNCHANGED <<keys, entry, revision, history, dataset, previous, sent, native, wanted>>
      /\ UNCHANGED <<plain, props>>
      /\ \/ told' = told
         \/ current /\ told' = [kind |-> e.kind, shown |-> e.key, named |-> named]
  BY DEF Deliver, source
<1>2. Tables /\ Sources /\ Books(v) /\ Recalls(v)
  BY DEF IInv
<1>3. Sources' /\ (\A w \in Views : Books(w)') /\ Tables'
  BY <1>1, <1>2, BooksKept DEF Tables
<1>4. ASSUME NEW w \in Views PROVE Recalls(w)'
  <2>1. Recalls(w)
    BY DEF IInv
  <2>2. CASE w = v
    BY <1>1, <1>2, <2>2 DEF Recalls, Tables
  <2>3. CASE w # v
    BY <1>1, <1>2, <2>1, <2>3 DEF Recalls, Tables
  <2> QED BY <2>2, <2>3
<1>5. current => named = e.key
  <2> SUFFICES ASSUME current PROVE named = e.key
    OBVIOUS
  <2>1. Sound(d) /\ SourceIsCurrent(d) /\ native[v] = Held(d)
    BY <1>1, <1>2 DEF Books
  <2>2. e.index \in DOMAIN d.rows /\ e.key = d.rows[e.index].key
    BY <1>1, <1>2, <2>1 DEF Recalls, Held
  <2> HIDE DEF d, e
  <2> QED BY <1>2, <2>1, <2>2, ReadsTheShownRow
<1>6. EventsNameTheShownRow'
  <2>1. EventsNameTheShownRow
    BY DEF IInv
  <2> HIDE DEF current, named, e
  <2> QED BY <1>1, <1>5, <2>1 DEF EventsNameTheShownRow
<1>7. Settings'
  BY <1>1 DEF IInv, Settings
<1> QED BY <1>3, <1>4, <1>6, <1>7 DEF IInv

LEMMA NextHolds ==
  ASSUME IInv, [Next]_vars
  PROVE  IInv'
<1>1. CASE \E k \in Keys, i \in 1..Cardinality(Keys) : Insert(k, i) \/ Move(k, i)
  BY <1>1, InsertStep, MoveStep
<1>2. CASE \E k \in Keys : Update(k) \/ Remove1(k)
  BY <1>2, UpdateStep, RemoveStep
<1>3. CASE Clear
  BY <1>3, ClearStep
<1>4. CASE BatchBegin
  BY <1>4, QuietStep DEF BatchBegin, view, IInv, Settings
<1>5. CASE BatchEnd
  BY <1>5, QuietStep DEF BatchEnd, view, IInv, Settings
<1>6. ASSUME NEW rows \in Plain, Replace(rows) PROVE IInv'
  <2>1. rows \in Seq(Items) /\ Unique(rows)
    BY PlainIs
  <2>2. Settings'
    BY <1>6, <2>1 DEF Replace, IInv, Settings
  <2> QED BY <1>6, <2>2, QuietStep DEF Replace, view, source
<1>7. ASSUME NEW v \in Views, ViewStep(v) PROVE IInv'
  <2>1. CASE Render(v)
    BY <2>1, RenderStep
  <2>2. CASE RenderWindow(v)
    BY <2>2, QuietStep DEF RenderWindow, source, IInv, Settings
  <2>3. CASE Answer(v)
    BY <2>3, AnswerStep
  <2>4. CASE Remount(v)
    BY <2>4, RemountStep
  <2>5. CASE Deliver(v)
    BY <2>5, DeliverStep
  <2>6. ASSUME NEW p \in Props, Reprops(v, p) PROVE IInv'
    <3>1. Settings'
      BY <2>6 DEF Reprops, IInv, Settings
    <3> QED BY <2>6, <3>1, QuietStep DEF Reprops, view, source
  <2>7. CASE \E kind \in {"bind", "window"}, i \in 1..(Cardinality(Keys) + 1) : Emit(v, kind, i)
    BY <2>7, EmitStep
  <2> QED BY <1>7, <2>1, <2>2, <2>3, <2>4, <2>5, <2>6, <2>7 DEF ViewStep
<1>8. CASE UNCHANGED vars
  BY <1>8, QuietStep DEF vars, view, source, IInv, Settings
<1> QED BY <1>1, <1>2, <1>3, <1>4, <1>5, <1>6, <1>7, <1>8 DEF Next

(* In every state of _NativeList, its ListData and the native store, each    *)
(* dataset can be followed to the source's rows of now (IInv).               *)
THEOREM Invariance == Spec => []IInv
<1>1. Init => IInv
  BY InitHolds
<1>2. IInv /\ [Next]_vars => IInv'
  BY NextHolds
<1> QED BY <1>1, <1>2, PTL DEF Spec

(* _prepare_incremental, _prepare_snapshot and ListStore::prepare: whatever  *)
(* edits, expiries, clears, switched sources and remounts lie between two    *)
(* renders, the native store takes the packet of the second.                 *)
THEOREM NoPacketIsRefused == Spec => []PacketsAccepted
<1>1. IInv => PacketsAccepted
  BY DEF IInv, Books, PacketsAccepted
<1> QED BY <1>1, Invariance, PTL

(* _NativeList.scroll and source_is_current: an event the list accepts names *)
(* the row the platform showed when it was made.                             *)
THEOREM EventsNameShownRows == Spec => []EventsNameTheShownRow
<1>1. IInv => EventsNameTheShownRow
  BY DEF IInv
<1> QED BY <1>1, Invariance, PTL

---------------------------------------------------------------------------
(* The refinement: a commit carries what its render saw, and is shown.       *)
WholeList == [v \in Views |-> Prepare(v).dataset.rows]
Carried == [v \in Views |-> IF Idle(v) THEN {} ELSE {wanted[v]}]
ShownRows == [v \in Views |-> native[v].rows]

LEMMA MirrorInit ==
  ASSUME Init
  PROVE  Mirror!Init
<1>1. Carried = [v \in Views |-> {}]
  BY DEF Init, Carried, Idle
<1>2. ShownRows = [v \in Views |-> <<>>]
  BY DEF Init, ShownRows, EmptyStore
<1> QED BY <1>1, <1>2 DEF Mirror!Init, Carried, ShownRows

LEMMA MirrorStep ==
  ASSUME IInv, [Next]_vars
  PROVE  [Mirror!Next]_<<WholeList, Carried, ShownRows>>
<1>1. Tables /\ \A v \in Views : Books(v)
  BY DEF IInv
<1>2. (UNCHANGED <<sent, native, wanted>>) => Mirror!Next
  <2> SUFFICES ASSUME UNCHANGED <<sent, native, wanted>> PROVE Mirror!Change
    BY DEF Mirror!Next
  <2> QED BY DEF Mirror!Change, Idle
<1>3. ASSUME NEW v \in Views, Render(v) PROVE Mirror!Next
  <2>1. /\ wanted' = [wanted EXCEPT ![v] = Prepare(v).dataset.rows]
        /\ sent' = [sent EXCEPT ![v] = IF Prepare(v).dataset = previous[v] THEN NoPacket
                                       ELSE Packet(previous[v], Prepare(v))]
        /\ native' = native /\ Idle(v)
    BY <1>3 DEF Render, Packet
  <2>2. ShownRows' = ShownRows
    BY <2>1 DEF ShownRows
  <2>3. CASE Idle(v)'
    <3>1. ASSUME NEW w \in Views PROVE Carried'[w] = Carried[w]
      BY <1>1, <2>1, <2>3 DEF Carried, Idle, Tables
    <3>2. Carried' = Carried
      BY <3>1 DEF Carried
    <3> QED BY <2>2, <3>2 DEF Mirror!Next, Mirror!Change, Carried, ShownRows
  <2>4. CASE ~Idle(v)'
    <3>1. ASSUME NEW w \in Views
          PROVE  Carried'[w] = IF w = v THEN {WholeList[v]} ELSE Carried[w]
      BY <1>1, <2>1, <2>4 DEF Carried, Idle, Tables, WholeList
    <3>2. Carried' = [Carried EXCEPT ![v] = {WholeList[v]}]
      BY <3>1 DEF Carried
    <3>3. Carried[v] = {}
      BY <2>1 DEF Carried
    <3>4. Mirror!Send(v)
      BY <2>2, <3>2, <3>3 DEF Mirror!Send, Carried, ShownRows, WholeList
    <3> QED BY <3>4 DEF Mirror!Next
  <2> QED BY <2>3, <2>4
<1>4. ASSUME NEW v \in Views, Answer(v) PROVE Mirror!Next
  <2>1. /\ native' = [native EXCEPT ![v] = Published(native[v], sent[v])]
        /\ sent' = [sent EXCEPT ![v] = NoPacket] /\ wanted' = wanted /\ ~Idle(v)
    BY <1>1, <1>4 DEF Answer, Tables
  <2>2. Published(native[v], sent[v]).rows = wanted[v]
    BY <1>1, <2>1 DEF Books, Published
  <2>3. Carried[v] = {wanted[v]} /\ Carried[v] # {}
    BY <2>1 DEF Carried
  <2>4. (CHOOSE rows \in Carried[v] : TRUE) = wanted[v]
    BY <2>3
  <2>5. ShownRows' = [ShownRows EXCEPT ![v] = CHOOSE rows \in Carried[v] : TRUE]
    <3>1. ASSUME NEW w \in Views
          PROVE  ShownRows'[w] = IF w = v THEN wanted[v] ELSE ShownRows[w]
      BY <1>1, <2>1, <2>2 DEF ShownRows, Tables
    <3> QED BY <2>4, <3>1 DEF ShownRows
  <2>6. Carried' = [Carried EXCEPT ![v] = {}]
    <3>1. ASSUME NEW w \in Views PROVE Carried'[w] = IF w = v THEN {} ELSE Carried[w]
      BY <1>1, <2>1 DEF Carried, Idle, Tables
    <3> QED BY <3>1 DEF Carried
  <2>7. Mirror!Show(v)
    BY <2>3, <2>5, <2>6 DEF Mirror!Show, Carried, ShownRows
  <2> QED BY <2>7 DEF Mirror!Next
<1>5. ASSUME NEW v \in Views, Remount(v) PROVE Mirror!Next
  <2>1. /\ sent' = [sent EXCEPT ![v] = NoPacket] /\ native' = [native EXCEPT ![v] = EmptyStore]
        /\ wanted' = [wanted EXCEPT ![v] = <<>>]
    BY <1>5 DEF Remount
  <2>2. ShownRows' = [ShownRows EXCEPT ![v] = <<>>]
    <3>1. ASSUME NEW w \in Views PROVE ShownRows'[w] = IF w = v THEN <<>> ELSE ShownRows[w]
      BY <1>1, <2>1 DEF ShownRows, Tables, EmptyStore
    <3> QED BY <3>1 DEF ShownRows
  <2>3. Carried' = [Carried EXCEPT ![v] = {}]
    <3>1. ASSUME NEW w \in Views PROVE Carried'[w] = IF w = v THEN {} ELSE Carried[w]
      BY <1>1, <2>1 DEF Carried, Idle, Tables
    <3> QED BY <3>1 DEF Carried
  <2>4. Mirror!Drop(v)
    BY <2>2, <2>3 DEF Mirror!Drop, Carried, ShownRows
  <2> QED BY <2>4 DEF Mirror!Next
<1>6. ASSUME NEW v \in Views, ViewStep(v) PROVE Mirror!Next
  <2>1. CASE RenderWindow(v) \/ Deliver(v)
    BY <1>2, <2>1 DEF RenderWindow, Deliver
  <2>2. CASE \E p \in Props : Reprops(v, p)
    BY <1>2, <2>2 DEF Reprops, view
  <2>3. CASE \E kind \in {"bind", "window"}, i \in 1..(Cardinality(Keys) + 1) : Emit(v, kind, i)
    BY <1>2, <2>3 DEF Emit, view
  <2> QED BY <1>3, <1>4, <1>5, <1>6, <2>1, <2>2, <2>3 DEF ViewStep
<1>7. CASE \E k \in Keys, i \in 1..Cardinality(Keys) : Insert(k, i) \/ Move(k, i)
  BY <1>2, <1>7 DEF Insert, Move, Record
<1>8. CASE \E k \in Keys : Update(k) \/ Remove1(k)
  BY <1>2, <1>8 DEF Update, Remove1, Record
<1>9. CASE Clear \/ BatchBegin \/ BatchEnd
  BY <1>2, <1>9 DEF Clear, Record, BatchBegin, BatchEnd, view
<1>10. CASE \E rows \in Plain : Replace(rows)
  BY <1>2, <1>10 DEF Replace, view
<1>11. CASE UNCHANGED vars
  BY <1>2, <1>11 DEF vars, view
<1> QED BY <1>6, <1>7, <1>8, <1>9, <1>10, <1>11 DEF Next

(* The patches of a list against the whole lists its renders saw: what the   *)
(* platform shows after each answer is the list of the dataset that was      *)
(* sent, as if every commit had carried all of it.                           *)
THEOREM PatchesAreWholeLists == Spec => SendsWholeLists
<1>1. [Mirror!Next]_<<WholeList, Carried, ShownRows>> =>
        [Mirror!Next]_<<[v \in Views |-> Prepare(v).dataset.rows],
                        [v \in Views |-> IF Idle(v) THEN {} ELSE {wanted[v]}],
                        [v \in Views |-> native[v].rows]>>
  BY DEF WholeList, Carried, ShownRows
<1>2. Init => Mirror!Init
  BY MirrorInit
<1>3. IInv /\ [Next]_vars => [Mirror!Next]_<<WholeList, Carried, ShownRows>>
  BY MirrorStep
<1> QED BY <1>1, <1>2, <1>3, Invariance, PTL DEF Spec, SendsWholeLists, Mirror!Spec

---------------------------------------------------------------------------
(* The second invariant: what a list knows of its source when it has nothing *)
(* left to render, and what its rows were drawn from.                        *)
Flags ==
    /\ dirty \in [Views -> BOOLEAN] /\ subscribed \in [Views -> BOOLEAN] /\ batch \in BOOLEAN
    /\ DOMAIN observed = Views /\ DOMAIN drawn = Views /\ DOMAIN replaced = Views
    /\ notified \in Nat /\ notified <= revision

(* A dataset that copies the sequence as it is. *)
Matches(d) ==
    /\ Len(d.values) = Len(plain)
    /\ \A i \in 1..Len(plain) : d.values[i].of = ValueAt(i)
(* A list that is not to render was prepared for its props, from the sequence *)
(* there is or at the revision it observed: the last, unless a batch is open  *)
(* that has not announced it or the list does not listen yet.                 *)
Heard(v) ==
    /\ observed[v] \in Nat /\ observed[v] <= revision
    /\ subscribed[v] = (previous[v].source = "data")
    /\ ~dirty[v] /\ props[v].source = "data" =>
          /\ dataset[v].source = "data" /\ dataset[v].at = observed[v]
          /\ dataset[v].header = props[v].header
          /\ subscribed[v] => observed[v] = revision \/ (batch /\ notified # revision)
    /\ ~dirty[v] /\ props[v].source = "plain" =>
          /\ dataset[v].source = "plain" /\ dataset[v].header = props[v].header
          /\ Matches(dataset[v])

(* A row of the ListData was drawn from its item as it is, or from one of an *)
(* earlier revision, unless the item left since; a row of a sequence was     *)
(* drawn from the copy in the dataset.                                       *)
Current(x, k) ==
    /\ k \in ToSet(keys) /\ x.by.rev \in Nat /\ x.by.rev <= entry[k].rev
    /\ x.by.rev = entry[k].rev => x.value = entry[k].value
DrawsData(v) ==
    \A k \in Keys : k \notin replaced[v] /\ drawn[v][k].by.source = "data" => Current(drawn[v][k], k)
DrawsAll(v) ==
    dataset[v].source = "data" /\ dataset[v].at = revision =>
        \A k \in ToSet(keys) : drawn[v][k].by.source = "data" /\ drawn[v][k].by.rev = entry[k].rev
OfValue(x, y) == x.by.source = "plain" /\ x.by.rev = y.rev /\ x.value = y.of.value
DrawsCopies(v) ==
    /\ \A k \in Keys : drawn[v][k].by.source = "plain" =>
          \E i \in 1..Len(dataset[v].values) : dataset[v].values[i].of.key = k
    /\ \A i \in 1..Len(dataset[v].values) :
          OfValue(drawn[v][dataset[v].values[i].of.key], dataset[v].values[i])

Draws(v) == DrawsData(v) /\ DrawsAll(v) /\ DrawsCopies(v)

SInv == Flags /\ \A v \in Views : Heard(v) /\ Draws(v)

(* _notify, at the end of an edit or of a batch.                             *)
LEMMA NotifyStep ==
  ASSUME IInv, SInv, NEW rev \in Nat, NEW open \in BOOLEAN, Notify(rev, open),
         revision' = rev, batch' = open,
         rev = revision + 1 \/ (rev = revision /\ batch /\ ~open),
         UNCHANGED <<plain, props, subscribed, dataset, previous>>
  PROVE  /\ \A v \in Views : Heard(v)'
         /\ dirty' \in [Views -> BOOLEAN] /\ DOMAIN observed' = Views
         /\ notified' \in Nat /\ notified' <= revision'
<1> DEFINE hears(v) == ~open /\ notified # rev /\ subscribed[v]
                       /\ dataset[v].source = "data" /\ observed[v] # rev
<1>1. /\ notified' = IF open THEN notified ELSE rev
      /\ dirty' = [v \in Views |-> dirty[v] \/ hears(v)]
      /\ observed' = [v \in Views |-> IF hears(v) THEN rev ELSE observed[v]]
  BY DEF Notify
<1>2. Flags /\ revision \in Nat
  BY DEF SInv, IInv, Sources, JournalIs
<1>3. notified' \in Nat /\ notified' <= revision'
  BY <1>1, <1>2 DEF Flags
<1>4. ASSUME NEW v \in Views PROVE Heard(v)'
  <2>1. Heard(v)
    BY DEF SInv
  <2>2. observed'[v] = (IF hears(v) THEN rev ELSE observed[v]) /\ (dirty'[v] <=> (dirty[v] \/ hears(v)))
    BY <1>1, <1>2 DEF Flags
  <2>3. observed'[v] \in Nat /\ observed'[v] <= revision'
    BY <1>2, <2>1, <2>2 DEF Heard
  <2>4. (subscribed[v] = (previous[v].source = "data"))'
    BY <2>1 DEF Heard
  <2>5. ASSUME ~dirty'[v], props'[v].source = "data"
        PROVE  /\ dataset'[v].source = "data" /\ dataset'[v].at = observed'[v]
               /\ dataset'[v].header = props'[v].header
               /\ subscribed'[v] => observed'[v] = revision' \/ (batch' /\ notified' # revision')
    <3>1. ~dirty[v] /\ ~hears(v) /\ observed'[v] = observed[v]
      BY <2>2, <2>5
    <3>2. /\ dataset[v].source = "data" /\ dataset[v].at = observed[v]
          /\ dataset[v].header = props[v].header
          /\ subscribed[v] => observed[v] = revision \/ (batch /\ notified # revision)
      BY <2>1, <2>5, <3>1 DEF Heard
    <3>3. ASSUME subscribed[v] PROVE observed[v] = rev \/ (open /\ notified' # rev)
      <4>1. CASE open
        BY <1>1, <1>2, <4>1 DEF Flags
      <4>2. CASE ~open
        <5>1. notified = rev \/ observed[v] = rev
          BY <3>1, <3>2, <3>3, <4>2
        <5>2. rev = revision + 1 => notified # rev
          BY <1>2 DEF Flags
        <5> QED BY <3>2, <3>3, <5>1, <5>2
      <4> QED BY <4>1, <4>2
    <3> QED BY <3>1, <3>2, <3>3
  <2>6. ASSUME ~dirty'[v], props'[v].source = "plain"
        PROVE  /\ dataset'[v].source = "plain" /\ dataset'[v].header = props'[v].header
               /\ Matches(dataset[v])'
    <3>1. ~dirty[v]
      BY <2>2, <2>6
    <3> QED BY <2>1, <2>6, <3>1 DEF Heard, Matches, ValueAt
  <2> QED BY <2>3, <2>4, <2>5, <2>6 DEF Heard
<1>5. dirty' \in [Views -> BOOLEAN] /\ DOMAIN observed' = Views
  BY <1>1
<1> QED BY <1>3, <1>4, <1>5

LEMMA RecordStep ==
  ASSUME IInv, IInv', SInv, NEW c, Record(c), DOMAIN replaced' = Views,
         \A v \in Views : replaced[v] \subseteq replaced'[v],
         \A v \in Views, k \in Keys : k \in ToSet(keys) /\ k \notin replaced'[v] =>
             k \in ToSet(keys') /\ (entry'[k] = entry[k] \/ entry'[k].rev > entry[k].rev)
  PROVE  SInv'
<1>1. /\ revision' = revision + 1 /\ Notify(revision + 1, batch)
      /\ UNCHANGED <<batch, plain, props, subscribed, dataset, previous, drawn>>
  BY DEF Record
<1>2. Flags /\ revision \in Nat /\ entry \in Entries /\ entry' \in Entries
  BY DEF SInv, IInv, Sources, JournalIs
<1>3. /\ \A v \in Views : Heard(v)'
      /\ dirty' \in [Views -> BOOLEAN] /\ DOMAIN observed' = Views
      /\ notified' \in Nat /\ notified' <= revision'
  <2>1. revision + 1 \in Nat /\ batch \in BOOLEAN
    BY <1>2 DEF Flags
  <2>2. \/ revision + 1 = revision + 1
        \/ revision + 1 = revision /\ batch /\ ~batch
    OBVIOUS
  <2> QED BY <1>1, <2>1, <2>2, NotifyStep
<1>4. Flags'
  BY <1>1, <1>2, <1>3 DEF Flags
<1>5. ASSUME NEW v \in Views PROVE Draws(v)'
  <2>1. Draws(v)
    BY DEF SInv
  <2>2. DrawsData(v)'
    <3> SUFFICES ASSUME NEW k \in Keys, k \notin replaced'[v], drawn[v][k].by.source = "data"
                 PROVE  Current(drawn[v][k], k)'
      BY <1>1 DEF DrawsData
    <3>1. k \notin replaced[v]
      OBVIOUS
    <3>2. Current(drawn[v][k], k)
      BY <2>1, <3>1 DEF Draws, DrawsData
    <3>3. k \in ToSet(keys') /\ (entry'[k] = entry[k] \/ entry'[k].rev > entry[k].rev)
      BY <3>2 DEF Current
    <3>4. entry[k].rev \in Nat /\ entry'[k].rev \in Nat
      BY <1>2 DEF Entries
    <3> QED BY <1>1, <3>2, <3>3, <3>4 DEF Current
  <2>3. DrawsAll(v)'
    <3> SUFFICES ASSUME dataset[v].source = "data" PROVE dataset[v].at # revision + 1
      BY <1>1 DEF DrawsAll
    <3>1. dataset[v].at \in Nat /\ dataset[v].at <= revision
      BY SMTT(40) DEF IInv, Books, Sound, OfData, Follows
    <3> QED BY <1>2, <3>1
  <2>4. DrawsCopies(v)'
    BY <1>1, <2>1 DEF Draws, DrawsCopies, OfValue
  <2> QED BY <2>2, <2>3, <2>4 DEF Draws
<1> QED BY <1>3, <1>4, <1>5 DEF SInv

LEMMA KeptByInsert ==
  ASSUME NEW S, NEW s \in Seq(S), NEW i \in 1..Len(s) + 1, NEW e \in S, NEW x \in ToSet(s)
  PROVE  x \in ToSet(InsertAt(s, i, e))
<1> DEFINE t == InsertAt(s, i, e)
<1>1. PICK p \in 1..Len(s) : x = s[p]
  BY DEF ToSet
<1>2. /\ t \in Seq(S) /\ Len(t) = Len(s) + 1
      /\ \A j \in 1..Len(s) + 1 : t[j] = IF j < i THEN s[j] ELSE IF j = i THEN e ELSE s[j - 1]
  <2>1. \A j \in 1..Len(s) + 1 :
           InsertAt(s, i, e)[j] = IF j < i THEN s[j] ELSE IF j = i THEN e ELSE s[j - 1]
    BY Inserted
  <2>2. InsertAt(s, i, e) \in Seq(S) /\ Len(InsertAt(s, i, e)) = Len(s) + 1
    BY Inserted
  <2>3. t = InsertAt(s, i, e)
    OBVIOUS
  <2> HIDE DEF t
  <2> QED BY ONLY <2>1, <2>2, <2>3
<1> HIDE DEF t
<1>3. \E q \in 1..Len(s) + 1 : t[q] = x
  <2>1. CASE p < i
    <3>1. p \in 1..Len(s) + 1
      OBVIOUS
    <3> QED BY <1>1, <1>2, <2>1, <3>1
  <2>2. CASE ~(p < i)
    <3>0. Len(s) \in Nat /\ i \in Nat /\ p \in Nat /\ p <= Len(s) /\ i <= p
      BY <2>2
    <3>1. p + 1 \in 1..Len(s) + 1 /\ ~(p + 1 < i) /\ p + 1 # i /\ p + 1 - 1 = p
      BY <3>0
    <3>2. t[p + 1] = s[p]
      BY <1>2, <3>1
    <3> QED BY <1>1, <3>1, <3>2
  <2> QED BY <2>1, <2>2
<1>4. x \in ToSet(t)
  BY <1>2, <1>3 DEF ToSet
<1> QED BY <1>4 DEF t

LEMMA EditsKeepSInv ==
  ASSUME IInv, IInv', SInv,
         \/ \E k \in Keys, i \in 1..Cardinality(Keys) : Insert(k, i) \/ Move(k, i)
         \/ \E k \in Keys : Update(k) \/ Remove1(k)
         \/ Clear
  PROVE  SInv'
<1>1. /\ keys \in Seq(Keys) /\ Distinct(keys) /\ entry \in Entries
      /\ DOMAIN replaced = Views
  BY DEF IInv, Sources, SInv, Flags
<1>2. ASSUME NEW k \in Keys, NEW i, Insert(k, i) PROVE SInv'
  <2>1. /\ k \notin ToSet(keys) /\ i \in 1..Len(keys) + 1 /\ keys' = InsertAt(keys, i, k)
        /\ entry' = [entry EXCEPT ![k] = [rev |-> 1, value |-> revision + 1]]
        /\ Record(InsertRow(i, Row(k, 1))) /\ replaced' = replaced
    BY <1>2 DEF Insert
  <2>2. ASSUME NEW x \in ToSet(keys) PROVE x \in ToSet(keys') /\ entry'[x] = entry[x]
    <3>1. PICK p \in 1..Len(keys) : x = keys[p]
      BY <1>1 DEF ToSet
    <3>2. x \in Keys /\ x # k
      BY <1>1, <2>1, <3>1, ElementOfSeq
    <3>3. keys \in Seq(Keys) /\ i \in 1..Len(keys) + 1
      BY <1>1, <2>1
    <3>4. x \in ToSet(InsertAt(keys, i, k))
      BY <3>3, KeptByInsert
    <3>5. x \in ToSet(keys')
      BY <2>1, <3>4
    <3> QED BY <1>1, <2>1, <3>2, <3>5 DEF Entries
  <2> QED BY <1>1, <2>1, <2>2, RecordStep
<1>3. ASSUME NEW k \in Keys, NEW i, Move(k, i) PROVE SInv'
  <2>1. /\ k \in ToSet(keys) /\ i \in 1..Len(keys) /\ keys' = Reordered(keys, k, i)
        /\ Record(MoveRow(k, i)) /\ replaced' = replaced /\ entry' = entry
    BY <1>1, <1>3 DEF Move
  <2>2. PICK p \in 1..Len(keys) : k = keys[p]
    BY <1>1, <2>1 DEF ToSet
  <2>3. \A j \in 1..Len(keys) : keys[j] \in ToSet(keys')
    BY <1>1, <2>1, <2>2, SourceMove
  <2>4. \A x \in ToSet(keys) : x \in ToSet(keys')
    BY <1>1, <2>3 DEF ToSet
  <2> QED BY <1>1, <2>1, <2>4, RecordStep
<1>4. ASSUME NEW k \in Keys, Update(k) PROVE SInv'
  <2>1. /\ keys' = keys /\ replaced' = replaced /\ Record(UpdateRow(Row(k, entry[k].rev + 1)))
        /\ entry' = [entry EXCEPT ![k] = [rev |-> entry[k].rev + 1, value |-> revision + 1]]
    BY <1>1, <1>4 DEF Update, Entries
  <2>2. ASSUME NEW x \in Keys PROVE entry'[x] = entry[x] \/ entry'[x].rev > entry[x].rev
    BY <1>1, <2>1 DEF Entries
  <2> QED BY <1>1, <2>1, <2>2, RecordStep
<1>5. ASSUME NEW k \in Keys, Remove1(k) PROVE SInv'
  <2>1. /\ k \in ToSet(keys) /\ keys' = RemoveAt(keys, Position(keys, k))
        /\ entry' = [entry EXCEPT ![k] = Absent]
        /\ replaced' = [v \in Views |-> replaced[v] \cup {k}] /\ Record(DeleteRow(k))
    BY <1>5 DEF Remove1
  <2>2. PICK p \in 1..Len(keys) : k = keys[p]
    BY <1>1, <2>1 DEF ToSet
  <2>3. Position(keys, k) = p
    <3>1. DOMAIN keys = 1..Len(keys) /\ \A j \in 1..Len(keys) : keys[j] = keys[p] => j = p
      BY <1>1 DEF Distinct
    <3> QED BY <2>2, <3>1, PositionIs
  <2>4. /\ keys' \in Seq(Keys) /\ Len(keys') = Len(keys) - 1
        /\ \A j \in 1..Len(keys) - 1 : keys'[j] = IF j < p THEN keys[j] ELSE keys[j + 1]
    BY <1>1, <2>1, <2>3, Removed
  <2>5. ASSUME NEW x \in ToSet(keys), x # k PROVE x \in ToSet(keys') /\ entry'[x] = entry[x]
    <3>1. PICK q \in 1..Len(keys) : x = keys[q]
      BY <1>1 DEF ToSet
    <3>2. x \in Keys /\ q # p
      BY <1>1, <2>2, <2>5, <3>1, ElementOfSeq
    <3>3. \E j \in 1..Len(keys) - 1 : keys'[j] = x
      <4>1. CASE q < p
        <5>1. q \in 1..Len(keys) - 1
          BY <1>1, <4>1
        <5> QED BY <2>4, <3>1, <4>1, <5>1
      <4>2. CASE ~(q < p)
        <5>1. q - 1 \in 1..Len(keys) - 1 /\ ~(q - 1 < p) /\ q - 1 + 1 = q
          BY <1>1, <3>2, <4>2
        <5> QED BY <2>4, <3>1, <5>1
      <4> QED BY <4>1, <4>2
    <3>4. x \in ToSet(keys')
      BY <2>4, <3>3 DEF ToSet
    <3> QED BY <1>1, <2>1, <2>5, <3>2, <3>4 DEF Entries
  <2>6. DOMAIN replaced' = Views /\ \A v \in Views : replaced'[v] = replaced[v] \cup {k}
    BY <2>1
  <2> QED BY <2>1, <2>5, <2>6, RecordStep
<1>6. CASE Clear
  <2>1. /\ replaced' = [v \in Views |-> replaced[v] \cup ToSet(keys)]
        /\ Record(ResetRows(<<>>))
    BY <1>6 DEF Clear
  <2>2. DOMAIN replaced' = Views /\ \A v \in Views : replaced'[v] = replaced[v] \cup ToSet(keys)
    BY <2>1
  <2> QED BY <2>1, <2>2, RecordStep
<1> QED BY <1>2, <1>3, <1>4, <1>5, <1>6

---------------------------------------------------------------------------
(* What a render draws.                                                      *)
At(d, k) == {i \in 1..d.size : LiveRow(d, i).key = k}
LEMMA DrawIs ==
  ASSUME NEW v, NEW d, NEW k \in Keys
  PROVE  /\ At(d, k) = {} => Draw(v, d)[k] = Undrawn
         /\ At(d, k) # {} =>
               \E i \in At(d, k) :
                  /\ Draw(v, d)[k].by = RowInputs(d, i)
                  /\ \/ Draw(v, d)[k] = drawn[v][k]
                     \/ Draw(v, d)[k].value = LiveRow(d, i).value
<1> DEFINE i == CHOOSE i \in At(d, k) : TRUE
           x == Draw(v, d)[k]
<1>1. x = IF At(d, k) = {} THEN Undrawn
          ELSE IF drawn[v][k].by = RowInputs(d, i) THEN drawn[v][k]
               ELSE [by |-> RowInputs(d, i), value |-> LiveRow(d, i).value]
  BY DEF Draw, At
<1>2. At(d, k) # {} => i \in At(d, k)
  OBVIOUS
<1> HIDE DEF i, x
<1>3. ASSUME At(d, k) # {} PROVE x.by = RowInputs(d, i) /\ (x = drawn[v][k] \/ x.value = LiveRow(d, i).value)
  <2>1. CASE drawn[v][k].by = RowInputs(d, i)
    BY <1>1, <1>3, <2>1
  <2>2. CASE drawn[v][k].by # RowInputs(d, i)
    BY <1>1, <1>3, <2>2
  <2> QED BY <2>1, <2>2
<1>4. /\ At(d, k) = {} => x = Undrawn
      /\ At(d, k) # {} => \E j \in At(d, k) : x.by = RowInputs(d, j)
                                              /\ (x = drawn[v][k] \/ x.value = LiveRow(d, j).value)
  BY <1>1, <1>2, <1>3
<1> QED BY <1>4 DEF x

(* The rows of the ListData, through a dataset that is a live view of it.    *)
LEMMA DataDraws ==
  ASSUME Sources, NEW v, NEW d, d.source = "data", d.size \in Nat, d.size <= Len(keys), NEW k \in Keys
  PROVE  LET x == Draw(v, d)[k]
         IN  /\ x.by.source \in {"data", "none"}
             /\ x.by.source = "data" => /\ k \in ToSet(keys) /\ x.by.rev = entry[k].rev
                                        /\ x = drawn[v][k] \/ x.value = entry[k].value
             /\ d.size = Len(keys) /\ k \in ToSet(keys) => x.by.source = "data"
<1> DEFINE x == Draw(v, d)[k]
<1>1. keys \in Seq(Keys) /\ Len(keys) \in Nat
  BY DEF Sources
<1>2. ASSUME NEW i \in At(d, k)
      PROVE  /\ i \in 1..Len(keys) /\ keys[i] = k /\ LiveRow(d, i).value = entry[k].value
             /\ RowInputs(d, i).rev = entry[k].rev /\ RowInputs(d, i).source = "data"
  BY <1>1 DEF At, LiveRow, RowInputs
<1>3. d.size = Len(keys) /\ k \in ToSet(keys) => At(d, k) # {}
  <2> SUFFICES ASSUME d.size = Len(keys), k \in ToSet(keys) PROVE At(d, k) # {}
    OBVIOUS
  <2>1. PICK p \in 1..Len(keys) : k = keys[p]
    BY <1>1 DEF ToSet
  <2>2. p \in At(d, k)
    BY <2>1 DEF At, LiveRow
  <2> QED BY <2>2
<1>4. CASE At(d, k) = {}
  <2>1. x = Undrawn
    BY <1>4, DrawIs
  <2>2. x.by.source = "none"
    BY <2>1 DEF Undrawn
  <2> QED BY <1>3, <1>4, <2>2
<1>5. CASE At(d, k) # {}
  <2>1. PICK i \in At(d, k) : x.by = RowInputs(d, i) /\ (x = drawn[v][k] \/ x.value = LiveRow(d, i).value)
    BY <1>5, DrawIs
  <2> HIDE DEF x
  <2>2. /\ i \in 1..Len(keys) /\ keys[i] = k /\ LiveRow(d, i).value = entry[k].value
        /\ RowInputs(d, i).rev = entry[k].rev /\ RowInputs(d, i).source = "data"
    BY <1>2
  <2>3. k \in ToSet(keys)
    BY <1>1, <2>2 DEF ToSet
  <2>4. x.by.source = "data" /\ x.by.rev = entry[k].rev /\ (x = drawn[v][k] \/ x.value = entry[k].value)
    BY <2>1, <2>2
  <2> QED BY <2>3, <2>4 DEF x
<1> QED BY <1>4, <1>5

LEMMA CopiesDiffer ==
  ASSUME NEW d, d.values \in Seq(Copied), Unique(CopiedRows(d))
  PROVE  \A i, j \in 1..Len(d.values) : d.values[i].of.key = d.values[j].of.key => i = j
<1> DEFINE n == Len(d.values)
           rows == CopiedRows(d)
<1>1. n \in Nat /\ DOMAIN d.values = 1..n
  OBVIOUS
<1>2. DOMAIN rows = 1..n /\ \A i \in 1..n : rows[i].key = d.values[i].of.key
  BY <1>1 DEF CopiedRows, Row
<1>3. Len(rows) = n
  <2>1. rows = [i \in 1..n |-> Row(d.values[i].of.key, d.values[i].rev)]
    BY <1>1 DEF CopiedRows
  <2> HIDE DEF n
  <2> QED BY <1>1, <2>1
<1> QED BY <1>2, <1>3 DEF Unique

(* The rows of a sequence, through a dataset that is a copy of it.           *)
LEMMA PlainDraws ==
  ASSUME NEW v, NEW d, Sound(d), d.source = "plain", NEW k \in Keys
  PROVE  LET x == Draw(v, d)[k]
         IN  /\ x.by.source \in {"plain", "none"}
             /\ x.by.source = "plain" => \E i \in 1..Len(d.values) : d.values[i].of.key = k
             /\ \A i \in 1..Len(d.values) :
                   d.values[i].of.key = k =>
                      /\ x.by.source = "plain" /\ x.by.rev = d.values[i].rev
                      /\ x = drawn[v][k] \/ x.value = d.values[i].of.value
<1> DEFINE x == Draw(v, d)[k]
<1>1. /\ d.values \in Seq(Copied) /\ d.size = Len(d.values) /\ Len(d.values) \in Nat
      /\ Unique(CopiedRows(d))
  BY DEF Sound, OfSequence
<1>2. \A i, j \in 1..Len(d.values) : d.values[i].of.key = d.values[j].of.key => i = j
  BY <1>1, CopiesDiffer
<1>3. At(d, k) = {i \in 1..Len(d.values) : d.values[i].of.key = k}
  BY <1>1 DEF At, LiveRow
<1>4. ASSUME NEW i
      PROVE  /\ LiveRow(d, i).value = d.values[i].of.value
             /\ RowInputs(d, i).rev = d.values[i].rev /\ RowInputs(d, i).source = "plain"
  BY DEF LiveRow, RowInputs
<1>5. CASE At(d, k) = {}
  <2>1. x = Undrawn
    BY <1>5, DrawIs
  <2>2. x.by.source = "none"
    BY <2>1 DEF Undrawn
  <2> QED BY <1>3, <1>5, <2>2
<1>6. CASE At(d, k) # {}
  <2>1. PICK i \in At(d, k) : x.by = RowInputs(d, i) /\ (x = drawn[v][k] \/ x.value = LiveRow(d, i).value)
    BY <1>6, DrawIs
  <2> HIDE DEF x
  <2>2. x.by.source = "plain" /\ x.by.rev = d.values[i].rev /\ (x = drawn[v][k] \/ x.value = d.values[i].of.value)
    BY <1>4, <2>1
  <2>3. i \in 1..Len(d.values) /\ d.values[i].of.key = k
    BY <1>3
  <2>4. \A j \in 1..Len(d.values) : d.values[j].of.key = k => j = i
    BY <1>2, <2>3
  <2> QED BY <2>2, <2>3, <2>4 DEF x
<1> QED BY <1>5, <1>6

(* The dataset after a snapshot copies the sequence as it is, whether it is  *)
(* new or the last one, and a row that keeps its revision keeps its item.    *)
LEMMA OldIs ==
  ASSUME NEW d, d.values \in Seq(Copied), Unique(CopiedRows(d)), NEW i \in 1..Len(d.values)
  PROVE  Old(d, d.values[i].of.key) = {d.values[i]}
<1>1. DOMAIN d.values = 1..Len(d.values)
  OBVIOUS
<1>2. \A j \in 1..Len(d.values) : d.values[j].of.key = d.values[i].of.key => j = i
  BY CopiesDiffer
<1> QED BY <1>1, <1>2 DEF Old, ToSet

LEMMA RevisionGoesOn ==
  ASSUME NEW d, d.values \in Seq(Copied), Unique(CopiedRows(d)), NEW p,
         NEW i, NEW j \in 1..Len(d.values), d.values[j].of.key = plain[i].key,
         RevAt(d, p, i) = d.values[j].rev
  PROVE  d.values[j].of = ValueAt(i)
<1> DEFINE seen == CHOOSE x \in Old(d, plain[i].key) : TRUE
<1>1. Old(d, plain[i].key) = {d.values[j]}
  BY OldIs
<1>2. seen = d.values[j]
  BY <1>1
<1>3. RevAt(d, p, i) = IF d.inputs # p.inputs \/ seen.of # ValueAt(i) THEN seen.rev + 1 ELSE seen.rev
  BY <1>1 DEF RevAt
<1> HIDE DEF seen
<1>4. d.values[j] \in Copied
  BY ElementOfSeq
<1>5. d.values[j].rev \in Nat
  BY <1>4 DEF Copied
<1> QED BY <1>2, <1>3, <1>5

LEMMA SnapshotMatches ==
  ASSUME Settings, NEW d, Sound(d), NEW p \in Props
  PROVE  LET next == Snapshot(d, p).dataset
         IN  /\ next.header = p.header /\ Matches(next)
             /\ \A i \in 1..Len(next.values), j \in 1..Len(d.values) :
                   next.values[i].of.key = d.values[j].of.key /\ next.values[i].rev = d.values[j].rev =>
                      next.values[i].of.value = d.values[j].of.value
<1> DEFINE rows == Decorated(PlainRows(d, p), p.header)
           new == NextPlain(d, p)
           changed == d.source # "plain" \/ rows # d.rows
           next == Snapshot(d, p).dataset
<1>1. next = IF ~changed THEN d ELSE new
  BY DEF Snapshot, NextPlain, PlainRows, PlainValues, RevAt, Old
<1>2. p.header \in BOOLEAN /\ d.header \in BOOLEAN /\ d.values \in Seq(Copied)
      /\ plain \in Seq(Items)
  BY DEF Props, Sound, Settings
<1>3. /\ PlainRows(d, p) \in RowSeqs(Keys) /\ Len(PlainRows(d, p)) = Len(plain)
      /\ PlainValues(d, p) \in Seq(Copied) /\ Len(PlainValues(d, p)) = Len(plain)
  BY PlainRowsAre
<1>4. /\ new.header = p.header /\ new.values = PlainValues(d, p)
      /\ \A i \in 1..Len(plain) : new.values[i].of = ValueAt(i) /\ new.values[i].rev = RevAt(d, p, i)
  <2>1. new.header = p.header /\ new.values = PlainValues(d, p)
    BY DEF NextPlain
  <2>2. ASSUME NEW i \in 1..Len(plain)
        PROVE  new.values[i].of = ValueAt(i) /\ new.values[i].rev = RevAt(d, p, i)
    <3>1. i \in DOMAIN plain
      BY <1>2
    <3>2. new.values[i] = [of |-> ValueAt(i), rev |-> RevAt(d, p, i)]
      BY <2>1, <3>1 DEF PlainValues
    <3> QED BY <3>2
  <2> QED BY <2>1, <2>2
<1> HIDE DEF new, rows
<1>5. CASE ~changed
  <2>1. next = d /\ d.source = "plain" /\ d.rows = rows
    BY <1>1, <1>5
  <2>2. /\ Unique(CopiedRows(d)) /\ d.rows = Decorated(CopiedRows(d), d.header)
    BY <2>1 DEF Sound, OfSequence
  <2>3. CopiedRows(d) \in RowSeqs(Keys) /\ DOMAIN d.values = 1..Len(d.values)
        /\ Len(CopiedRows(d)) = Len(d.values)
    <3>1. ASSUME NEW i \in 1..Len(d.values) PROVE Row(d.values[i].of.key, d.values[i].rev) \in Rows(Keys)
      <4>1. d.values[i] \in Copied
        BY <1>2, ElementOfSeq
      <4> QED BY <4>1 DEF Copied, Rows, Row
    <3>2. DOMAIN d.values = 1..Len(d.values) /\ Len(d.values) \in Nat
      BY <1>2
    <3> DEFINE n == Len(d.values)
               f(i) == Row(d.values[i].of.key, d.values[i].rev)
               s == [i \in 1..n |-> f(i)]
    <3>3. s \in Seq(Rows(Keys)) /\ Len(s) = n
      <4> HIDE DEF n, f
      <4> QED BY <3>1, <3>2 DEF n, f
    <3>4. CopiedRows(d) = s
      BY <3>2 DEF CopiedRows
    <3> HIDE DEF s
    <3> QED BY <2>2, <3>2, <3>3, <3>4 DEF RowSeqs
  <2>4. d.header = p.header /\ CopiedRows(d) = PlainRows(d, p)
    BY ZenonT(60), <1>2, <1>3, <2>1, <2>2, <2>3, DecoratedOnly DEF rows
  <2>5. Len(d.values) = Len(plain)
    BY <1>3, <2>3, <2>4
  <2>6. ASSUME NEW i \in 1..Len(plain) PROVE d.values[i].of = ValueAt(i)
    <3>1. CopiedRows(d)[i] = Row(d.values[i].of.key, d.values[i].rev)
      BY <2>3, <2>5 DEF CopiedRows
    <3>2. PlainRows(d, p)[i] = Row(plain[i].key, RevAt(d, p, i))
      BY <1>2 DEF PlainRows
    <3>3. d.values[i].of.key = plain[i].key /\ RevAt(d, p, i) = d.values[i].rev
      BY <2>4, <3>1, <3>2 DEF Row
    <3>4. i \in 1..Len(d.values)
      BY <2>5
    <3> QED BY <1>2, <2>2, <3>3, <3>4, RevisionGoesOn
  <2>7. \A i, j \in 1..Len(d.values) : d.values[i].of.key = d.values[j].of.key => i = j
    BY <1>2, <2>2, CopiesDiffer
  <2>8. Matches(d)
    BY <2>5, <2>6 DEF Matches
  <2> QED BY <2>1, <2>4, <2>7, <2>8
<1>6. CASE changed
  <2>1. next = new
    BY <1>1, <1>6
  <2>2. Matches(new)
    BY <1>3, <1>4 DEF Matches
  <2>3. ASSUME NEW i \in 1..Len(new.values), NEW j \in 1..Len(d.values),
               new.values[i].of.key = d.values[j].of.key, new.values[i].rev = d.values[j].rev
        PROVE  new.values[i].of.value = d.values[j].of.value
    <3>1. d.source = "plain"
      <4>1. d.values # <<>>
        BY <1>2
      <4> QED BY <4>1 DEF Sound
    <3>2. Unique(CopiedRows(d))
      BY <3>1 DEF Sound, OfSequence
    <3>3. i \in 1..Len(plain)
      BY <1>3, <1>4
    <3>4. new.values[i].of = ValueAt(i) /\ new.values[i].rev = RevAt(d, p, i)
      BY <1>4, <3>3
    <3>5. d.values[j].of.key = plain[i].key
      BY <2>3, <3>4 DEF ValueAt
    <3>6. d.values[j].of = ValueAt(i)
      <4>1. RevAt(d, p, i) = d.values[j].rev
        BY <2>3, <3>4
      <4>2. d.values \in Seq(Copied) /\ j \in 1..Len(d.values)
        BY <1>2
      <4> HIDE DEF next, changed
      <4> QED BY ZenonT(60), <3>2, <3>5, <4>1, <4>2, RevisionGoesOn
    <3> QED BY <3>4, <3>6
  <2> QED BY <1>4, <2>1, <2>2, <2>3
<1> HIDE DEF next
<1> QED BY <1>5, <1>6 DEF next

---------------------------------------------------------------------------
(* Steps that leave a view, or what it drew, alone.                          *)
LEMMA HeardKept ==
  ASSUME NEW v \in Views, Heard(v), UNCHANGED <<source, plain>>,
         dirty'[v] = dirty[v], observed'[v] = observed[v], subscribed'[v] = subscribed[v],
         previous'[v] = previous[v], dataset'[v] = dataset[v], props'[v] = props[v]
  PROVE  Heard(v)'
BY DEF Heard, Matches, ValueAt, source

LEMMA DrawsKept ==
  ASSUME NEW v \in Views, Draws(v), UNCHANGED source,
         dataset'[v] = dataset[v], drawn'[v] = drawn[v], replaced'[v] = replaced[v]
  PROVE  Draws(v)'
<1>1. DrawsData(v)'
  BY DEF Draws, DrawsData, Current, source
<1>2. DrawsAll(v)'
  BY DEF Draws, DrawsAll, source
<1>3. DrawsCopies(v)'
  BY ZenonT(60) DEF Draws, DrawsCopies, OfValue
<1> QED BY <1>1, <1>2, <1>3 DEF Draws

(* A render of the whole list, and of its window.                            *)
LEMMA DrawsNext ==
  ASSUME Sources, NEW v \in Views, Draws(v), UNCHANGED source,
         Sound(dataset'[v]), dataset'[v].source \in {"data", "plain"},
         dataset'[v].source = "data" => dataset'[v].size <= Len(keys),
         drawn'[v] = Draw(v, dataset'[v]),
         \A k \in Keys : k \in replaced[v] /\ k \notin replaced'[v] =>
             k \notin ToSet(keys) \/ drawn'[v][k] # drawn[v][k],
         \A i \in 1..Len(dataset'[v].values), j \in 1..Len(dataset[v].values) :
             /\ dataset'[v].values[i].of.key = dataset[v].values[j].of.key
             /\ dataset'[v].values[i].rev = dataset[v].values[j].rev
             => dataset'[v].values[i].of.value = dataset[v].values[j].of.value
  PROVE  Draws(v)'
<1> DEFINE d == dataset'[v]
           y == drawn'[v]
<1>1. /\ d.size \in Nat /\ d.values \in Seq(Copied)
      /\ d.source # "plain" => d.values = <<>>
      /\ d.source = "data" => (d.at = revision => d.size = Len(keys))
  BY DEF Sound, OfData
<1>2. \A k \in Keys : y[k] = Draw(v, d)[k]
  OBVIOUS
<1>3. CASE d.source = "data"
  <2>1. ASSUME NEW k \in Keys
        PROVE  /\ y[k].by.source \in {"data", "none"}
               /\ y[k].by.source = "data" => /\ k \in ToSet(keys) /\ y[k].by.rev = entry[k].rev
                                             /\ y[k] = drawn[v][k] \/ y[k].value = entry[k].value
               /\ d.size = Len(keys) /\ k \in ToSet(keys) => y[k].by.source = "data"
    <3>1. PICK c : c = d
      OBVIOUS
    <3>2. Sources /\ c.source = "data" /\ c.size \in Nat /\ c.size <= Len(keys)
      BY <1>1, <1>3, <3>1
    <3> DEFINE x == Draw(v, c)[k]
    <3>3. /\ x.by.source \in {"data", "none"}
          /\ x.by.source = "data" => /\ k \in ToSet(keys) /\ x.by.rev = entry[k].rev
                                     /\ x = drawn[v][k] \/ x.value = entry[k].value
          /\ c.size = Len(keys) /\ k \in ToSet(keys) => x.by.source = "data"
      BY <3>2, DataDraws
    <3>4. y[k] = x
      BY <1>2, <3>1
    <3> HIDE DEF x, y, d
    <3> QED BY <3>1, <3>3, <3>4
  <2>2. DrawsData(v)'
    <3> SUFFICES ASSUME NEW k \in Keys, k \notin replaced'[v], y[k].by.source = "data"
                 PROVE  /\ k \in ToSet(keys) /\ y[k].by.rev \in Nat /\ y[k].by.rev <= entry[k].rev
                        /\ y[k].by.rev = entry[k].rev => y[k].value = entry[k].value
      BY DEF DrawsData, Current, source
    <3>1. /\ k \in ToSet(keys) /\ y[k].by.rev = entry[k].rev
          /\ y[k] = drawn[v][k] \/ y[k].value = entry[k].value
      BY <2>1
    <3>2. entry[k].rev \in Nat
      BY DEF Sources, Entries
    <3>3. y[k].value = entry[k].value
      <4>1. CASE y[k] = drawn[v][k]
        <5>1. k \notin replaced[v] /\ drawn[v][k].by.source = "data"
          BY <3>1, <4>1
        <5>2. Current(drawn[v][k], k)
          BY <5>1 DEF Draws, DrawsData
        <5> QED BY <3>1, <4>1, <5>2 DEF Current
      <4> QED BY <3>1, <4>1
    <3>4. k \in ToSet(keys) /\ y[k].by.rev \in Nat /\ y[k].by.rev <= entry[k].rev
      BY <3>1, <3>2
    <3> QED BY <3>3, <3>4
  <2>3. DrawsAll(v)'
    <3> SUFFICES ASSUME d.at = revision, NEW k \in ToSet(keys)
                 PROVE  y[k].by.source = "data" /\ y[k].by.rev = entry[k].rev
      BY DEF DrawsAll, source
    <3>1. k \in Keys
      BY DEF Sources, ToSet
    <3> QED BY <1>1, <1>3, <2>1, <3>1
  <2>4. DrawsCopies(v)'
    <3>1. d.values = <<>>
      BY <1>1, <1>3
    <3>2. \A i \in 1..Len(d.values) : FALSE
      BY <3>1
    <3> HIDE DEF d, y
    <3>3. \A k \in Keys : y[k].by.source # "plain"
      BY <2>1
    <3> QED BY <3>2, <3>3 DEF DrawsCopies, d, y
  <2> QED BY <2>2, <2>3, <2>4 DEF Draws
<1>4. CASE d.source = "plain"
  <2>1. ASSUME NEW k \in Keys
        PROVE  /\ y[k].by.source \in {"plain", "none"}
               /\ y[k].by.source = "plain" => \E i \in 1..Len(d.values) : d.values[i].of.key = k
               /\ \A i \in 1..Len(d.values) :
                     d.values[i].of.key = k =>
                        /\ y[k].by.source = "plain" /\ y[k].by.rev = d.values[i].rev
                        /\ y[k] = drawn[v][k] \/ y[k].value = d.values[i].of.value
    <3>1. PICK c : c = d
      OBVIOUS
    <3>2. Sound(c) /\ c.source = "plain"
      BY <1>4, <3>1
    <3> DEFINE x == Draw(v, c)[k]
    <3>3. /\ x.by.source \in {"plain", "none"}
          /\ x.by.source = "plain" => \E i \in 1..Len(c.values) : c.values[i].of.key = k
          /\ \A i \in 1..Len(c.values) :
                c.values[i].of.key = k =>
                   /\ x.by.source = "plain" /\ x.by.rev = c.values[i].rev
                   /\ x = drawn[v][k] \/ x.value = c.values[i].of.value
      BY <3>2, PlainDraws
    <3>4. y[k] = x
      BY <1>2, <3>1
    <3> HIDE DEF x, y, d
    <3> QED BY <3>1, <3>3, <3>4
  <2>2. DrawsData(v)' /\ DrawsAll(v)'
    <3>1. \A k \in Keys : y[k].by.source # "data"
      BY <2>1
    <3>2. DrawsData(v)'
      BY <3>1 DEF DrawsData
    <3>3. DrawsAll(v)'
      BY SMTT(40), <1>4 DEF DrawsAll
    <3> QED BY <3>2, <3>3
  <2>3. ASSUME NEW i \in 1..Len(d.values) PROVE OfValue(y[d.values[i].of.key], d.values[i])
    <3> DEFINE k == d.values[i].of.key
    <3>1. k \in Keys
      <4>1. d.values[i] \in Copied
        BY SMTT(40), <1>1, ElementOfSeq
      <4> QED BY <4>1 DEF Copied
    <3>2. /\ y[k].by.source = "plain" /\ y[k].by.rev = d.values[i].rev
          /\ y[k] = drawn[v][k] \/ y[k].value = d.values[i].of.value
      BY SMTT(40), <2>1, <3>1
    <3>3. y[k].value = d.values[i].of.value
      <4>1. CASE y[k] = drawn[v][k]
        <5>1. drawn[v][k].by.source = "plain"
          BY ZenonT(60), <3>2, <4>1
        <5>2. PICK j \in 1..Len(dataset[v].values) : dataset[v].values[j].of.key = k
          BY <3>1, <5>1 DEF Draws, DrawsCopies
        <5>3. OfValue(drawn[v][k], dataset[v].values[j])
          BY SMTT(40), <5>2 DEF Draws, DrawsCopies
        <5>4. /\ d.values[i].of.key = dataset[v].values[j].of.key
              /\ d.values[i].rev = dataset[v].values[j].rev
          BY <3>2, <4>1, <5>2, <5>3 DEF OfValue
        <5>5. d.values[i].of.value = dataset[v].values[j].of.value
          BY SMTT(40), <5>4
        <5> QED BY ZenonT(60), <4>1, <5>3, <5>5 DEF OfValue
      <4> QED BY ZenonT(60), <3>2, <4>1
    <3> QED BY <3>2, <3>3 DEF OfValue
  <2>4. DrawsCopies(v)'
    <3>1. \A k \in Keys : y[k].by.source = "plain" => \E i \in 1..Len(d.values) : d.values[i].of.key = k
      BY <2>1
    <3> HIDE DEF y, d
    <3>2. /\ \A k \in Keys : y[k].by.source = "plain" => \E i \in 1..Len(d.values) : d.values[i].of.key = k
          /\ \A i \in 1..Len(d.values) : OfValue(y[d.values[i].of.key], d.values[i])
      BY <2>3, <3>1
    <3> QED BY <3>2 DEF DrawsCopies, y, d, OfValue
  <2> QED BY <2>2, <2>4 DEF Draws
<1> QED BY <1>3, <1>4

LEMMA RenderKeepsSInv ==
  ASSUME IInv, SInv, NEW v \in Views, Render(v)
  PROVE  SInv'
<1> DEFINE next == Prepare(v).dataset
           p == props[v]
<1>1. /\ Tables /\ Sources /\ Settings /\ Books(v) /\ Flags /\ Heard(v) /\ Draws(v) /\ Idle(v)
      /\ revision \in Nat
  BY DEF IInv, SInv, Render, Sources, JournalIs
<1>2. dataset[v] = previous[v] /\ Sound(dataset[v]) /\ p \in Props
  BY <1>1 DEF Books, Settings
<1>3. /\ dataset' = [dataset EXCEPT ![v] = next]
      /\ drawn' = [drawn EXCEPT ![v] = Draw(v, next)]
      /\ dirty' = [dirty EXCEPT ![v] = FALSE]
      /\ replaced' = [replaced EXCEPT ![v] = {k \in replaced[v] : drawn'[v][k] = drawn[v][k] /\ k \in ToSet(keys)}]
      /\ observed' = [observed EXCEPT ![v] = IF props[v].source = "data" THEN revision ELSE 0]
      /\ UNCHANGED <<source, plain, props, subscribed, previous>>
  BY <1>1 DEF Render, Flags
<1>4. /\ Sound(next)
      /\ p.source = "data" => /\ next.source = "data" /\ next.at = revision /\ next.header = p.header
                              /\ next.values = <<>>
      /\ p.source = "plain" => /\ next.source = "plain" /\ next.header = p.header /\ Matches(next)
                               /\ \A i \in 1..Len(next.values), j \in 1..Len(dataset[v].values) :
                                     /\ next.values[i].of.key = dataset[v].values[j].of.key
                                     /\ next.values[i].rev = dataset[v].values[j].rev
                                     => next.values[i].of.value = dataset[v].values[j].of.value
  <2> DEFINE d == dataset[v]
  <2>1. CASE p.source = "data"
    <3>1. next = Incremental(d, p).dataset
      BY <1>2, <2>1 DEF Prepare
    <3>2. /\ Sound(Incremental(d, p).dataset) /\ Incremental(d, p).dataset.source = "data"
          /\ Incremental(d, p).dataset.at = revision /\ Incremental(d, p).dataset.header = p.header
      BY <1>1, <1>2, IncrementalIs
    <3> HIDE DEF next
    <3>3. next.values = <<>>
      BY SMTT(40), <3>1, <3>2 DEF Sound
    <3> QED BY <2>1, <3>1, <3>2, <3>3
  <2>2. CASE p.source = "plain"
    <3>1. next = Snapshot(d, p).dataset
      BY <1>2, <2>2 DEF Prepare
    <3>2. Sound(Snapshot(d, p).dataset) /\ Snapshot(d, p).dataset.source = "plain"
      BY <1>1, <1>2, SnapshotIs
    <3>3. LET new == Snapshot(d, p).dataset
          IN  /\ new.header = p.header /\ Matches(new)
              /\ \A i \in 1..Len(new.values), j \in 1..Len(d.values) :
                    new.values[i].of.key = d.values[j].of.key /\ new.values[i].rev = d.values[j].rev =>
                       new.values[i].of.value = d.values[j].of.value
      BY <1>1, <1>2, SnapshotMatches
    <3> HIDE DEF next
    <3> QED BY <2>2, <3>1, <3>2, <3>3
  <2>3. p.source \in {"data", "plain"}
    BY <1>2 DEF Props
  <2> QED BY <2>1, <2>2, <2>3
<1>5. p.source \in {"data", "plain"}
  BY <1>2 DEF Props
<1> HIDE DEF next
<1>6. /\ dataset'[v] = next /\ drawn'[v] = Draw(v, next) /\ ~dirty'[v]
      /\ replaced'[v] = {k \in replaced[v] : drawn'[v][k] = drawn[v][k] /\ k \in ToSet(keys)}
      /\ observed'[v] = IF p.source = "data" THEN revision ELSE 0
  BY <1>1, <1>3 DEF Tables, Flags
<1>7. Heard(v)'
  <2>1. /\ observed'[v] \in Nat /\ observed'[v] <= revision' /\ revision' = revision
        /\ subscribed'[v] = (previous'[v].source = "data")
    BY <1>1, <1>3, <1>6 DEF Heard, source
  <2>2. props'[v].source = "data" => /\ dataset'[v].source = "data" /\ dataset'[v].at = observed'[v]
                                     /\ dataset'[v].header = props'[v].header
                                     /\ observed'[v] = revision'
    BY <1>3, <1>4, <1>6, <2>1
  <2>3. props'[v].source = "plain" => /\ dataset'[v].source = "plain" /\ dataset'[v].header = props'[v].header
                                      /\ Matches(dataset[v])'
    BY <1>3, <1>4, <1>6 DEF Matches, ValueAt
  <2> QED BY <2>1, <2>2, <2>3 DEF Heard
<1>8. Draws(v)'
  <2>1. /\ Sound(dataset'[v]) /\ dataset'[v].source \in {"data", "plain"}
        /\ drawn'[v] = Draw(v, dataset'[v])
    BY <1>4, <1>5, <1>6
  <2>2. dataset'[v].source = "data" => dataset'[v].size <= Len(keys)
    <3> SUFFICES ASSUME next.source = "data" PROVE next.size <= Len(keys)
      BY <1>6
    <3>1. next.at = revision
      BY <1>4, <1>5
    <3>2. next.size = Len(keys) /\ Len(keys) \in Nat
      BY <1>1, <1>4, <3>1 DEF Sound, OfData, Sources
    <3> QED BY <3>2
  <2>3. \A i \in 1..Len(dataset'[v].values), j \in 1..Len(dataset[v].values) :
           /\ dataset'[v].values[i].of.key = dataset[v].values[j].of.key
           /\ dataset'[v].values[i].rev = dataset[v].values[j].rev
           => dataset'[v].values[i].of.value = dataset[v].values[j].of.value
    <3>1. CASE p.source = "data"
      <4>1. next.values = <<>>
        BY <1>4, <3>1
      <4> QED BY <1>6, <4>1
    <3>2. CASE p.source = "plain"
      BY <1>4, <1>6, <3>2
    <3> QED BY <1>5, <3>1, <3>2
  <2>4. \A k \in Keys : k \in replaced[v] /\ k \notin replaced'[v] =>
           k \notin ToSet(keys) \/ drawn'[v][k] # drawn[v][k]
    BY <1>6
  <2>5. UNCHANGED source
    BY <1>3
  <2> QED BY <1>1, <2>1, <2>2, <2>3, <2>4, <2>5, DrawsNext
<1>9. ASSUME NEW w \in Views, w # v PROVE Heard(w)' /\ Draws(w)'
  <2>1. Heard(w) /\ Draws(w)
    BY DEF SInv
  <2>2. /\ dirty'[w] = dirty[w] /\ observed'[w] = observed[w] /\ subscribed'[w] = subscribed[w]
        /\ previous'[w] = previous[w] /\ dataset'[w] = dataset[w] /\ props'[w] = props[w]
        /\ drawn'[w] = drawn[w] /\ replaced'[w] = replaced[w]
    BY <1>1, <1>3, <1>9 DEF Tables, Flags
  <2> QED BY <1>3, <2>1, <2>2, HeardKept, DrawsKept
<1>10. Flags'
  BY <1>1, <1>3 DEF Flags, source
<1> QED BY <1>7, <1>8, <1>9, <1>10 DEF SInv

(* A render of the window alone: from the dataset there is.                  *)
LEMMA WindowKeepsSInv ==
  ASSUME IInv, SInv, NEW v \in Views, RenderWindow(v)
  PROVE  SInv'
<1>1. /\ Tables /\ Sources /\ Settings /\ Books(v) /\ Flags /\ Heard(v) /\ Draws(v) /\ ~dirty[v]
  BY DEF IInv, SInv, RenderWindow
<1>2. Sound(dataset[v]) /\ props[v] \in Props
  BY <1>1 DEF Books, Settings
<1>3. UNCHANGED <<source, plain, props, dirty, observed, subscribed, dataset, previous, replaced>>
  BY DEF RenderWindow
<1>4. /\ dataset[v].source \in {"data", "plain"}
  BY <1>1, <1>2 DEF Heard, Props
<1>5. ASSUME NEW w \in Views PROVE Heard(w)'
  <2>1. Heard(w)
    BY DEF SInv
  <2> QED BY <1>3, <2>1, HeardKept
<1>6. ASSUME NEW w \in Views PROVE Draws(w)'
  <2>1. Draws(w)
    BY DEF SInv
  <2>2. CASE drawn'[w] = drawn[w]
    BY <1>3, <2>1, <2>2, DrawsKept
  <2>3. CASE drawn'[w] # drawn[w]
    <3>1. ~(LiveSize(dataset[v]) < dataset[v].size)
      BY <2>3 DEF RenderWindow
    <3>2. drawn' = [drawn EXCEPT ![v] = Draw(v, dataset[v])]
      BY <3>1 DEF RenderWindow
    <3>3. w = v /\ drawn'[v] = Draw(v, dataset[v])
      BY <1>1, <2>3, <3>2 DEF Flags
    <3>4. /\ Sound(dataset'[v]) /\ dataset'[v].source \in {"data", "plain"}
          /\ drawn'[v] = Draw(v, dataset'[v])
      BY <1>2, <1>3, <1>4, <3>3
    <3>5. dataset'[v].source = "data" => dataset'[v].size <= Len(keys)
      <4> SUFFICES ASSUME dataset[v].source = "data" PROVE dataset[v].size <= Len(keys)
        BY <1>3
      <4>1. ~(Len(keys) < dataset[v].size)
        BY <3>1 DEF LiveSize
      <4>2. dataset[v].size \in Nat /\ Len(keys) \in Nat
        BY <1>1, <1>2 DEF Sound, Sources
      <4> QED BY <4>1, <4>2
    <3>6. \A i \in 1..Len(dataset'[v].values), j \in 1..Len(dataset[v].values) :
             /\ dataset'[v].values[i].of.key = dataset[v].values[j].of.key
             /\ dataset'[v].values[i].rev = dataset[v].values[j].rev
             => dataset'[v].values[i].of.value = dataset[v].values[j].of.value
      <4> SUFFICES ASSUME NEW i \in 1..Len(dataset[v].values), NEW j \in 1..Len(dataset[v].values),
                          dataset[v].values[i].of.key = dataset[v].values[j].of.key
                   PROVE  dataset[v].values[i].of.value = dataset[v].values[j].of.value
        BY <1>3
      <4>1. dataset[v].values \in Seq(Copied) /\ dataset[v].values # <<>>
        BY <1>2 DEF Sound
      <4>2. Unique(CopiedRows(dataset[v]))
        BY <1>2, <4>1 DEF Sound, OfSequence
      <4>3. i = j
        BY <4>1, <4>2, CopiesDiffer
      <4> QED BY <4>3
    <3>7. replaced'[v] = replaced[v] /\ UNCHANGED source
      BY <1>3
    <3>8. Draws(v)'
      BY <1>1, <3>4, <3>5, <3>6, <3>7, DrawsNext
    <3> QED BY <3>3, <3>8
  <2> QED BY <2>2, <2>3
<1>7. DOMAIN drawn' = Views
  BY <1>1 DEF RenderWindow, Flags
<1>8. Flags'
  BY <1>1, <1>3, <1>7 DEF Flags, source
<1> QED BY <1>5, <1>6, <1>8 DEF SInv

(* A commit's answer: the list listens, and has looked once more.            *)
LEMMA AnswerKeepsSInv ==
  ASSUME IInv, SInv, NEW v \in Views, Answer(v)
  PROVE  SInv'
<1> DEFINE joins == props[v].source = "data" /\ dataset[v].source = "data" /\ ~subscribed[v]
           missed == joins /\ observed[v] # revision
<1>1. /\ Tables /\ Flags /\ Heard(v) /\ revision \in Nat /\ props[v] \in Props
  BY DEF IInv, SInv, Sources, JournalIs, Settings
<1>2. /\ previous' = [previous EXCEPT ![v] = dataset[v]]
      /\ subscribed' = [subscribed EXCEPT ![v] = dataset[v].source = "data"]
      /\ dirty' = [dirty EXCEPT ![v] = dirty[v] \/ missed]
      /\ observed' = [observed EXCEPT ![v] = IF missed THEN revision ELSE observed[v]]
      /\ UNCHANGED <<source, plain, props, dataset, drawn, replaced>>
  BY <1>1 DEF Answer, Flags
<1>3. /\ previous'[v] = dataset[v] /\ subscribed'[v] = (dataset[v].source = "data")
      /\ dirty'[v] = (dirty[v] \/ missed)
      /\ observed'[v] = IF missed THEN revision ELSE observed[v]
  BY <1>1, <1>2 DEF Tables, Flags
<1>4. Heard(v)'
  <2>1. /\ observed'[v] \in Nat /\ observed'[v] <= revision'
        /\ subscribed'[v] = (previous'[v].source = "data")
    BY <1>1, <1>2, <1>3 DEF Heard, source
  <2>2. ASSUME ~dirty'[v], props'[v].source = "data"
        PROVE  /\ dataset'[v].source = "data" /\ dataset'[v].at = observed'[v]
               /\ dataset'[v].header = props'[v].header
               /\ subscribed'[v] => observed'[v] = revision' \/ (batch' /\ notified' # revision')
    <3>1. ~dirty[v] /\ ~missed /\ props[v].source = "data" /\ observed'[v] = observed[v]
      BY <1>2, <1>3, <2>2
    <3>2. /\ dataset[v].source = "data" /\ dataset[v].at = observed[v] /\ dataset[v].header = props[v].header
          /\ subscribed[v] => observed[v] = revision \/ (batch /\ notified # revision)
      BY <1>1, <3>1 DEF Heard
    <3>3. observed[v] = revision \/ (batch /\ notified # revision)
      BY <3>1, <3>2
    <3> QED BY <1>2, <3>1, <3>2, <3>3 DEF source
  <2>3. ASSUME ~dirty'[v], props'[v].source = "plain"
        PROVE  /\ dataset'[v].source = "plain" /\ dataset'[v].header = props'[v].header
               /\ Matches(dataset[v])'
    <3>1. ~dirty[v] /\ props[v].source = "plain"
      BY <1>2, <1>3, <2>3
    <3> QED BY <1>1, <1>2, <3>1 DEF Heard, Matches, ValueAt
  <2> QED BY <2>1, <2>2, <2>3 DEF Heard
<1>5. ASSUME NEW w \in Views, w # v PROVE Heard(w)'
  <2>1. Heard(w)
    BY DEF SInv
  <2>2. /\ dirty'[w] = dirty[w] /\ observed'[w] = observed[w] /\ subscribed'[w] = subscribed[w]
        /\ previous'[w] = previous[w] /\ dataset'[w] = dataset[w] /\ props'[w] = props[w]
    BY <1>1, <1>2, <1>5 DEF Tables, Flags
  <2> QED BY <1>2, <2>1, <2>2, HeardKept
<1>6. ASSUME NEW w \in Views PROVE Draws(w)'
  <2>1. Draws(w)
    BY DEF SInv
  <2> QED BY <1>2, <2>1, DrawsKept
<1>7. dirty' \in [Views -> BOOLEAN] /\ subscribed' \in [Views -> BOOLEAN] /\ DOMAIN observed' = Views
  <2>1. (dirty[v] \/ missed) \in BOOLEAN /\ (dataset[v].source = "data") \in BOOLEAN
    OBVIOUS
  <2> HIDE DEF missed
  <2> QED BY <1>1, <1>2, <2>1 DEF Flags
<1>8. Flags'
  BY <1>1, <1>2, <1>7 DEF Flags, source
<1> QED BY <1>4, <1>5, <1>6, <1>8 DEF SInv

(* The rest of a turn: a batch, new props, a new sequence, a new mount.      *)
LEMMA BatchKeepsSInv ==
  ASSUME IInv, SInv, BatchBegin \/ BatchEnd
  PROVE  SInv'
<1>1. Flags /\ revision \in Nat
  BY DEF IInv, SInv, Sources, JournalIs
<1>2. UNCHANGED <<keys, entry, revision, history, plain, props, subscribed, dataset, previous, drawn, replaced>>
  BY DEF BatchBegin, BatchEnd, view
<1>3. ASSUME NEW w \in Views PROVE Draws(w)'
  <2>1. Draws(w)
    BY DEF SInv
  <2>2. DrawsData(w)'
    BY <1>2, <2>1 DEF Draws, DrawsData, Current
  <2>3. DrawsAll(w)'
    BY SMTT(40), <1>2, <2>1 DEF Draws, DrawsAll
  <2>4. DrawsCopies(w)'
    BY <1>2, <2>1 DEF Draws, DrawsCopies, OfValue
  <2> QED BY <2>2, <2>3, <2>4 DEF Draws
<1>4. CASE BatchBegin
  <2>1. ~batch /\ batch' = TRUE /\ UNCHANGED <<notified, dirty, observed>>
    BY <1>4 DEF BatchBegin
  <2>2. ASSUME NEW w \in Views PROVE Heard(w)'
    <3>1. Heard(w)
      BY DEF SInv
    <3> QED BY <1>2, <2>1, <3>1 DEF Heard, Matches, ValueAt
  <2>3. Flags'
    BY <1>1, <1>2, <2>1 DEF Flags
  <2> QED BY <1>3, <2>2, <2>3 DEF SInv
<1>5. CASE BatchEnd
  <2>1. batch /\ batch' = FALSE /\ Notify(revision, FALSE)
    BY <1>5 DEF BatchEnd
  <2>2. /\ \A v \in Views : Heard(v)'
        /\ dirty' \in [Views -> BOOLEAN] /\ DOMAIN observed' = Views
        /\ notified' \in Nat /\ notified' <= revision'
    <3>1. FALSE \in BOOLEAN /\ revision' = revision
          /\ (revision = revision + 1 \/ (revision = revision /\ batch /\ ~FALSE))
          /\ UNCHANGED <<plain, props, subscribed, dataset, previous>>
      BY <1>2, <2>1
    <3> QED BY <1>1, <2>1, <3>1, NotifyStep
  <2>3. Flags'
    BY <1>1, <1>2, <2>1, <2>2 DEF Flags
  <2> QED BY <1>3, <2>2, <2>3 DEF SInv
<1> QED BY <1>4, <1>5

LEMMA PropsKeepSInv ==
  ASSUME IInv, SInv,
         (\E rows \in Plain : Replace(rows)) \/ (\E v \in Views, p \in Props : Reprops(v, p))
  PROVE  SInv'
<1>1. Flags /\ Tables /\ props \in [Views -> Props]
  BY DEF IInv, SInv, Settings
<1>2. UNCHANGED <<source, observed, subscribed, dataset, previous, drawn, replaced>>
  BY DEF Replace, Reprops, view
<1>3. ASSUME NEW w \in Views PROVE Draws(w)'
  <2>1. Draws(w)
    BY DEF SInv
  <2> QED BY <1>2, <2>1, DrawsKept
<1>4. /\ dirty' \in [Views -> BOOLEAN]
      /\ \A w \in Views : dirty[w] => dirty'[w]
      /\ \A w \in Views : dirty'[w] \/ (props'[w] = props[w] /\ (plain' = plain \/ props[w].source # "plain"))
  <2>1. ASSUME NEW rows \in Plain, Replace(rows)
        PROVE  /\ dirty' \in [Views -> BOOLEAN]
               /\ \A w \in Views : dirty[w] => dirty'[w]
               /\ \A w \in Views : dirty'[w] \/ (props'[w] = props[w] /\ (plain' = plain \/ props[w].source # "plain"))
    BY <1>1, <2>1 DEF Replace, Flags
  <2>2. ASSUME NEW v \in Views, NEW p \in Props, Reprops(v, p)
        PROVE  /\ dirty' \in [Views -> BOOLEAN]
               /\ \A w \in Views : dirty[w] => dirty'[w]
               /\ \A w \in Views : dirty'[w] \/ (props'[w] = props[w] /\ (plain' = plain \/ props[w].source # "plain"))
    BY <1>1, <2>2 DEF Reprops, Flags
  <2> QED BY <2>1, <2>2
<1>5. ASSUME NEW w \in Views PROVE Heard(w)'
  <2>1. Heard(w)
    BY DEF SInv
  <2>2. CASE dirty'[w]
    BY <1>2, <2>1, <2>2 DEF Heard, source
  <2>3. CASE ~dirty'[w]
    <3>1. ~dirty[w] /\ props'[w] = props[w] /\ (plain' = plain \/ props[w].source # "plain")
      BY <1>4, <2>3
    <3> QED BY <1>2, <2>1, <3>1 DEF Heard, Matches, ValueAt, source
  <2> QED BY <2>2, <2>3
<1>6. Flags'
  BY <1>1, <1>2, <1>4 DEF Flags, source
<1> QED BY <1>3, <1>5, <1>6 DEF SInv

LEMMA RemountKeepsSInv ==
  ASSUME IInv, SInv, NEW v \in Views, Remount(v)
  PROVE  SInv'
<1>1. Flags /\ Tables /\ revision \in Nat
  BY DEF IInv, SInv, Sources, JournalIs
<1>2. /\ dirty' = [dirty EXCEPT ![v] = TRUE] /\ observed' = [observed EXCEPT ![v] = 0]
      /\ subscribed' = [subscribed EXCEPT ![v] = FALSE]
      /\ dataset' = [dataset EXCEPT ![v] = NoDataset] /\ previous' = [previous EXCEPT ![v] = NoDataset]
      /\ drawn' = [drawn EXCEPT ![v] = [k \in Keys |-> Undrawn]]
      /\ replaced' = [replaced EXCEPT ![v] = {}]
      /\ UNCHANGED <<source, plain, props>>
  BY DEF Remount
<1>3. /\ dirty'[v] /\ observed'[v] = 0 /\ subscribed'[v] = FALSE /\ dataset'[v] = NoDataset
      /\ previous'[v] = NoDataset /\ drawn'[v] = [k \in Keys |-> Undrawn]
  BY <1>1, <1>2 DEF Flags, Tables
<1>4. Heard(v)'
  <2>1. NoDataset.source = "none"
    BY DEF NoDataset
  <2>2. observed'[v] \in Nat /\ observed'[v] <= revision'
    BY <1>1, <1>2, <1>3 DEF source
  <2> QED BY <1>3, <2>1, <2>2 DEF Heard
<1>5. Draws(v)'
  <2>1. \A k \in Keys : drawn'[v][k].by.source = "none"
    BY <1>3 DEF Undrawn
  <2>2. dataset'[v].source = "none" /\ Len(dataset'[v].values) = 0
    BY <1>3 DEF NoDataset
  <2>3. DrawsData(v)'
    BY <2>1 DEF DrawsData
  <2>4. DrawsAll(v)'
    BY <2>2 DEF DrawsAll
  <2>5. DrawsCopies(v)'
    BY <2>1, <2>2 DEF DrawsCopies
  <2> QED BY <2>3, <2>4, <2>5 DEF Draws
<1>6. ASSUME NEW w \in Views, w # v PROVE Heard(w)' /\ Draws(w)'
  <2>1. Heard(w) /\ Draws(w)
    BY DEF SInv
  <2>2. /\ dirty'[w] = dirty[w] /\ observed'[w] = observed[w] /\ subscribed'[w] = subscribed[w]
        /\ previous'[w] = previous[w] /\ dataset'[w] = dataset[w] /\ props'[w] = props[w]
        /\ drawn'[w] = drawn[w] /\ replaced'[w] = replaced[w]
    BY <1>1, <1>2, <1>6 DEF Tables, Flags
  <2> QED BY <1>2, <2>1, <2>2, HeardKept, DrawsKept
<1>7. Flags'
  BY <1>1, <1>2 DEF Flags, source
<1> QED BY <1>4, <1>5, <1>6, <1>7 DEF SInv

LEMMA RestKeepsSInv ==
  ASSUME SInv, UNCHANGED <<source, plain, props, dirty, observed, subscribed, dataset, previous, drawn, replaced>>
  PROVE  SInv'
<1>1. ASSUME NEW w \in Views PROVE Heard(w)' /\ Draws(w)'
  <2>1. Heard(w) /\ Draws(w)
    BY DEF SInv
  <2> QED BY <2>1, HeardKept, DrawsKept
<1>2. Flags'
  BY DEF SInv, Flags, source
<1> QED BY <1>1, <1>2 DEF SInv

LEMMA SInvAtFirst ==
  ASSUME Init
  PROVE  SInv
<1>1. Flags
  <2>1. dirty \in [Views -> BOOLEAN] /\ subscribed \in [Views -> BOOLEAN] /\ batch \in BOOLEAN
    BY DEF Init
  <2>2. DOMAIN observed = Views /\ DOMAIN drawn = Views /\ DOMAIN replaced = Views
    BY DEF Init
  <2>3. notified \in Nat /\ notified <= revision
    BY DEF Init
  <2> QED BY <2>1, <2>2, <2>3 DEF Flags
<1>2. ASSUME NEW v \in Views PROVE Heard(v)
  <2>1. dirty[v] /\ observed[v] = 0 /\ subscribed[v] = FALSE /\ previous[v] = NoDataset /\ revision = 0
    BY DEF Init
  <2>2. NoDataset.source = "none"
    BY DEF NoDataset
  <2>3. observed[v] \in Nat /\ observed[v] <= revision
    BY <2>1
  <2>4. subscribed[v] = (previous[v].source = "data")
    BY <2>1, <2>2
  <2> QED BY <2>1, <2>3, <2>4 DEF Heard
<1>3. ASSUME NEW v \in Views PROVE Draws(v)
  <2>1. \A k \in Keys : drawn[v][k].by.source = "none"
    BY DEF Init, Undrawn
  <2>2. dataset[v].source = "none" /\ Len(dataset[v].values) = 0
    BY DEF Init, NoDataset
  <2> QED BY <2>1, <2>2 DEF Draws, DrawsData, DrawsAll, DrawsCopies
<1> QED BY <1>1, <1>2, <1>3 DEF SInv

LEMMA SInvHolds ==
  ASSUME IInv, IInv', SInv, [Next]_vars
  PROVE  SInv'
<1>1. CASE \E k \in Keys, i \in 1..Cardinality(Keys) : Insert(k, i) \/ Move(k, i)
  BY <1>1, EditsKeepSInv
<1>2. CASE \E k \in Keys : Update(k) \/ Remove1(k)
  BY <1>2, EditsKeepSInv
<1>3. CASE Clear
  BY <1>3, EditsKeepSInv
<1>4. CASE BatchBegin \/ BatchEnd
  BY <1>4, BatchKeepsSInv
<1>5. CASE \E rows \in Plain : Replace(rows)
  BY <1>5, PropsKeepSInv
<1>6. ASSUME NEW v \in Views, ViewStep(v) PROVE SInv'
  <2>1. CASE Render(v)
    BY <2>1, RenderKeepsSInv
  <2>2. CASE RenderWindow(v)
    BY <2>2, WindowKeepsSInv
  <2>3. CASE Answer(v)
    BY <2>3, AnswerKeepsSInv
  <2>4. CASE Remount(v)
    BY <2>4, RemountKeepsSInv
  <2>5. CASE Deliver(v)
    BY <2>5, RestKeepsSInv DEF Deliver
  <2>6. CASE \E p \in Props : Reprops(v, p)
    BY <2>6, PropsKeepSInv
  <2>7. CASE \E kind \in {"bind", "window"}, i \in 1..(Cardinality(Keys) + 1) : Emit(v, kind, i)
    BY <2>7, RestKeepsSInv DEF Emit, view
  <2> QED BY <1>6, <2>1, <2>2, <2>3, <2>4, <2>5, <2>6, <2>7 DEF ViewStep
<1>7. CASE UNCHANGED vars
  BY <1>7, RestKeepsSInv DEF vars, view
<1> QED BY <1>1, <1>2, <1>3, <1>4, <1>5, <1>6, <1>7 DEF Next

---------------------------------------------------------------------------
(* A list that has nothing left to do shows its source.                      *)
LEMMA SettledData ==
  ASSUME IInv, SInv, NEW v \in Views, Settled(v), props[v].source = "data"
  PROVE  /\ native[v].rows = Decorated(DataRows, props[v].header)
         /\ \A k \in ToSet(keys) \ replaced[v] : drawn[v][k].value = entry[k].value
<1>1. /\ Sources /\ Books(v) /\ Heard(v) /\ Draws(v) /\ Idle(v) /\ ~dirty[v] /\ ~batch
  BY DEF IInv, SInv, Settled
<1>2. /\ dataset[v] = previous[v] /\ Sound(dataset[v]) /\ native[v].rows = dataset[v].rows
  BY <1>1 DEF Books, Held
<1>3. dataset[v].source = "data" /\ dataset[v].at = revision /\ dataset[v].header = props[v].header
  BY <1>1, <1>2 DEF Heard
<1>4. native[v].rows = Decorated(DataRows, props[v].header)
  <2> DEFINE d == dataset[v]
  <2>1. Sound(d) /\ d.source = "data" /\ d.at = revision
    BY <1>2, <1>3
  <2> HIDE DEF d
  <2>2. d.rows = Decorated(DataRows, d.header)
    BY <1>1, <2>1, Unchanged
  <2> QED BY <1>2, <1>3, <2>2 DEF d
<1>5. ASSUME NEW k \in ToSet(keys) \ replaced[v] PROVE drawn[v][k].value = entry[k].value
  <2>1. k \in Keys
    BY <1>1 DEF Sources, ToSet
  <2>2. drawn[v][k].by.source = "data" /\ drawn[v][k].by.rev = entry[k].rev
    BY <1>1, <1>3 DEF Draws, DrawsAll
  <2>3. Current(drawn[v][k], k)
    BY <1>1, <2>1, <2>2 DEF Draws, DrawsData
  <2> QED BY <2>2, <2>3 DEF Current
<1> QED BY <1>4, <1>5

(* The keys of decorated rows are those of the rows.                         *)
LEMMA DecoratedKeys ==
  ASSUME NEW S, NEW a \in Seq(S), NEW b \in Seq(S), Len(a) = Len(b),
         \A i \in 1..Len(a) : a[i].key = b[i].key, NEW header \in BOOLEAN,
         Rows(AllKeys) \subseteq S
  PROVE  [i \in DOMAIN Decorated(a, header) |-> Decorated(a, header)[i].key]
           = [i \in DOMAIN Decorated(b, header) |-> Decorated(b, header)[i].key]
<1> DEFINE l == Lead(header)
           x == l \o a
           y == l \o b
<1>1. l \in Seq(S) /\ Len(l) \in Nat /\ Len(a) \in Nat
  <2>1. l \in Seq(Rows(AllKeys))
    <3>1. FALSE \in BOOLEAN
      OBVIOUS
    <3> QED BY <3>1, FrameIs
  <2> HIDE DEF l
  <2> QED BY <2>1
<1>2. (a = <<>>) <=> (b = <<>>)
  BY EmptySeq
<1>3. CASE a = <<>>
  BY <1>2, <1>3 DEF Decorated
<1>4. CASE a # <<>>
  <2>1. Decorated(a, header) = x /\ Decorated(b, header) = y
    BY <1>2, <1>4 DEF Decorated
  <2> HIDE DEF l
  <2>2. /\ x \in Seq(S) /\ Len(x) = Len(l) + Len(a)
        /\ \A j \in 1..Len(l) : x[j] = l[j]
        /\ \A j \in 1..Len(a) : x[Len(l) + j] = a[j]
    <3>1. x \in Seq(S) /\ Len(x) = Len(l) + Len(a)
      BY <1>1, Joined
    <3>2. \A j \in 1..Len(l) : x[j] = l[j]
      BY <1>1, Joined
    <3>3. \A j \in 1..Len(a) : x[Len(l) + j] = a[j]
      BY <1>1, Joined
    <3> QED BY <3>1, <3>2, <3>3
  <2>3. /\ y \in Seq(S) /\ Len(y) = Len(l) + Len(b)
        /\ \A j \in 1..Len(l) : y[j] = l[j]
        /\ \A j \in 1..Len(b) : y[Len(l) + j] = b[j]
    BY <1>1, Joined
  <2> HIDE DEF x, y
  <2>4. DOMAIN x = 1..Len(l) + Len(a) /\ DOMAIN y = 1..Len(l) + Len(a)
    BY <2>2, <2>3
  <2>5. ASSUME NEW i \in 1..Len(l) + Len(a) PROVE x[i].key = y[i].key
    <3>1. CASE i <= Len(l)
      <4>1. i \in 1..Len(l)
        BY <1>1, <3>1
      <4> QED BY <2>2, <2>3, <4>1
    <3>2. CASE ~(i <= Len(l))
      <4> DEFINE j == i - Len(l)
      <4>1. j \in 1..Len(a) /\ Len(l) + j = i
        BY <1>1, <3>2
      <4> HIDE DEF j
      <4>2. x[Len(l) + j] = a[j] /\ y[Len(l) + j] = b[j] /\ a[j].key = b[j].key
        BY <2>2, <2>3, <4>1
      <4> QED BY <4>1, <4>2
    <3> QED BY <3>1, <3>2
  <2>6. [i \in DOMAIN x |-> x[i].key] = [i \in DOMAIN y |-> y[i].key]
    BY <2>4, <2>5
  <2> QED BY <2>1, <2>6
<1> QED BY <1>3, <1>4

LEMMA SettledPlain ==
  ASSUME IInv, SInv, NEW v \in Views, Settled(v), props[v].source = "plain"
  PROVE  /\ [i \in DOMAIN native[v].rows |-> native[v].rows[i].key]
              = [i \in DOMAIN Decorated(plain, props[v].header) |-> Decorated(plain, props[v].header)[i].key]
         /\ \A k \in KeysOf(plain) : drawn[v][k].value = plain[IndexOf(plain, k)].value
<1> DEFINE d == dataset[v]
           copies == CopiedRows(d)
<1>1. /\ Settings /\ Books(v) /\ Heard(v) /\ Draws(v) /\ Idle(v) /\ ~dirty[v]
  BY DEF IInv, SInv, Settled
<1>2. /\ Sound(d) /\ native[v].rows = d.rows
  BY <1>1 DEF Books, Held
<1>3. d.source = "plain" /\ d.header = props[v].header /\ Matches(d)
  BY <1>1 DEF Heard
<1>4. /\ plain \in Seq(Items) /\ Unique(plain) /\ props[v].header \in BOOLEAN
      /\ Len(plain) \in Nat /\ DOMAIN plain = 1..Len(plain)
  BY <1>1 DEF Settings, Props
<1>5. /\ d.values \in Seq(Copied) /\ d.rows = Decorated(copies, d.header)
      /\ Len(d.values) = Len(plain)
      /\ \A i \in 1..Len(plain) : d.values[i].of = ValueAt(i)
  BY <1>2, <1>3 DEF Sound, OfSequence, Matches
<1>6. /\ copies \in Seq(Rows(AllKeys)) /\ Len(copies) = Len(plain)
      /\ \A i \in 1..Len(plain) : copies[i].key = plain[i].key
  <2>1. ASSUME NEW i \in 1..Len(plain)
        PROVE  /\ Row(d.values[i].of.key, d.values[i].rev) \in Rows(AllKeys)
               /\ d.values[i].of.key = plain[i].key
    <3>1. d.values[i] \in Copied
      BY <1>5, ElementOfSeq
    <3>2. d.values[i].of = ValueAt(i)
      BY <1>5
    <3>3. ValueAt(i).key = plain[i].key
      BY DEF ValueAt
    <3>4. d.values[i].of.key = plain[i].key
      BY <3>2, <3>3
    <3>5. d.values[i].of.key \in Keys /\ d.values[i].rev \in Nat
      BY <3>1 DEF Copied
    <3> QED BY <3>4, <3>5 DEF Rows, Row, AllKeys
  <2> DEFINE n == Len(plain)
             f(i) == Row(d.values[i].of.key, d.values[i].rev)
             s == [i \in 1..n |-> f(i)]
  <2>2. s \in Seq(Rows(AllKeys)) /\ Len(s) = n /\ \A i \in 1..n : s[i] = f(i)
    <3> HIDE DEF f, n
    <3> QED BY <1>4, <2>1 DEF f, n
  <2>3. copies = s
    <3>1. DOMAIN d.values = 1..n
      BY <1>5
    <3> QED BY <3>1 DEF CopiedRows
  <2>4. \A i \in 1..n : f(i).key = plain[i].key
    BY <2>1 DEF Row
  <2> HIDE DEF s, f, n, copies
  <2> QED BY <2>2, <2>3, <2>4 DEF n
<1>7. [i \in DOMAIN native[v].rows |-> native[v].rows[i].key]
        = [i \in DOMAIN Decorated(plain, props[v].header) |-> Decorated(plain, props[v].header)[i].key]
  <2> DEFINE S == Rows(AllKeys) \cup Items
             header == props[v].header
  <2> HIDE DEF copies
  <2>1. copies \in Seq(S) /\ plain \in Seq(S) /\ Rows(AllKeys) \subseteq S
    BY <1>4, <1>6
  <2>2. native[v].rows = Decorated(copies, header)
    BY <1>2, <1>3, <1>5
  <2>3. header \in BOOLEAN /\ Len(copies) = Len(plain) /\ \A i \in 1..Len(copies) : copies[i].key = plain[i].key
    BY <1>4, <1>6
  <2> HIDE DEF S, header
  <2>4. [i \in DOMAIN Decorated(copies, header) |-> Decorated(copies, header)[i].key]
          = [i \in DOMAIN Decorated(plain, header) |-> Decorated(plain, header)[i].key]
    BY <2>1, <2>3, DecoratedKeys
  <2> QED BY <2>2, <2>4 DEF header
<1>8. ASSUME NEW k \in KeysOf(plain) PROVE drawn[v][k].value = plain[IndexOf(plain, k)].value
  <2>1. DOMAIN KeyList(plain) = 1..Len(plain) /\ \A i \in 1..Len(plain) : KeyList(plain)[i] = plain[i].key
    BY <1>4 DEF KeyList
  <2>2. PICK i \in 1..Len(plain) : k = KeyList(plain)[i]
    BY <2>1 DEF KeysOf, ToSet
  <2>3. Position(KeyList(plain), KeyList(plain)[i]) = i
    <3>1. \A j \in 1..Len(plain) : KeyList(plain)[j] = KeyList(plain)[i] => j = i
      BY <1>4, <2>1 DEF Unique
    <3> QED BY <2>1, <3>1, PositionIs
  <2>4. IndexOf(plain, k) = i /\ k = plain[i].key
    BY <2>1, <2>2, <2>3 DEF IndexOf
  <2>5. d.values[i].of.key = k /\ d.values[i].of.value = plain[i].value /\ i \in 1..Len(d.values)
    <3>1. d.values[i].of = ValueAt(i) /\ i \in 1..Len(d.values)
      BY <1>5
    <3>2. ValueAt(i).key = plain[i].key /\ ValueAt(i).value = plain[i].value
      BY DEF ValueAt
    <3> QED BY <2>4, <3>1, <3>2
  <2>6. OfValue(drawn[v][k], d.values[i])
    BY <1>1, <2>5 DEF Draws, DrawsCopies
  <2> QED BY <2>4, <2>5, <2>6 DEF OfValue
<1> QED BY <1>7, <1>8

(* use_subscription, _notify and _ListRow: however edits, batches, renders,  *)
(* answers and new props are interleaved, a list with nothing left to do     *)
(* shows its source, and each of its rows the item that its key has now.     *)
THEOREM ListsCatchUp == Spec => []CaughtUp
<1>1. Init => SInv
  BY SInvAtFirst
<1>2. IInv /\ IInv' /\ SInv /\ [Next]_vars => SInv'
  BY SInvHolds
<1>3. IInv /\ SInv => CaughtUp
  <2> SUFFICES ASSUME IInv, SInv, NEW v \in Views, Settled(v)
               PROVE  /\ IF props[v].source = "data" THEN native[v].rows = Decorated(DataRows, props[v].header)
                         ELSE [i \in DOMAIN native[v].rows |-> native[v].rows[i].key]
                              = [i \in DOMAIN Decorated(plain, props[v].header) |->
                                    Decorated(plain, props[v].header)[i].key]
                      /\ \A k \in KeysIn(v) \ replaced[v] : drawn[v][k].value = ItemOf(v, k)
    BY DEF CaughtUp
  <2>1. CASE props[v].source = "data"
    BY <2>1, SettledData DEF KeysIn, ItemOf
  <2>2. CASE props[v].source # "data"
    <3>1. props[v].source = "plain"
      BY <2>2 DEF IInv, Settings, Props
    <3> QED BY <2>2, <3>1, SettledPlain DEF KeysIn, ItemOf
  <2> QED BY <2>1, <2>2
<1> QED BY <1>1, <1>2, <1>3, Invariance, PTL DEF Spec

---------------------------------------------------------------------------
(* The children of a container.  The patience sort: round i gives position i *)
(* a rank, the pile it went to.  A longer increasing run has higher ranks.   *)
LEMMA SegmentGrows ==
  ASSUME NEW m \in Nat,
         \A A \in SUBSET (1..m) :
            (\A k \in A : 1..k \subseteq A) => \E c \in 0..m : A = 1..c,
         NEW B \in SUBSET (1..m + 1), \A k \in B : 1..k \subseteq B
  PROVE  \E c \in 0..m + 1 : B = 1..c
<1>1. CASE m + 1 \in B
  <2>1. 1..m + 1 \subseteq B
    BY ONLY <1>1, \A k \in B : 1..k \subseteq B
  <2>2. B = 1..m + 1
    BY ONLY <2>1, B \in SUBSET (1..m + 1)
  <2>3. m + 1 \in 0..m + 1
    BY ONLY m \in Nat
  <2> QED BY ONLY <2>2, <2>3
<1>2. CASE m + 1 \notin B
  <2>1. \A k \in B : k \in 1..m
    BY ONLY <1>2, m \in Nat, B \in SUBSET (1..m + 1)
  <2>2. B \in SUBSET (1..m)
    BY ONLY <2>1
  <2>3. PICK c \in 0..m : B = 1..c
    BY ONLY <2>2, \A k \in B : 1..k \subseteq B,
            \A A \in SUBSET (1..m) :
               (\A k \in A : 1..k \subseteq A) => \E c \in 0..m : A = 1..c
  <2>4. c \in 0..m + 1
    BY ONLY c \in 0..m, m \in Nat
  <2> QED BY ONLY <2>3, <2>4
<1> QED BY ONLY <1>1, <1>2

LEMMA InitialSegment ==
  ASSUME NEW n \in Nat, NEW A \in SUBSET (1..n), \A k \in A : 1..k \subseteq A
  PROVE  Cardinality(A) \in 0..n /\ A = 1..Cardinality(A)
<1> DEFINE Segments(m) == \A B \in SUBSET (1..m) :
              (\A k \in B : 1..k \subseteq B) => \E c \in 0..m : B = 1..c
           T == {m \in Nat : Segments(m)}
<1>1. 0 \in T
  <2>1. \A B \in SUBSET (1..0) : \E c \in 0..0 : B = 1..c
    <3> SUFFICES ASSUME NEW B \in SUBSET (1..0) PROVE \E c \in 0..0 : B = 1..c
      OBVIOUS
    <3>1. B = 1..0 /\ 0 \in 0..0
      OBVIOUS
    <3> QED BY <3>1
  <2> QED BY <2>1
<1>2. ASSUME NEW m \in T PROVE m + 1 \in T
  <2> HIDE DEF Segments
  <2>1. m \in Nat /\ m + 1 \in Nat /\ Segments(m)
    BY ONLY <1>2
  <2>2. ASSUME NEW B \in SUBSET (1..m + 1), \A k \in B : 1..k \subseteq B
        PROVE  \E c \in 0..m + 1 : B = 1..c
    <3>1. \A C \in SUBSET (1..m) :
             (\A k \in C : 1..k \subseteq C) => \E c \in 0..m : C = 1..c
      BY ONLY <2>1 DEF Segments
    <3> QED BY ONLY ZenonT(60), <2>1, <2>2, <3>1, SegmentGrows
  <2>3. Segments(m + 1)
    BY ONLY <2>2 DEF Segments
  <2> QED BY ONLY <2>1, <2>3
<1>3. n \in T
  <2> HIDE DEF T
  <2>1. T \in SUBSET Nat
    BY DEF T
  <2> QED BY <1>1, <1>2, <2>1, NatSetInduction
<1>4. PICK c \in 0..n : A = 1..c
  BY <1>3
<1>5. Cardinality(1..c) = c
  BY <1>4, FS_Interval
<1> QED BY <1>4, <1>5

Rising(s) == \A k, l \in 1..Len(s) : k < l => s[k] < s[l]
Below(tops, v) == Cardinality({k \in DOMAIN tops : tops[k] < v})
LEMMA BelowIs ==
  ASSUME NEW tops \in Seq(Nat), Rising(tops), NEW v \in Nat
  PROVE  /\ Below(tops, v) \in 0..Len(tops)
         /\ \A k \in 1..Len(tops) : tops[k] < v <=> k <= Below(tops, v)
<1> DEFINE A == {k \in DOMAIN tops : tops[k] < v}
<1>1. Len(tops) \in Nat /\ DOMAIN tops = 1..Len(tops) /\ \A k \in 1..Len(tops) : tops[k] \in Nat
  OBVIOUS
<1>2. A \in SUBSET (1..Len(tops))
  BY <1>1
<1>3. ASSUME NEW k \in A, NEW l \in 1..k PROVE l \in A
  <2>1. l \in 1..Len(tops) /\ (l = k \/ l < k)
    BY <1>1, <1>3
  <2>2. tops[l] < v
    BY <1>1, <2>1 DEF Rising
  <2> QED BY <1>1, <2>1, <2>2
<1>4. \A k \in A : 1..k \subseteq A
  BY <1>3
<1> DEFINE c == Cardinality(A)
<1>5. c \in 0..Len(tops) /\ A = 1..c
  <2> HIDE DEF A
  <2> QED BY <1>1, <1>2, <1>4, InitialSegment
<1>6. Below(tops, v) = c
  BY DEF Below
<1>7. ASSUME NEW k \in 1..Len(tops) PROVE tops[k] < v <=> k <= c
  <2>1. k \in A <=> tops[k] < v
    BY <1>1
  <2> HIDE DEF A
  <2> QED BY <1>1, <1>5, <2>1
<1> QED BY <1>5, <1>6, <1>7

PutAt(s, pos, x) == IF pos > Len(s) THEN Append(s, x) ELSE [s EXCEPT ![pos] = x]
LEMMA PutIs ==
  ASSUME NEW s \in Seq(Nat), NEW pos \in 1..Len(s) + 1, NEW x \in Nat
  PROVE  /\ PutAt(s, pos, x) \in Seq(Nat)
         /\ Len(PutAt(s, pos, x)) = IF pos > Len(s) THEN pos ELSE Len(s)
         /\ PutAt(s, pos, x)[pos] = x
         /\ \A k \in 1..Len(s) : k # pos => PutAt(s, pos, x)[k] = s[k]
<1>1. Len(s) \in Nat
  OBVIOUS
<1>2. CASE pos > Len(s)
  <2>1. pos = Len(s) + 1 /\ PutAt(s, pos, x) = Append(s, x)
    BY <1>1, <1>2 DEF PutAt
  <2>2. /\ Append(s, x) \in Seq(Nat) /\ Len(Append(s, x)) = Len(s) + 1
        /\ Append(s, x)[Len(s) + 1] = x /\ \A k \in 1..Len(s) : Append(s, x)[k] = s[k]
    BY AppendProperties
  <2> QED BY ONLY <1>2, <2>1, <2>2
<1>3. CASE ~(pos > Len(s))
  <2>1. pos \in 1..Len(s) /\ PutAt(s, pos, x) = [s EXCEPT ![pos] = x]
    BY <1>1, <1>3 DEF PutAt
  <2> QED BY <1>1, <1>3, <2>1, ExceptSeq
<1> QED BY <1>2, <1>3

Ranked(earlier, r, values, j) ==
    IF r[j] = 1 THEN earlier[j] = 0
    ELSE /\ earlier[j] \in 1..j - 1
         /\ r[earlier[j]] = r[j] - 1
         /\ values[earlier[j]] < values[j]
PilesHold(p, r, values, i) ==
    /\ p.tops \in Seq(Nat) /\ p.ends \in Seq(Nat) /\ p.previous \in Seq(Nat)
    /\ Len(p.ends) = Len(p.tops) /\ Len(p.previous) = i
    /\ Rising(p.tops)
    /\ \A k \in 1..Len(p.tops) :
          p.ends[k] \in 1..i /\ r[p.ends[k]] = k /\ values[p.ends[k]] = p.tops[k]
    /\ \A j \in 1..i : r[j] \in 1..Len(p.tops) /\ p.tops[r[j]] <= values[j]
    /\ \A j \in 1..i : Ranked(p.previous, r, values, j)
    /\ \A j, k \in 1..i : j < k /\ values[j] < values[k] => r[j] < r[k]

(* One round: the position is ranked above all that are before and below it. *)
LEMMA PileStep ==
  ASSUME NEW values \in Seq(Nat), NEW i \in Nat, i + 1 <= Len(values),
         NEW p, NEW r, PilesHold(p, r, values, i)
  PROVE  \E q : PilesHold(Pile(p, values[i + 1]), q, values, i + 1)
<1> DEFINE v == values[i + 1]
           c == Below(p.tops, v)
           pos == 1 + c
           n == Len(p.tops)
           q == [j \in 1..i + 1 |-> IF j = i + 1 THEN pos ELSE r[j]]
           before == IF pos = 1 THEN 0 ELSE p.ends[pos - 1]
           tops == PutAt(p.tops, pos, v)
           ends == PutAt(p.ends, pos, i + 1)
           earlier == Append(p.previous, before)
<1>0. /\ p.tops \in Seq(Nat) /\ p.ends \in Seq(Nat) /\ p.previous \in Seq(Nat)
      /\ Len(p.ends) = n /\ Len(p.previous) = i /\ n \in Nat
      /\ Rising(p.tops)
  BY DEF PilesHold
<1>1. /\ \A k \in 1..n : p.ends[k] \in 1..i /\ r[p.ends[k]] = k /\ values[p.ends[k]] = p.tops[k]
      /\ \A j \in 1..i : r[j] \in 1..n /\ p.tops[r[j]] <= values[j]
      /\ \A j \in 1..i : Ranked(p.previous, r, values, j)
      /\ \A j, k \in 1..i : j < k /\ values[j] < values[k] => r[j] < r[k]
  BY DEF PilesHold
<1>2. v \in Nat /\ \A j \in 1..Len(values) : values[j] \in Nat
  BY ElementOfSeq
<1>2a. \A j \in 1..i : j \in 1..Len(values) /\ values[j] \in Nat
  BY <1>2
<1>2b. \A k \in 1..n : p.tops[k] \in Nat
  BY SMTT(40), <1>0
<1>3. c \in 0..n /\ \A k \in 1..n : p.tops[k] < v <=> k <= c
  BY <1>0, <1>2, BelowIs
<1>4. Pile(p, v) = [tops |-> tops, ends |-> ends, previous |-> earlier]
  <2>1. \A s, x : PutAt(s, pos, x) = IF pos > Len(s) THEN Append(s, x) ELSE [s EXCEPT ![pos] = x]
    BY DEF PutAt
  <2>2. Len(p.previous) + 1 = i + 1
    BY <1>0
  <2> QED BY <2>1, <2>2 DEF Pile, Below
<1> HIDE DEF c
<1>5. before \in Nat
  <2>1. CASE c = 0
    BY <2>1
  <2>2. CASE c # 0
    <3>1. c \in 1..n /\ pos # 1 /\ pos - 1 = c
      BY <1>0, <1>3, <2>2
    <3>2. p.ends[c] \in 1..i
      BY <1>1, <3>1
    <3> QED BY <3>1, <3>2
  <2> QED BY <2>1, <2>2
<1>5a. pos = 1 + c /\ pos \in 1..n + 1 /\ pos - 1 = c
  BY <1>0, <1>3
<1>5b. v = values[i + 1]
  OBVIOUS
<1> HIDE DEF pos, v
<1>6. /\ tops \in Seq(Nat) /\ Len(tops) = IF pos > n THEN pos ELSE n
      /\ tops[pos] = v /\ \A k \in 1..n : k # pos => tops[k] = p.tops[k]
  <2> HIDE DEF tops
  <2>1. p.tops \in Seq(Nat) /\ pos \in 1..Len(p.tops) + 1 /\ v \in Nat
    BY <1>0, <1>2, <1>5a
  <2>2. tops = PutAt(p.tops, pos, v)
    BY DEF tops
  <2> QED BY ZenonT(60), <2>1, <2>2, PutIs
<1>7. /\ ends \in Seq(Nat) /\ Len(ends) = IF pos > n THEN pos ELSE n
      /\ ends[pos] = i + 1 /\ \A k \in 1..n : k # pos => ends[k] = p.ends[k]
  <2> HIDE DEF ends
  <2>1. p.ends \in Seq(Nat) /\ pos \in 1..Len(p.ends) + 1 /\ i + 1 \in Nat /\ Len(p.ends) = n
    BY <1>0, <1>5a
  <2>2. ends = PutAt(p.ends, pos, i + 1)
    BY DEF ends
  <2>3. /\ ends \in Seq(Nat) /\ Len(ends) = IF pos > Len(p.ends) THEN pos ELSE Len(p.ends)
        /\ ends[pos] = i + 1 /\ \A k \in 1..Len(p.ends) : k # pos => ends[k] = p.ends[k]
    <3> DEFINE x == i + 1
    <3>1. x \in Nat
      BY <2>1
    <3>2. ends = PutAt(p.ends, pos, x)
      BY <2>2
    <3> HIDE DEF x
    <3>3. /\ ends \in Seq(Nat) /\ Len(ends) = IF pos > Len(p.ends) THEN pos ELSE Len(p.ends)
          /\ ends[pos] = x /\ \A k \in 1..Len(p.ends) : k # pos => ends[k] = p.ends[k]
      BY ZenonT(60), <2>1, <3>1, <3>2, PutIs
    <3> QED BY <3>3 DEF x
  <2> QED BY <2>1, <2>3
<1>8. /\ earlier \in Seq(Nat) /\ Len(earlier) = i + 1
      /\ earlier[i + 1] = before /\ \A j \in 1..i : earlier[j] = p.previous[j]
  <2> HIDE DEF before
  <2> QED BY <1>0, <1>5, AppendProperties
<1>9. /\ q[i + 1] = pos /\ \A j \in 1..i : q[j] = r[j]
  OBVIOUS
<1> HIDE DEF tops, ends, earlier, q
<1> DEFINE m == Len(tops)
<1>10. pos \in 1..m /\ 1..n \subseteq 1..m /\ m \in Nat /\ \A k \in 1..m : k \in 1..n \/ k = pos
  <2>1. m = (IF pos > n THEN pos ELSE n) /\ m \in Nat /\ n \in Nat
    BY <1>0, <1>6
  <2> HIDE DEF m, n
  <2> QED BY SMTT(40), <1>5a, <2>1
<1>11. Rising(tops)
  <2> SUFFICES ASSUME NEW k \in 1..m, NEW l \in 1..m, k < l PROVE tops[k] < tops[l]
    BY DEF Rising
  <2>1. CASE k = pos
    <3>1. l \in 1..n /\ l # pos /\ ~(p.tops[l] < v) /\ l > c
      BY <1>3, <1>5a, <1>10, <2>1
    <3>2. CASE pos \in 1..n
      <4>1. p.tops[pos] < p.tops[l]
        BY <1>0, <2>1, <3>1, <3>2 DEF Rising
      <4>2. ~(p.tops[pos] < v)
        BY <1>3, <1>5a, <3>2
      <4>3. tops[k] = v /\ tops[l] = p.tops[l]
        BY <1>6, <2>1, <3>1
      <4>4. v \in Nat /\ p.tops[pos] \in Nat /\ p.tops[l] \in Nat
        BY <1>2, <1>2b, <3>1, <3>2
      <4> QED BY SMTT(40), <4>1, <4>2, <4>3, <4>4
    <3>3. CASE pos \notin 1..n
      BY <1>0, <1>3, <1>5a, <2>1, <3>1, <3>3
    <3> QED BY <3>2, <3>3
  <2>2. CASE l = pos
    <3>1. k \in 1..n /\ k # pos /\ p.tops[k] < v
      BY <1>0, <1>3, <1>5a, <1>10, <2>2
    <3> QED BY <1>6, <2>2, <3>1
  <2>3. CASE k # pos /\ l # pos
    BY <1>0, <1>6, <1>10, <2>3 DEF Rising
  <2> QED BY <2>1, <2>2, <2>3
<1>12. ASSUME NEW k \in 1..m
       PROVE  ends[k] \in 1..i + 1 /\ q[ends[k]] = k /\ values[ends[k]] = tops[k]
  <2>1. CASE k = pos
    BY SMTT(40), <1>5b, <1>6, <1>7, <1>9, <2>1
  <2>2. CASE k # pos
    <3>1. k \in 1..n /\ ends[k] = p.ends[k] /\ tops[k] = p.tops[k] /\ p.ends[k] \in 1..i
      BY <1>1, <1>6, <1>7, <1>10, <2>2
    <3>2. r[p.ends[k]] = k /\ values[p.ends[k]] = p.tops[k] /\ q[p.ends[k]] = r[p.ends[k]]
      BY <1>1, <1>9, <3>1
    <3> QED BY <3>1, <3>2
  <2> QED BY <2>1, <2>2
<1>13. ASSUME NEW j \in 1..i + 1
       PROVE  q[j] \in 1..m /\ tops[q[j]] <= values[j]
  <2>1. CASE j = i + 1
    <3>1. q[j] = pos /\ tops[pos] = v /\ values[j] = v /\ pos \in 1..m /\ v \in Nat
      BY <1>2, <1>5b, <1>6, <1>9, <1>10, <2>1
    <3> QED BY <3>1
  <2>2. CASE j \in 1..i
    <3>1. q[j] = r[j] /\ r[j] \in 1..n /\ p.tops[r[j]] <= values[j]
      BY <1>1, <1>9, <2>2
    <3>2. CASE r[j] = pos
      <4>1. ~(p.tops[pos] < v)
        BY <1>3, <1>5a, <3>1, <3>2
      <4>2. v \in Nat /\ p.tops[pos] \in Nat /\ values[j] \in Nat /\ p.tops[pos] <= values[j]
        BY <1>2, <1>2a, <1>2b, <2>2, <3>1, <3>2
      <4>3. q[j] = pos /\ tops[pos] = v /\ pos \in 1..m
        BY <1>6, <1>10, <3>1, <3>2
      <4> QED BY <4>1, <4>2, <4>3
    <3>3. CASE r[j] # pos
      BY <1>6, <1>10, <3>1, <3>3
    <3> QED BY <3>2, <3>3
  <2>3. j = i + 1 \/ j \in 1..i
    OBVIOUS
  <2> QED BY <2>1, <2>2, <2>3
<1>14. ASSUME NEW j \in 1..i + 1 PROVE Ranked(earlier, q, values, j)
  <2>1. CASE j = i + 1
    <3>1. CASE pos = 1
      BY <1>8, <1>9, <2>1, <3>1 DEF Ranked
    <3>2. CASE pos # 1
      <4>1. c \in 1..n /\ pos - 1 = c /\ p.tops[c] < v
        BY <1>0, <1>3, <1>5a, <3>2
      <4>2. /\ earlier[j] = p.ends[c] /\ p.ends[c] \in 1..i
            /\ r[p.ends[c]] = c /\ values[p.ends[c]] = p.tops[c]
        BY <1>1, <1>8, <2>1, <3>2, <4>1
      <4>3. q[earlier[j]] = pos - 1 /\ q[j] = pos
        BY <1>9, <2>1, <4>1, <4>2
      <4>4. earlier[j] \in 1..j - 1
        BY <2>1, <4>2
      <4>5. values[earlier[j]] < values[j]
        BY <1>5b, <2>1, <4>1, <4>2
      <4>6. q[j] # 1 /\ q[earlier[j]] = q[j] - 1
        BY <3>2, <4>3
      <4> QED BY <4>4, <4>5, <4>6 DEF Ranked
    <3> QED BY <3>1, <3>2
  <2>2. CASE j \in 1..i
    <3>1. Ranked(p.previous, r, values, j) /\ earlier[j] = p.previous[j] /\ q[j] = r[j]
      BY <1>1, <1>8, <1>9, <2>2
    <3>2. ASSUME r[j] # 1 PROVE q[earlier[j]] = r[earlier[j]]
      <4>1. earlier[j] \in 1..i
        BY <2>2, <3>1, <3>2 DEF Ranked
      <4> QED BY <1>9, <4>1
    <3> QED BY <3>1, <3>2 DEF Ranked
  <2>3. j = i + 1 \/ j \in 1..i
    OBVIOUS
  <2> QED BY <2>1, <2>2, <2>3
<1>15. ASSUME NEW j \in 1..i + 1, NEW k \in 1..i + 1, j < k, values[j] < values[k]
       PROVE  q[j] < q[k]
  <2>1. j \in 1..i /\ q[j] = r[j] /\ r[j] \in 1..n /\ p.tops[r[j]] <= values[j]
    BY <1>1, <1>9, <1>15
  <2>2. CASE k = i + 1
    <3>1. p.tops[r[j]] < v
      <4>1. v \in Nat /\ values[j] \in Nat /\ p.tops[r[j]] \in Nat
        BY <1>2, <1>2a, <1>2b, <2>1
      <4>2. values[j] < v
        BY <1>5b, <1>15, <2>2
      <4> QED BY SMTT(40), <2>1, <4>1, <4>2
    <3> QED BY SMTT(40), <1>3, <1>5a, <1>9, <2>1, <2>2, <3>1
  <2>3. CASE k \in 1..i
    BY <1>1, <1>9, <1>15, <2>1, <2>3
  <2>4. k = i + 1 \/ k \in 1..i
    OBVIOUS
  <2> QED BY <2>2, <2>3, <2>4
<1>16. PilesHold([tops |-> tops, ends |-> ends, previous |-> earlier], q, values, i + 1)
  BY <1>6, <1>7, <1>8, <1>11, <1>12, <1>13, <1>14, <1>15 DEF PilesHold
<1>17. \E s : PilesHold(Pile(p, v), s, values, i + 1)
  BY <1>4, <1>16
<1> QED BY <1>5b, <1>17

SortRow(f, values, i) == IF i = 0 THEN Piles ELSE Pile(f[i - 1], values[i])
SortTable(f, values, n) == f = [i \in 0..n |-> SortRow(f, values, i)]
LEMMA SortTableExists ==
  ASSUME NEW values, NEW n \in Nat
  PROVE  \E f : SortTable(f, values, n)
<1> DEFINE T == {k \in Nat : \E f : SortTable(f, values, k)}
<1>1. 0 \in T
  <2> DEFINE f == [i \in 0..0 |-> Piles]
  <2>1. f = [i \in 0..0 |-> SortRow(f, values, i)]
    BY DEF SortRow
  <2> HIDE DEF f
  <2> QED BY <2>1 DEF SortTable
<1>2. ASSUME NEW k \in T PROVE k + 1 \in T
  <2> PICK f : SortTable(f, values, k)
    BY <1>2
  <2> DEFINE g == [i \in 0..k + 1 |-> SortRow(f, values, i)]
  <2>1. \A i \in 0..k : f[i] = SortRow(f, values, i)
    BY DEF SortTable
  <2>2. ASSUME NEW i \in 0..k + 1 PROVE g[i] = SortRow(g, values, i)
    <3>1. i # 0 => i - 1 \in 0..k /\ g[i - 1] = f[i - 1]
      BY <2>1
    <3>2. g[i] = SortRow(f, values, i)
      OBVIOUS
    <3> HIDE DEF g
    <3> QED BY <3>1, <3>2 DEF SortRow
  <2>3. g = [i \in 0..k + 1 |-> SortRow(g, values, i)]
    <3>1. g = [i \in 0..k + 1 |-> g[i]]
      OBVIOUS
    <3> HIDE DEF g
    <3> QED BY <2>2, <3>1
  <2> HIDE DEF g
  <2>4. \E h : SortTable(h, values, k + 1)
    BY <2>3 DEF SortTable
  <2> QED BY <2>4
<1> HIDE DEF T
<1>3. n \in T
  BY <1>1, <1>2, NatSetInduction DEF T
<1> QED BY <1>3 DEF T

Sorts(f, values) ==
    /\ f[0] = Piles
    /\ \A i \in 1..Len(values) : f[i] = Pile(f[i - 1], values[i])
LEMMA SortedPiles ==
  ASSUME NEW values \in Seq(Nat), NEW f, Sorts(f, values), NEW n \in 0..Len(values)
  PROVE  \E r : PilesHold(f[n], r, values, n)
<1> DEFINE T == {i \in Nat : i <= Len(values) => \E r : PilesHold(f[i], r, values, i)}
<1>0. Len(values) \in Nat
  OBVIOUS
<1>1. 0 \in T
  <2>1. f[0].tops = <<>> /\ f[0].ends = <<>> /\ f[0].previous = <<>>
    BY DEF Sorts, Piles
  <2>2. <<>> \in Seq(Nat) /\ Len(<<>>) = 0 /\ 1..0 = {}
    OBVIOUS
  <2>3. PilesHold(f[0], <<>>, values, 0)
    BY <2>1, <2>2 DEF PilesHold, Rising
  <2> QED BY <2>3
<1>2. ASSUME NEW i \in T PROVE i + 1 \in T
  <2> SUFFICES ASSUME i + 1 <= Len(values) PROVE \E r : PilesHold(f[i + 1], r, values, i + 1)
    OBVIOUS
  <2>1. i \in Nat /\ i <= Len(values) /\ i + 1 \in 1..Len(values) /\ i + 1 - 1 = i
    BY <1>0, <1>2
  <2>2. PICK r : PilesHold(f[i], r, values, i)
    BY <1>2, <2>1
  <2>3. f[i + 1] = Pile(f[i], values[i + 1])
    BY <2>1 DEF Sorts
  <2> QED BY <2>1, <2>2, <2>3, PileStep
<1> HIDE DEF T
<1>3. n \in T
  <2>1. T \in SUBSET Nat
    BY DEF T
  <2>2. Nat \subseteq T
    BY <1>1, <1>2, <2>1, NatSetInduction
  <2> QED BY <1>0, <2>2
<1> QED BY <1>0, <1>3 DEF T

(* Following the piles before leads down to position 0.                      *)
ChainRow(f, earlier, i) == IF i = 0 THEN {} ELSE f[earlier[i]] \cup {i}
ChainTable(f, earlier, n) == f = [i \in 0..n |-> ChainRow(f, earlier, i)]
LEMMA ChainTableExists ==
  ASSUME NEW earlier, NEW n \in Nat, \A i \in 1..n : earlier[i] \in 0..i - 1
  PROVE  \E f : ChainTable(f, earlier, n)
<1> DEFINE T == {k \in Nat : k <= n => \E f : ChainTable(f, earlier, k)}
<1>1. 0 \in T
  <2> DEFINE f == [i \in 0..0 |-> {}]
  <2>1. f = [i \in 0..0 |-> ChainRow(f, earlier, i)]
    BY DEF ChainRow
  <2> HIDE DEF f
  <2> QED BY <2>1 DEF ChainTable
<1>2. ASSUME NEW k \in T PROVE k + 1 \in T
  <2> SUFFICES ASSUME k + 1 <= n PROVE \E f : ChainTable(f, earlier, k + 1)
    OBVIOUS
  <2>0. k \in Nat /\ k <= n
    BY <1>2
  <2> PICK f : ChainTable(f, earlier, k)
    BY <1>2, <2>0
  <2> DEFINE g == [i \in 0..k + 1 |-> ChainRow(f, earlier, i)]
  <2>1. \A i \in 0..k : f[i] = ChainRow(f, earlier, i)
    BY DEF ChainTable
  <2>2. ASSUME NEW i \in 0..k + 1 PROVE g[i] = ChainRow(g, earlier, i)
    <3>1. i # 0 => g[earlier[i]] = f[earlier[i]]
      <4>1. SUFFICES ASSUME i # 0 PROVE g[earlier[i]] = f[earlier[i]]
        OBVIOUS
      <4>2. earlier[i] \in 0..k /\ earlier[i] \in 0..k + 1
        BY <2>0, <4>1
      <4> QED BY <2>1, <4>2
    <3>2. g[i] = ChainRow(f, earlier, i)
      OBVIOUS
    <3> HIDE DEF g
    <3> QED BY <3>1, <3>2 DEF ChainRow
  <2>3. g = [i \in 0..k + 1 |-> ChainRow(g, earlier, i)]
    <3>1. g = [i \in 0..k + 1 |-> g[i]]
      OBVIOUS
    <3> HIDE DEF g
    <3> QED BY <2>2, <3>1
  <2> HIDE DEF g
  <2>4. \E h : ChainTable(h, earlier, k + 1)
    BY <2>3 DEF ChainTable
  <2> QED BY <2>4
<1> HIDE DEF T
<1>3. n \in T
  <2>1. T \in SUBSET Nat
    BY DEF T
  <2> QED BY <1>1, <1>2, <2>1, NatSetInduction
<1> QED BY <1>3 DEF T

(* The chain of a position is an increasing run of as many as its rank, and  *)
(* the position ends it.                                                     *)
Run(part, r, values, i) ==
    /\ part \in SUBSET (1..i) /\ i \in part
    /\ \A j \in part : j # i => values[j] < values[i]
    /\ Ordered(values, part)
    /\ IsFiniteSet(part) /\ Cardinality(part) = r[i]
LEMMA ChainIs ==
  ASSUME NEW values \in Seq(Nat), NEW n \in 0..Len(values), NEW p, NEW r, PilesHold(p, r, values, n),
         NEW f, f[0] = {}, \A i \in 1..n : f[i] = f[p.previous[i]] \cup {i}, NEW i \in 1..n
  PROVE  Run(f[i], r, values, i)
<1> DEFINE T == {k \in Nat : \A j \in 1..n : j <= k => Run(f[j], r, values, j)}
<1>0. Len(values) \in Nat /\ n \in Nat /\ \A j \in 1..n : values[j] \in Nat
  BY ElementOfSeq
<1>1. 0 \in T
  BY <1>0
<1>2. ASSUME NEW k \in T PROVE k + 1 \in T
  <2> SUFFICES ASSUME k + 1 \in 1..n PROVE Run(f[k + 1], r, values, k + 1)
    BY <1>2
  <2> DEFINE x == k + 1
             y == p.previous[x]
  <2>1. x \in 1..n /\ k \in Nat
    BY <1>2
  <2>2. Ranked(p.previous, r, values, x) /\ f[x] = f[y] \cup {x} /\ r[x] \in Nat
    <3>1. r[x] \in 1..Len(p.tops) /\ p.tops \in Seq(Nat)
      BY <2>1 DEF PilesHold
    <3> QED BY SMTT(40), <2>1, <3>1 DEF PilesHold
  <2>3. CASE r[x] = 1
    <3>1. f[x] = {x}
      BY <2>2, <2>3 DEF Ranked
    <3> HIDE DEF x
    <3>2. IsFiniteSet({x}) /\ Cardinality({x}) = 1
      BY FS_Singleton
    <3>3. Run({x}, r, values, x)
      BY <1>0, <2>1, <2>3, <3>2 DEF Run, Ordered
    <3> QED BY <3>1, <3>3 DEF x
  <2>4. CASE r[x] # 1
    <3>1. y \in 1..k /\ y \in 1..n /\ r[y] = r[x] - 1 /\ values[y] < values[x]
      BY SMTT(40), <1>0, <2>1, <2>2, <2>4 DEF Ranked
    <3>2. Run(f[y], r, values, y)
      BY SMTT(40), <1>2, <3>1
    <3>3. x = k + 1
      OBVIOUS
    <3> HIDE DEF x, y
    <3>4. /\ f[y] \in SUBSET (1..y) /\ y \in f[y] /\ Ordered(values, f[y])
          /\ \A j \in f[y] : j # y => values[j] < values[y]
          /\ IsFiniteSet(f[y]) /\ Cardinality(f[y]) = r[y]
      BY <3>2 DEF Run
    <3>5. \A j \in f[y] : j \in 1..n /\ j < x /\ values[j] < values[x]
      <4> SUFFICES ASSUME NEW j \in f[y] PROVE j \in 1..n /\ j < x /\ values[j] < values[x]
        OBVIOUS
      <4>1. j \in 1..y /\ j \in 1..n
        BY <1>0, <3>1, <3>4
      <4>2. values[j] \in Nat /\ values[y] \in Nat /\ values[x] \in Nat
        BY <1>0, <2>1, <3>1, <4>1
      <4>3. j < x
        BY <2>1, <3>1, <3>3, <4>1
      <4>4. values[j] < values[x]
        BY SMTT(40), <3>1, <3>4, <4>2
      <4> QED BY <4>1, <4>3, <4>4
    <3>6. x \notin f[y] /\ f[y] \cup {x} \in SUBSET (1..x)
      BY <2>1, <3>5
    <3>7. IsFiniteSet(f[y] \cup {x}) /\ Cardinality(f[y] \cup {x}) = r[x]
      <4>1. IsFiniteSet(f[y] \cup {x}) /\ Cardinality(f[y] \cup {x}) = Cardinality(f[y]) + 1
        BY <3>4, <3>6, FS_AddElement
      <4>2. r[y] + 1 = r[x]
        BY <2>2, <3>1
      <4> QED BY <3>4, <4>1, <4>2
    <3>8. Ordered(values, f[y] \cup {x})
      <4> SUFFICES ASSUME NEW a \in f[y] \cup {x}, NEW b \in f[y] \cup {x}, a < b
                   PROVE  values[a] < values[b]
        BY DEF Ordered
      <4>1. CASE b \in f[y] /\ a \in f[y]
        BY <3>4, <4>1 DEF Ordered
      <4>2. CASE b = x /\ a \in f[y]
        BY <3>5, <4>2
      <4>3. CASE a = x
        BY <2>1, <3>5, <4>3
      <4> QED BY <4>1, <4>2, <4>3
    <3> QED BY <2>2, <3>3, <3>5, <3>6, <3>7, <3>8 DEF Run
  <2> QED BY <2>3, <2>4
<1> HIDE DEF T
<1>3. n \in T
  <2>1. T \in SUBSET Nat
    BY DEF T
  <2>2. Nat \subseteq T
    BY <1>1, <1>2, <2>1, NatSetInduction
  <2> QED BY <1>0, <2>2
<1> QED BY <1>0, <1>3 DEF T

(* No increasing run is longer than the number of piles.                     *)
LEMMA RunsAreRanked ==
  ASSUME NEW values \in Seq(Nat), NEW p, NEW r, PilesHold(p, r, values, Len(values)),
         NEW part \in SUBSET (1..Len(values)), Ordered(values, part)
  PROVE  Cardinality(part) <= Len(p.tops)
<1> DEFINE n == Len(p.tops)
           q == [j \in part |-> r[j]]
<1>1. n \in Nat /\ \A j \in part : r[j] \in 1..n
  BY DEF PilesHold
<1>2. ASSUME NEW a \in part, NEW b \in part, q[a] = q[b] PROVE a = b
  <2>1. a \in 1..Len(values) /\ b \in 1..Len(values) /\ r[a] = r[b] /\ r[a] \in Nat
    BY <1>1, <1>2
  <2>2. a < b => r[a] < r[b]
    BY <2>1 DEF Ordered, PilesHold
  <2>3. b < a => r[b] < r[a]
    BY <2>1 DEF Ordered, PilesHold
  <2> QED BY <2>1, <2>2, <2>3
<1>3. q \in Injection(part, 1..n)
  <2>1. q \in [part -> 1..n]
    BY <1>1
  <2> HIDE DEF q, n
  <2> QED BY <1>2, <2>1 DEF Injection, IsInjective
<1> HIDE DEF q, n
<1>4. IsFiniteSet(1..n) /\ Cardinality(1..n) = n
  BY <1>1, FS_Interval
<1>5. Cardinality(part) <= n
  BY <1>3, <1>4, FS_Injection
<1> QED BY <1>5 DEF n

(* LongestIncreasing is what its name says.                                  *)
LEMMA LongestIs ==
  ASSUME NEW values \in Seq(Nat)
  PROVE  /\ LongestIncreasing(values) \in SUBSET (1..Len(values))
         /\ Ordered(values, LongestIncreasing(values))
         /\ \A part \in SUBSET (1..Len(values)) :
               Ordered(values, part) => Cardinality(part) <= Cardinality(LongestIncreasing(values))
<1> DEFINE n == Len(values)
           s == CHOOSE f : SortTable(f, values, n)
           p == s[n]
           c == CHOOSE f : ChainTable(f, p.previous, n)
<1>0. n \in Nat
  OBVIOUS
<1>1. SortTable(s, values, n)
  BY <1>0, SortTableExists
<1>2. LongestIncreasing(values) = IF values = <<>> THEN {} ELSE c[Last(p.ends)]
  BY DEF LongestIncreasing, SortTable, SortRow, ChainTable, ChainRow
<1> HIDE DEF s
<1>3. Sorts(s, values)
  <2>1. \A i \in 0..n : s[i] = SortRow(s, values, i)
    BY <1>1 DEF SortTable
  <2> QED BY <2>1 DEF Sorts, SortRow
<1>4. PICK r : PilesHold(p, r, values, n)
  <2>1. n \in 0..Len(values)
    OBVIOUS
  <2> QED BY <1>3, <2>1, SortedPiles
<1> HIDE DEF p
<1>5. \A i \in 1..n : p.previous[i] \in 0..i - 1
  <2> SUFFICES ASSUME NEW i \in 1..n PROVE p.previous[i] \in 0..i - 1
    OBVIOUS
  <2>1. Ranked(p.previous, r, values, i)
    BY <1>4 DEF PilesHold
  <2> QED BY <2>1 DEF Ranked
<1>6. ChainTable(c, p.previous, n)
  BY <1>0, <1>5, ChainTableExists
<1> HIDE DEF c
<1>7. c[0] = {} /\ \A i \in 1..n : c[i] = c[p.previous[i]] \cup {i}
  <2>1. \A i \in 0..n : c[i] = ChainRow(c, p.previous, i)
    BY <1>6 DEF ChainTable
  <2>2. 0 \in 0..n /\ \A i \in 1..n : i \in 0..n /\ i # 0
    BY <1>0
  <2> HIDE DEF n
  <2> QED BY <2>1, <2>2 DEF ChainRow
<1>8. CASE values = <<>>
  <2>1. LongestIncreasing(values) = {} /\ 1..Len(values) = {}
    BY <1>2, <1>8
  <2>2. Cardinality({}) <= Cardinality({})
    BY FS_EmptySet
  <2> QED BY <2>1, <2>2 DEF Ordered
<1>9. CASE values # <<>>
  <2> DEFINE m == Len(p.tops)
             e == p.ends[m]
  <2>1. n \in 1..n
    BY <1>0, <1>9
  <2>2. r[n] \in 1..m /\ m \in Nat /\ p.ends \in Seq(Nat) /\ Len(p.ends) = m
    BY <1>4, <2>1 DEF PilesHold
  <2>3. m \in 1..m
    BY <2>2
  <2>4. e \in 1..n /\ r[e] = m
    BY <1>4, <2>3 DEF PilesHold
  <2>5. LongestIncreasing(values) = c[e]
    BY <1>2, <1>9, <2>2 DEF Last
  <2>6. Run(c[e], r, values, e)
    <3> HIDE DEF e
    <3>1. n \in 0..Len(values)
      OBVIOUS
    <3> QED BY <1>4, <1>7, <2>4, <3>1, ChainIs
  <2>7. \A part \in SUBSET (1..n) : Ordered(values, part) => Cardinality(part) <= m
    BY <1>4, RunsAreRanked
  <2>8. c[e] \in SUBSET (1..n) /\ Ordered(values, c[e]) /\ Cardinality(c[e]) = m
    BY <1>0, <2>4, <2>6 DEF Run
  <2> QED BY <2>5, <2>7, <2>8
<1> QED BY <1>8, <1>9

---------------------------------------------------------------------------
(* Plans.  Detaching and inserting a child keep the order of the others.     *)
LEMMA InSet ==
  ASSUME NEW S, NEW s \in Seq(S)
  PROVE  /\ \A x : x \in ToSet(s) <=> \E p \in 1..Len(s) : s[p] = x
         /\ ToSet(s) \in SUBSET S
<1>1. DOMAIN s = 1..Len(s) /\ \A p \in 1..Len(s) : s[p] \in S
  OBVIOUS
<1>2. ToSet(s) = {s[p] : p \in 1..Len(s)}
  BY <1>1 DEF ToSet
<1> QED BY <1>1, <1>2

LEMMA PlaceIs ==
  ASSUME NEW S, NEW s \in Seq(S), Distinct(s), NEW x \in ToSet(s)
  PROVE  /\ Position(s, x) \in 1..Len(s) /\ s[Position(s, x)] = x
         /\ \A p \in 1..Len(s) : s[p] = x => Position(s, x) = p
<1>1. PICK p \in 1..Len(s) : s[p] = x
  BY InSet
<1>2. DOMAIN s = 1..Len(s)
  OBVIOUS
<1>3. Position(s, x) \in 1..Len(s) /\ s[Position(s, x)] = x
  BY <1>1, <1>2 DEF Position
<1> QED BY <1>3 DEF Distinct

Agrees(s, after, A) ==
    \A p, q \in 1..Len(s) :
        p < q /\ s[p] \in A /\ s[q] \in A => Position(after, s[p]) < Position(after, s[q])

LEMMA DetachedIs ==
  ASSUME NEW S, NEW s \in Seq(S), Distinct(s), NEW tag \in S, NEW after, NEW A, Agrees(s, after, A)
  PROVE  /\ Detached(s, tag) \in Seq(S) /\ Distinct(Detached(s, tag))
         /\ ToSet(Detached(s, tag)) = ToSet(s) \ {tag}
         /\ Agrees(Detached(s, tag), after, A)
<1>0. Len(s) \in Nat
  OBVIOUS
<1>1. CASE tag \notin ToSet(s)
  BY <1>1 DEF Detached
<1>2. CASE tag \in ToSet(s)
  <2> DEFINE i == Position(s, tag)
             t == RemoveAt(s, i)
             at(p) == IF p < i THEN p ELSE p + 1
  <2>1. Detached(s, tag) = t
    BY <1>2 DEF Detached
  <2>2. i \in 1..Len(s) /\ s[i] = tag /\ \A p \in 1..Len(s) : s[p] = tag => p = i
    <3>1. i \in 1..Len(s) /\ s[i] = tag
      BY <1>2, PlaceIs
    <3> HIDE DEF i
    <3> QED BY <3>1 DEF Distinct
  <2> HIDE DEF i
  <2>3. t \in Seq(S) /\ Len(t) = Len(s) - 1 /\ \A p \in 1..Len(s) - 1 : t[p] = IF p < i THEN s[p] ELSE s[p + 1]
    BY <2>2, Removed
  <2> HIDE DEF t
  <2>4. \A p \in 1..Len(t) : at(p) \in 1..Len(s) /\ at(p) # i /\ t[p] = s[at(p)]
    BY <1>0, <2>2, <2>3
  <2>5. \A p, q \in 1..Len(t) : p < q => at(p) < at(q)
    BY <1>0, <2>2, <2>3
  <2>6. \A p, q \in 1..Len(t) : at(p) = at(q) => p = q
    BY <1>0, <2>2, <2>3
  <2>7. \A q \in 1..Len(s) : q # i => \E p \in 1..Len(t) : at(p) = q
    <3> SUFFICES ASSUME NEW q \in 1..Len(s), q # i PROVE \E p \in 1..Len(t) : at(p) = q
      OBVIOUS
    <3>1. CASE q < i
      <4>1. q \in 1..Len(t) /\ at(q) = q
        BY <1>0, <2>2, <2>3, <3>1
      <4> QED BY <4>1
    <3>2. CASE ~(q < i)
      <4>1. q - 1 \in 1..Len(t) /\ at(q - 1) = q
        BY <1>0, <2>2, <2>3, <3>2
      <4> QED BY <4>1
    <3> QED BY <3>1, <3>2
  <2> HIDE DEF at
  <2>8. Distinct(t)
    BY <2>4, <2>6 DEF Distinct
  <2>9. ToSet(t) = ToSet(s) \ {tag}
    <3>1. ASSUME NEW x \in ToSet(t) PROVE x \in ToSet(s) \ {tag}
      <4>1. PICK p \in 1..Len(t) : t[p] = x
        BY <2>3, <3>1, InSet
      <4>2. at(p) \in 1..Len(s) /\ s[at(p)] = x /\ at(p) # i
        BY <2>4, <4>1
      <4> QED BY <2>2, <4>2, InSet
    <3>2. ASSUME NEW x \in ToSet(s) \ {tag} PROVE x \in ToSet(t)
      <4>1. PICK q \in 1..Len(s) : s[q] = x
        BY <3>2, InSet
      <4>2. q # i
        BY <2>2, <3>2, <4>1
      <4>3. PICK p \in 1..Len(t) : at(p) = q
        BY <2>7, <4>1, <4>2
      <4>4. t[p] = x
        BY <2>4, <4>1, <4>3
      <4> QED BY <2>3, <4>4, InSet
    <3> QED BY <3>1, <3>2
  <2>10. Agrees(t, after, A)
    <3> SUFFICES ASSUME NEW p \in 1..Len(t), NEW q \in 1..Len(t), p < q, t[p] \in A, t[q] \in A
                 PROVE  Position(after, t[p]) < Position(after, t[q])
      BY DEF Agrees
    <3>1. at(p) \in 1..Len(s) /\ at(q) \in 1..Len(s) /\ at(p) < at(q)
      BY <2>4, <2>5
    <3>2. t[p] = s[at(p)] /\ t[q] = s[at(q)]
      BY <2>4
    <3> QED BY <3>1, <3>2 DEF Agrees
  <2> QED BY <2>1, <2>3, <2>8, <2>9, <2>10
<1> QED BY <1>1, <1>2

(* A child goes in front of the one that follows it, or to the end when none *)
(* follows: it is then in order with the others.                             *)
InFront(s, after, A, m, i) ==
    /\ m \in 1..Len(after) /\ after[m] \notin ToSet(s) /\ i \in 1..Len(s) + 1
    /\ IF m = Len(after) THEN i = Len(s) + 1
       ELSE i <= Len(s) /\ s[i] = after[m + 1] /\ after[m + 1] \in A
LEMMA PlacedInOrder ==
  ASSUME NEW S, NEW s \in Seq(S), Distinct(s), NEW after \in Seq(S), Distinct(after),
         NEW A, ToSet(s) \in SUBSET ToSet(after), Agrees(s, after, A),
         NEW m, NEW i, InFront(s, after, A, m, i)
  PROVE  /\ InsertAt(s, i, after[m]) \in Seq(S) /\ Distinct(InsertAt(s, i, after[m]))
         /\ ToSet(InsertAt(s, i, after[m])) = ToSet(s) \cup {after[m]}
         /\ Agrees(InsertAt(s, i, after[m]), after, A \cup {after[m]})
<1> DEFINE tag == after[m]
           u == InsertAt(s, i, tag)
           at(p) == IF p < i THEN p ELSE p - 1
           n == Len(after)
<1>a. /\ m \in 1..n /\ tag \notin ToSet(s) /\ i \in 1..Len(s) + 1
      /\ IF m = n THEN i = Len(s) + 1 ELSE i <= Len(s) /\ s[i] = after[m + 1] /\ after[m + 1] \in A
  BY DEF InFront
<1>0. /\ Len(s) \in Nat /\ n \in Nat /\ tag \in S /\ m \in 1..n
      /\ tag \notin ToSet(s) /\ i \in 1..Len(s) + 1
  BY <1>a
<1>1. /\ u \in Seq(S) /\ Len(u) = Len(s) + 1
      /\ \A p \in 1..Len(s) + 1 : u[p] = IF p < i THEN s[p] ELSE IF p = i THEN tag ELSE s[p - 1]
  <2>1. u = InsertAt(s, i, tag)
    OBVIOUS
  <2>2. tag \in S /\ s \in Seq(S) /\ i \in 1..Len(s) + 1
    BY <1>0
  <2> HIDE DEF tag, u
  <2>3. u \in Seq(S) /\ Len(u) = Len(s) + 1
    BY <2>1, <2>2, Inserted
  <2>4. \A p \in 1..Len(s) + 1 : u[p] = IF p < i THEN s[p] ELSE IF p = i THEN tag ELSE s[p - 1]
    <3>1. \A j \in 1..Len(s) + 1 :
             InsertAt(s, i, tag)[j] = IF j < i THEN s[j] ELSE IF j = i THEN tag ELSE s[j - 1]
      BY ONLY <2>2, Inserted
    <3> QED BY ONLY <2>1, <3>1
  <2> QED BY <2>3, <2>4
<1>2. \A p \in 1..Len(s) : s[p] # tag /\ s[p] \in ToSet(s) /\ s[p] \in ToSet(after)
  BY <1>0, InSet
<1>3. Position(after, tag) = m
  <2>1. tag \in ToSet(after)
    BY <1>0, InSet
  <2> QED BY <1>0, <2>1, PlaceIs
<1> HIDE DEF u
<1>4. i \in 1..Len(u) /\ u[i] = tag
  <2>1. i \in 1..Len(s) + 1 /\ ~(i < i)
    BY <1>0
  <2>2. u[i] = IF i < i THEN s[i] ELSE IF i = i THEN tag ELSE s[i - 1]
    BY <1>1, <2>1
  <2> HIDE DEF tag
  <2> QED BY <1>1, <2>1, <2>2
<1>5. \A p \in 1..Len(u) : p # i => at(p) \in 1..Len(s) /\ u[p] = s[at(p)] /\ u[p] # tag
  BY <1>0, <1>1, <1>2
<1>6. \A p, q \in 1..Len(u) : p # i /\ q # i =>
         (p < q => at(p) < at(q)) /\ (at(p) = at(q) => p = q)
  BY <1>0, <1>1
<1>7. \A q \in 1..Len(s) : \E p \in 1..Len(u) : p # i /\ at(p) = q
  <2> SUFFICES ASSUME NEW q \in 1..Len(s) PROVE \E p \in 1..Len(u) : p # i /\ at(p) = q
    OBVIOUS
  <2>1. CASE q < i
    <3>1. q \in 1..Len(u) /\ q # i /\ at(q) = q
      BY <1>0, <1>1, <2>1
    <3> QED BY <3>1
  <2>2. CASE ~(q < i)
    <3>1. q + 1 \in 1..Len(u) /\ q + 1 # i /\ at(q + 1) = q
      BY <1>0, <1>1, <2>2
    <3> QED BY <3>1
  <2> QED BY <2>1, <2>2
<1>8. /\ m # n => /\ s[i] = after[m + 1] /\ after[m + 1] \in A /\ i \in 1..Len(s) /\ m + 1 \in 1..n
                  /\ Position(after, s[i]) = m + 1
      /\ m = n => i = Len(s) + 1
  <2>1. CASE m # n
    <3>1. s[i] = after[m + 1] /\ after[m + 1] \in A /\ i \in 1..Len(s) /\ m + 1 \in 1..n
      BY <1>0, <1>a, <2>1
    <3>2. after[m + 1] \in ToSet(after)
      BY <3>1, InSet
    <3>3. Position(after, after[m + 1]) = m + 1
      BY <3>1, <3>2, PlaceIs
    <3> QED BY <2>1, <3>1, <3>3
  <2> QED BY <1>a, <2>1
<1>9. \A p \in 1..Len(u) : p > i => at(p) \in i..Len(s) /\ m # n
  BY <1>0, <1>1, <1>8
<1>10. \A p \in 1..Len(u) : p < i => at(p) = p
  OBVIOUS
<1> HIDE DEF at
<1>11. Distinct(u)
  <2> SUFFICES ASSUME NEW p \in 1..Len(u), NEW q \in 1..Len(u), u[p] = u[q] PROVE p = q
    BY DEF Distinct
  <2>1. CASE p = i \/ q = i
    BY <1>4, <1>5, <2>1
  <2>2. CASE p # i /\ q # i
    <3>1. at(p) \in 1..Len(s) /\ at(q) \in 1..Len(s) /\ s[at(p)] = s[at(q)]
      BY <1>5, <2>2
    <3>2. at(p) = at(q)
      BY <3>1 DEF Distinct
    <3> QED BY <1>6, <2>2, <3>2
  <2> QED BY <2>1, <2>2
<1>12. ToSet(u) = ToSet(s) \cup {tag}
  <2>1. ASSUME NEW x \in ToSet(u) PROVE x \in ToSet(s) \cup {tag}
    <3>1. PICK p \in 1..Len(u) : u[p] = x
      BY <1>1, <2>1, InSet
    <3>2. p # i => at(p) \in 1..Len(s) /\ s[at(p)] = x
      BY <1>5, <3>1
    <3> QED BY <1>4, <3>1, <3>2, InSet
  <2>2. ASSUME NEW x \in ToSet(s) PROVE x \in ToSet(u)
    <3>1. PICK q \in 1..Len(s) : s[q] = x
      BY <2>2, InSet
    <3>2. PICK p \in 1..Len(u) : p # i /\ at(p) = q
      BY <1>7, <3>1
    <3>3. u[p] = x
      BY <1>5, <3>1, <3>2
    <3> QED BY <1>1, <3>3, InSet
  <2>3. tag \in ToSet(u)
    BY <1>1, <1>4, InSet
  <2> QED BY <2>1, <2>2, <2>3
<1>13. Agrees(u, after, A \cup {tag})
  <2> SUFFICES ASSUME NEW p \in 1..Len(u), NEW q \in 1..Len(u), p < q,
                      u[p] \in A \cup {tag}, u[q] \in A \cup {tag}
               PROVE  Position(after, u[p]) < Position(after, u[q])
    BY DEF Agrees
  <2>1. CASE p = i
    <3>1. q # i /\ at(q) \in i..Len(s) /\ m # n /\ q > i
      BY <1>1, <1>9, <2>1
    <3>2. u[q] = s[at(q)] /\ u[q] \in A /\ at(q) \in 1..Len(s)
      BY <1>5, <3>1
    <3>3. Position(after, u[p]) = m /\ m \in Nat
      BY <1>0, <1>3, <1>4, <2>1
    <3>4. CASE at(q) = i
      BY <1>8, <3>1, <3>2, <3>3, <3>4
    <3>5. CASE at(q) # i
      <4>1. Position(after, s[i]) < Position(after, s[at(q)])
        BY <1>8, <3>1, <3>2, <3>5 DEF Agrees
      <4>2. Position(after, u[q]) \in Nat
        <5>1. u[q] \in ToSet(after)
          BY <1>2, <3>2
        <5> QED BY <5>1, PlaceIs
      <4> QED BY <1>8, <3>1, <3>2, <3>3, <4>1, <4>2
    <3> QED BY <3>4, <3>5
  <2>2. CASE q = i
    <3>1. p \in 1..Len(s) /\ u[p] = s[p] /\ u[p] \in A /\ u[p] # tag /\ p < i
      BY <1>5, <1>10, <2>2
    <3>2. Position(after, u[p]) \in 1..n /\ after[Position(after, u[p])] = u[p]
      <4>1. u[p] \in ToSet(after)
        BY <1>2, <3>1
      <4> QED BY <4>1, PlaceIs
    <3>3. Position(after, u[p]) # m
      BY <3>1, <3>2
    <3>4. Position(after, u[q]) = m
      BY <1>3, <1>4, <2>2
    <3>5. CASE m = n
      BY <1>0, <3>2, <3>3, <3>4, <3>5
    <3>6. CASE m # n
      <4>1. Position(after, s[p]) < Position(after, s[i])
        BY <1>8, <3>1, <3>6 DEF Agrees
      <4>2. Position(after, u[p]) < m + 1
        BY <1>8, <3>1, <3>6, <4>1
      <4> QED BY <1>0, <3>2, <3>3, <3>4, <4>2
    <3> QED BY <3>5, <3>6
  <2>3. CASE p # i /\ q # i
    <3>1. at(p) \in 1..Len(s) /\ at(q) \in 1..Len(s) /\ at(p) < at(q)
      BY <1>5, <1>6, <2>3
    <3>2. u[p] = s[at(p)] /\ u[q] = s[at(q)] /\ u[p] \in A /\ u[q] \in A
      BY <1>5, <2>3
    <3> QED BY <3>1, <3>2 DEF Agrees
  <2> QED BY <2>1, <2>2, <2>3
<1> QED BY <1>1, <1>11, <1>12, <1>13 DEF u

(* What holds the same children in the same order is the same.               *)
LEMMA SameOrder ==
  ASSUME NEW S, NEW s \in Seq(S), Distinct(s), NEW after \in Seq(S), Distinct(after),
         ToSet(s) = ToSet(after), Agrees(s, after, ToSet(after))
  PROVE  s = after
<1> DEFINE n == Len(after)
           l == Len(s)
           g == [p \in 1..l |-> Position(after, s[p])]
<1>0. n \in Nat /\ l \in Nat
  OBVIOUS
<1>1. \A p \in 1..l : g[p] \in 1..n /\ after[g[p]] = s[p]
  <2> SUFFICES ASSUME NEW p \in 1..l PROVE g[p] \in 1..n /\ after[g[p]] = s[p]
    OBVIOUS
  <2>1. s[p] \in ToSet(after)
    BY InSet
  <2> QED BY <2>1, PlaceIs
<1>2. \A p, q \in 1..l : p < q => g[p] < g[q]
  <2> SUFFICES ASSUME NEW p \in 1..l, NEW q \in 1..l, p < q PROVE g[p] < g[q]
    OBVIOUS
  <2>1. s[p] \in ToSet(after) /\ s[q] \in ToSet(after)
    BY InSet
  <2> QED BY <2>1 DEF Agrees
<1>3. \A k \in 1..n : \E p \in 1..l : g[p] = k
  <2> SUFFICES ASSUME NEW k \in 1..n PROVE \E p \in 1..l : g[p] = k
    OBVIOUS
  <2>1. after[k] \in ToSet(s)
    BY InSet
  <2>2. PICK p \in 1..l : s[p] = after[k]
    BY <2>1, InSet
  <2>3. after[k] \in ToSet(after)
    BY InSet
  <2>4. Position(after, after[k]) = k
    BY <2>3, PlaceIs
  <2> QED BY <2>2, <2>4
<1> HIDE DEF g, l, n
<1> DEFINE T == {k \in Nat : k \in 1..n => k \in 1..l /\ g[k] = k}
<1>4. 0 \in T
  OBVIOUS
<1>5. ASSUME NEW k \in T PROVE k + 1 \in T
  <2> SUFFICES ASSUME k + 1 \in 1..n PROVE k + 1 \in 1..l /\ g[k + 1] = k + 1
    OBVIOUS
  <2>1. k \in Nat /\ (k # 0 => k \in 1..l /\ g[k] = k)
    BY <1>0, <1>5
  <2>2. PICK q \in 1..l : g[q] = k + 1
    BY <1>3
  <2>3. q > k
    <3> SUFFICES ASSUME q <= k PROVE FALSE
      BY <1>0, <2>1
    <3>1. k # 0 /\ (q = k \/ q < k)
      BY <1>0, <2>1
    <3> QED BY <1>2, <2>1, <2>2, <3>1
  <2>4. CASE q = k + 1
    BY <2>2, <2>4
  <2>5. CASE q # k + 1
    <3>1. k + 1 \in 1..l /\ k + 1 < q
      BY <1>0, <2>1, <2>3, <2>5
    <3>2. g[k + 1] < k + 1 /\ g[k + 1] \in 1..n
      BY <1>1, <1>2, <2>2, <3>1
    <3>3. CASE k = 0
      BY <1>0, <3>2, <3>3
    <3>4. CASE k # 0
      <4>1. g[k] < g[k + 1] /\ g[k] = k
        BY <1>2, <2>1, <3>1, <3>4
      <4> QED BY <1>0, <2>1, <3>2, <4>1
    <3> QED BY <3>3, <3>4
  <2> QED BY <2>4, <2>5
<1>6. \A k \in 1..n : k \in 1..l /\ g[k] = k
  <2>0. T \in SUBSET Nat
    OBVIOUS
  <2> HIDE DEF T
  <2>1. Nat \subseteq T
    BY <1>4, <1>5, <2>0, NatSetInduction
  <2> QED BY <1>0, <2>1 DEF T
<1>7. l = n
  <2>1. l >= n
    <3>1. CASE n = 0
      BY <1>0, <3>1
    <3>2. CASE n # 0
      <4>1. n \in 1..n
        BY <1>0, <3>2
      <4> QED BY <1>0, <1>6, <4>1
    <3> QED BY <3>1, <3>2
  <2>2. ASSUME l > n PROVE FALSE
    <3>1. n + 1 \in 1..l /\ g[n + 1] \in 1..n
      BY <1>0, <1>1, <2>2
    <3>2. n \in 1..n /\ n \in 1..l /\ g[n] = n
      BY <1>0, <1>6, <3>1
    <3>3. g[n] < g[n + 1]
      BY <1>0, <1>2, <3>1, <3>2
    <3> QED BY <1>0, <3>1, <3>2, <3>3
  <2> QED BY <1>0, <2>1, <2>2
<1>8. \A p \in 1..l : s[p] = after[p]
  BY <1>1, <1>6, <1>7
<1> QED BY <1>7, <1>8, SeqEqual DEF l, n

(* The rounds of a plan, and the children as its insertions leave them. *)
PlanStart(before) == [sim |-> before, moves |-> <<>>, anchor |-> <<>>]
PlanRow(f, before, after, kept, i) == IF i = 0 THEN PlanStart(before)
    ELSE PlaceChild(kept, f[i - 1], after[Len(after) + 1 - i])
PlanTable(f, before, after, kept, n) == f = [i \in 0..n |-> PlanRow(f, before, after, kept, i)]
LEMMA PlanTableExists ==
  ASSUME NEW before, NEW after, NEW kept, NEW n \in Nat
  PROVE  \E f : PlanTable(f, before, after, kept, n)
<1> DEFINE T == {k \in Nat : \E f : PlanTable(f, before, after, kept, k)}
<1>1. 0 \in T
  <2> DEFINE f == [i \in 0..0 |-> PlanStart(before)]
  <2>1. f = [i \in 0..0 |-> PlanRow(f, before, after, kept, i)]
    BY DEF PlanRow
  <2> HIDE DEF f
  <2> QED BY <2>1 DEF PlanTable
<1>2. ASSUME NEW k \in T PROVE k + 1 \in T
  <2> PICK f : PlanTable(f, before, after, kept, k)
    BY <1>2
  <2> DEFINE g == [i \in 0..k + 1 |-> PlanRow(f, before, after, kept, i)]
  <2>1. \A i \in 0..k : f[i] = PlanRow(f, before, after, kept, i)
    BY DEF PlanTable
  <2>2. ASSUME NEW i \in 0..k + 1 PROVE g[i] = PlanRow(g, before, after, kept, i)
    <3>1. i # 0 => i - 1 \in 0..k /\ g[i - 1] = f[i - 1]
      BY <2>1
    <3>2. g[i] = PlanRow(f, before, after, kept, i)
      OBVIOUS
    <3> HIDE DEF g
    <3> QED BY <3>1, <3>2 DEF PlanRow
  <2>3. g = [i \in 0..k + 1 |-> PlanRow(g, before, after, kept, i)]
    <3>1. g = [i \in 0..k + 1 |-> g[i]]
      OBVIOUS
    <3> HIDE DEF g
    <3> QED BY <2>2, <3>1
  <2> HIDE DEF g
  <2>4. \E h : PlanTable(h, before, after, kept, k + 1)
    BY <2>3 DEF PlanTable
  <2> QED BY <2>4
<1> HIDE DEF T
<1>3. n \in T
  BY <1>1, <1>2, NatSetInduction DEF T
<1> QED BY <1>3 DEF T

KidsRow(f, before, moves, i) == IF i = 0 THEN before ELSE InsertNode(f[i - 1], moves[i])
KidsTable(f, before, moves, n) == f = [i \in 0..n |-> KidsRow(f, before, moves, i)]
LEMMA KidsTableExists ==
  ASSUME NEW before, NEW moves, NEW n \in Nat
  PROVE  \E f : KidsTable(f, before, moves, n)
<1> DEFINE T == {k \in Nat : \E f : KidsTable(f, before, moves, k)}
<1>1. 0 \in T
  <2> DEFINE f == [i \in 0..0 |-> before]
  <2>1. f = [i \in 0..0 |-> KidsRow(f, before, moves, i)]
    BY DEF KidsRow
  <2> HIDE DEF f
  <2> QED BY <2>1 DEF KidsTable
<1>2. ASSUME NEW k \in T PROVE k + 1 \in T
  <2> PICK f : KidsTable(f, before, moves, k)
    BY <1>2
  <2> DEFINE g == [i \in 0..k + 1 |-> KidsRow(f, before, moves, i)]
  <2>1. \A i \in 0..k : f[i] = KidsRow(f, before, moves, i)
    BY DEF KidsTable
  <2>2. ASSUME NEW i \in 0..k + 1 PROVE g[i] = KidsRow(g, before, moves, i)
    <3>1. i # 0 => i - 1 \in 0..k /\ g[i - 1] = f[i - 1]
      BY <2>1
    <3>2. g[i] = KidsRow(f, before, moves, i)
      OBVIOUS
    <3> HIDE DEF g
    <3> QED BY <3>1, <3>2 DEF KidsRow
  <2>3. g = [i \in 0..k + 1 |-> KidsRow(g, before, moves, i)]
    <3>1. g = [i \in 0..k + 1 |-> g[i]]
      OBVIOUS
    <3> HIDE DEF g
    <3> QED BY <2>2, <3>1
  <2> HIDE DEF g
  <2>4. \E h : KidsTable(h, before, moves, k + 1)
    BY <2>3 DEF KidsTable
  <2> QED BY <2>4
<1> HIDE DEF T
<1>3. n \in T
  BY <1>1, <1>2, NatSetInduction DEF T
<1> QED BY <1>3 DEF T


Reaches(before, moves, to) ==
    \E f : /\ f[0] = before /\ f[Len(moves)] = to
           /\ \A i \in 1..Len(moves) : f[i] = InsertNode(f[i - 1], moves[i])
LEMMA ReachesAppend ==
  ASSUME NEW X, NEW moves \in Seq(X), NEW move \in X, NEW before, NEW sim, Reaches(before, moves, sim)
  PROVE  Reaches(before, Append(moves, move), InsertNode(sim, move))
<1> DEFINE n == Len(moves)
           all == Append(moves, move)
<1>1. n \in Nat /\ Len(all) = n + 1 /\ all[n + 1] = move /\ \A i \in 1..n : all[i] = moves[i]
  OBVIOUS
<1>2. PICK f : /\ f[0] = before /\ f[n] = sim
               /\ \A i \in 1..n : f[i] = InsertNode(f[i - 1], moves[i])
  BY DEF Reaches
<1> DEFINE g == [i \in 0..n + 1 |-> IF i = n + 1 THEN InsertNode(sim, move) ELSE f[i]]
<1>3. g[0] = before /\ g[n + 1] = InsertNode(sim, move) /\ \A i \in 0..n : g[i] = f[i]
  BY <1>1, <1>2
<1> HIDE DEF g, n, all
<1>4. ASSUME NEW i \in 1..n + 1 PROVE g[i] = InsertNode(g[i - 1], all[i])
  <2>1. CASE i = n + 1
    <3>1. i - 1 = n /\ n \in 0..n
      BY <1>1, <2>1
    <3> QED BY <1>1, <1>2, <1>3, <2>1, <3>1
  <2>2. CASE i # n + 1
    <3>1. i \in 1..n /\ i \in 0..n /\ i - 1 \in 0..n
      BY <1>1, <2>2
    <3> QED BY <1>1, <1>2, <1>3, <3>1
  <2> QED BY <2>1, <2>2
<1>5. Len(all) = n + 1
  BY <1>1
<1>6. Reaches(before, all, InsertNode(sim, move))
  BY <1>3, <1>4, <1>5 DEF Reaches
<1> QED BY <1>6 DEF all

LEMMA CarriesOut ==
  ASSUME NEW before, NEW moves, Len(moves) \in Nat, NEW to, Reaches(before, moves, to)
  PROVE  CarriedOut(before, moves) = to
<1> DEFINE n == Len(moves)
           k == CHOOSE f : KidsTable(f, before, moves, n)
<1>1. KidsTable(k, before, moves, n)
  BY KidsTableExists
<1>2. CarriedOut(before, moves) = k[n]
  BY DEF CarriedOut, KidsTable, KidsRow
<1> HIDE DEF k
<1>3. \A i \in 0..n : k[i] = KidsRow(k, before, moves, i)
  BY <1>1 DEF KidsTable
<1>4. PICK f : /\ f[0] = before /\ f[n] = to
               /\ \A i \in 1..n : f[i] = InsertNode(f[i - 1], moves[i])
  BY DEF Reaches
<1> HIDE DEF n
<1>5. n \in Nat
  BY DEF n
<1> DEFINE T == {i \in Nat : i <= n => k[i] = f[i]}
<1>6. 0 \in T
  <2>1. 0 \in 0..n
    BY <1>5
  <2> QED BY <1>3, <1>4, <2>1 DEF KidsRow
<1>7. ASSUME NEW i \in T PROVE i + 1 \in T
  <2> SUFFICES ASSUME i + 1 <= n PROVE k[i + 1] = f[i + 1]
    OBVIOUS
  <2>1. i + 1 \in 0..n /\ i + 1 \in 1..n /\ i + 1 # 0 /\ i + 1 - 1 = i /\ k[i] = f[i]
    BY <1>5, <1>7
  <2>2. k[i + 1] = InsertNode(k[i], moves[i + 1])
    BY <1>3, <2>1 DEF KidsRow
  <2>3. f[i + 1] = InsertNode(f[i], moves[i + 1])
    BY <1>4, <2>1
  <2> QED BY <2>1, <2>2, <2>3
<1>8. n \in T
  <2>1. T \in SUBSET Nat
    OBVIOUS
  <2> HIDE DEF T
  <2> QED BY <1>5, <1>6, <1>7, <2>1, NatSetInduction
<1> QED BY <1>2, <1>4, <1>5, <1>8

(* A plan after i rounds: the last i children of the wanted order are in     *)
(* place among each other and among the kept ones, the insertions so far     *)
(* lead there, and there is one for each of the i that is not kept.          *)
Done(after, i) == {after[j] : j \in Len(after) + 1 - i..Len(after)}
PlanHolds(S, before, after, L, w, i) ==
    LET kept == {before[q] : q \in L}
    IN  /\ w \in [sim : Seq(S), moves : Seq(S \X Nat), anchor : Seq(S)]
        /\ Distinct(w.sim) /\ ToSet(w.sim) = ToSet(before) \cup Done(after, i)
        /\ w.anchor = IF i = 0 THEN <<>> ELSE <<after[Len(after) + 1 - i]>>
        /\ Agrees(w.sim, after, kept \cup Done(after, i))
        /\ Reaches(before, w.moves, w.sim)
        /\ Len(w.moves) + Cardinality({q \in L : before[q] \in Done(after, i)}) = i
PlanCase(S, before, after, L) ==
    /\ before \in Seq(S) /\ Distinct(before)
    /\ after \in Seq(S) /\ Distinct(after)
    /\ ToSet(before) \in SUBSET ToSet(after)
    /\ L \in SUBSET (1..Len(before))
    /\ \A i, j \in L : i < j => Position(after, before[i]) < Position(after, before[j])

LEMMA PlanStarts ==
  ASSUME NEW S, NEW before, NEW after, NEW L, PlanCase(S, before, after, L)
  PROVE  PlanHolds(S, before, after, L, PlanStart(before), 0)
<1> DEFINE w == PlanStart(before)
           kept == {before[q] : q \in L}
<1>0. Len(after) \in Nat /\ Len(before) \in Nat /\ before \in Seq(S) /\ Distinct(before)
  BY DEF PlanCase
<1>1. Done(after, 0) = {}
  BY <1>0 DEF Done
<1>2. /\ w.sim = before /\ w.moves = <<>> /\ w.anchor = <<>>
      /\ w \in [sim : Seq(S), moves : Seq(S \X Nat), anchor : Seq(S)]
  BY <1>0 DEF PlanStart
<1>3. Agrees(before, after, kept)
  <2> SUFFICES ASSUME NEW p \in 1..Len(before), NEW q \in 1..Len(before), p < q,
                      before[p] \in kept, before[q] \in kept
               PROVE  Position(after, before[p]) < Position(after, before[q])
    BY DEF Agrees
  <2>1. p \in L /\ q \in L
    BY <1>0 DEF Distinct, PlanCase
  <2> QED BY <2>1 DEF PlanCase
<1>4. Reaches(before, <<>>, before)
  <2> DEFINE f == [i \in 0..0 |-> before]
  <2>1. f[0] = before /\ Len(<<>>) = 0 /\ 1..0 = {}
    OBVIOUS
  <2> HIDE DEF f
  <2> QED BY <2>1 DEF Reaches
<1>5. Len(<<>>) + Cardinality({}) = 0
  BY FS_EmptySet
<1>6. {q \in L : before[q] \in {}} = {} /\ kept \cup {} = kept /\ ToSet(before) \cup {} = ToSet(before)
  OBVIOUS
<1> HIDE DEF w
<1>7. w.anchor = IF 0 = 0 THEN <<>> ELSE <<after[Len(after) + 1 - 0]>>
  BY <1>2
<1>8. /\ w \in [sim : Seq(S), moves : Seq(S \X Nat), anchor : Seq(S)]
      /\ Distinct(w.sim) /\ ToSet(w.sim) = ToSet(before) \cup Done(after, 0)
      /\ Agrees(w.sim, after, kept \cup Done(after, 0))
      /\ Reaches(before, w.moves, w.sim)
  BY <1>0, <1>1, <1>2, <1>3, <1>4, <1>6
<1>9. Len(w.moves) + Cardinality({q \in L : before[q] \in Done(after, 0)}) = 0
  <2>1. {q \in L : before[q] \in Done(after, 0)} = {}
    BY <1>1
  <2>2. Cardinality({q \in L : before[q] \in Done(after, 0)}) = 0
    BY <2>1, FS_EmptySet
  <2>3. Len(w.moves) = 0
    BY <1>2
  <2> QED BY ONLY <2>2, <2>3
<1> HIDE DEF kept
<1>10. PlanHolds(S, before, after, L, w, 0)
  BY <1>7, <1>8, <1>9 DEF PlanHolds, kept
<1> QED BY <1>10 DEF w

LEMMA PlanStep ==
  ASSUME NEW S, NEW before, NEW after, NEW L, PlanCase(S, before, after, L),
         NEW i \in Nat, i + 1 <= Len(after), NEW w, PlanHolds(S, before, after, L, w, i)
  PROVE  PlanHolds(S, before, after, L,
                   PlaceChild({before[q] : q \in L}, w, after[Len(after) + 1 - (i + 1)]), i + 1)
<1> DEFINE n == Len(after)
           m == n + 1 - (i + 1)
           tag == after[m]
           kept == {before[q] : q \in L}
           D == Done(after, i)
           E == Done(after, i + 1)
           left == {q \in L : before[q] \in D}
           next == PlaceChild(kept, w, tag)
<1>0. /\ n \in Nat /\ Len(before) \in Nat /\ m \in 1..n /\ m = n - i /\ tag \in S
      /\ before \in Seq(S) /\ Distinct(before) /\ after \in Seq(S) /\ Distinct(after)
      /\ ToSet(before) \in SUBSET ToSet(after) /\ L \in SUBSET (1..Len(before))
  BY ElementOfSeq DEF PlanCase
<1>1. /\ w \in [sim : Seq(S), moves : Seq(S \X Nat), anchor : Seq(S)]
      /\ Distinct(w.sim) /\ ToSet(w.sim) = ToSet(before) \cup D
      /\ w.anchor = (IF i = 0 THEN <<>> ELSE <<after[n + 1 - i]>>)
      /\ Agrees(w.sim, after, kept \cup D)
      /\ Reaches(before, w.moves, w.sim)
      /\ Len(w.moves) + Cardinality(left) = i
  BY DEF PlanHolds
<1>2. E = D \cup {tag}
  <2>1. n + 1 - (i + 1)..n = (n + 1 - i..n) \cup {m}
    BY <1>0
  <2> QED BY <2>1 DEF Done
<1>3. tag \notin D
  <2>1. \A j \in n + 1 - i..n : j \in 1..n /\ j # m
    BY <1>0
  <2> QED BY <1>0, <2>1 DEF Done, Distinct
<1>4. D \in SUBSET ToSet(after) /\ tag \in ToSet(after)
  <2>1. \A j \in n + 1 - i..n : j \in 1..n
    BY <1>0
  <2> QED BY <1>0, <2>1, InSet DEF Done
<1>5. kept \in SUBSET ToSet(before)
  BY <1>0, InSet
<1>6. IsFiniteSet(left)
  <2>1. IsFiniteSet(1..Len(before))
    BY <1>0, FS_Interval
  <2>2. left \in SUBSET (1..Len(before))
    BY <1>0
  <2> QED BY <2>1, <2>2, FS_Subset
<1>7. i # 0 => m # n /\ n + 1 - i = m + 1 /\ after[m + 1] \in D
  <2> SUFFICES ASSUME i # 0 PROVE m # n /\ n + 1 - i = m + 1 /\ after[m + 1] \in D
    OBVIOUS
  <2>1. m # n /\ n + 1 - i = m + 1 /\ m + 1 \in n + 1 - i..n
    BY <1>0
  <2> QED BY <2>1 DEF Done
<1>8. i = 0 => m = n
  BY <1>0
<1> HIDE DEF n, m, D, E
<1>9. CASE tag \in kept
  <2>1. next = [w EXCEPT !.anchor = <<tag>>]
    BY <1>9 DEF PlaceChild
  <2>2. /\ next.sim = w.sim /\ next.moves = w.moves /\ next.anchor = <<tag>>
        /\ next \in [sim : Seq(S), moves : Seq(S \X Nat), anchor : Seq(S)]
    <3>1. <<tag>> \in Seq(S)
      BY <1>0
    <3>2. w \in [sim : Seq(S), moves : Seq(S \X Nat), anchor : Seq(S)]
      BY <1>1
    <3> HIDE DEF tag, next
    <3> QED BY ONLY <2>1, <3>1, <3>2
  <2>3. ToSet(next.sim) = ToSet(before) \cup E /\ kept \cup E = kept \cup D
    BY <1>1, <1>2, <1>5, <1>9, <2>2
  <2>4. Len(next.moves) + Cardinality({q \in L : before[q] \in E}) = i + 1
    <3>1. PICK q \in L : before[q] = tag
      BY <1>9
    <3>2. {x \in L : before[x] \in E} = left \cup {q} /\ q \notin left
      BY ZenonT(60), <1>0, <1>2, <1>3, <3>1 DEF Distinct
    <3>3. Cardinality(left \cup {q}) = Cardinality(left) + 1
      BY <1>6, <3>2, FS_AddElement
    <3>4. Cardinality(left) \in Nat /\ Len(w.moves) \in Nat
      BY <1>1, <1>6, FS_CardinalityType
    <3>5. Len(next.moves) = Len(w.moves) /\ Len(w.moves) + Cardinality(left) = i
      BY <1>1, <2>2
    <3>6. Cardinality({x \in L : before[x] \in E}) = Cardinality(left) + 1
      BY <3>2, <3>3
    <3> HIDE DEF left, next
    <3> QED BY ONLY <3>4, <3>5, <3>6
  <2> HIDE DEF next, tag, kept
  <2>5. /\ Agrees(next.sim, after, kept \cup E) /\ Reaches(before, next.moves, next.sim)
        /\ Distinct(next.sim)
    BY <1>1, <2>2, <2>3
  <2>6. next.anchor = IF i + 1 = 0 THEN <<>> ELSE <<after[n + 1 - (i + 1)]>>
    BY <2>2 DEF tag, m
  <2>7. PlanHolds(S, before, after, L, next, i + 1)
    BY <2>2, <2>3, <2>4, <2>5, <2>6 DEF PlanHolds, E, n, kept
  <2> QED BY <2>7 DEF next, kept, tag, m, n
<1>10. CASE tag \notin kept
  <2> DEFINE sim == Detached(w.sim, tag)
             index == IF w.anchor = <<>> THEN Len(sim) ELSE Position(sim, w.anchor[1]) - 1
             u == InsertAt(sim, index + 1, tag)
             move == <<tag, index>>
  <2>1. next = [sim |-> u, moves |-> Append(w.moves, move), anchor |-> <<tag>>]
    BY <1>10 DEF PlaceChild
  <2>2. /\ sim \in Seq(S) /\ Distinct(sim) /\ ToSet(sim) = ToSet(w.sim) \ {tag}
        /\ Agrees(sim, after, kept \cup D)
    <3>1. w.sim \in Seq(S) /\ Distinct(w.sim) /\ tag \in S /\ Agrees(w.sim, after, kept \cup D)
      BY <1>0, <1>1
    <3> HIDE DEF tag, kept, D, sim
    <3>2. sim = Detached(w.sim, tag)
      BY DEF sim
    <3> QED BY ONLY <3>1, <3>2, DetachedIs
  <2> HIDE DEF sim
  <2>3. /\ index \in 0..Len(sim) /\ index + 1 \in 1..Len(sim) + 1
        /\ IF m = n THEN index + 1 = Len(sim) + 1
           ELSE /\ index + 1 <= Len(sim) /\ sim[index + 1] = after[m + 1]
                /\ after[m + 1] \in kept \cup D
    <3>0. Len(sim) \in Nat
      BY <2>2
    <3>1. CASE i = 0
      <4>1. w.anchor = <<>>
        BY <1>1, <3>1
      <4> QED BY <1>8, <3>0, <3>1, <4>1
    <3>2. CASE i # 0
      <4>1. w.anchor = <<after[m + 1]>> /\ w.anchor # <<>> /\ w.anchor[1] = after[m + 1]
        BY <1>1, <1>7, <3>2
      <4>2. after[m + 1] \in D /\ after[m + 1] # tag
        BY <1>3, <1>7, <3>2
      <4>3. after[m + 1] \in ToSet(sim)
        BY <1>1, <2>2, <4>2
      <4> DEFINE p == Position(sim, after[m + 1])
      <4>4. p \in 1..Len(sim) /\ sim[p] = after[m + 1]
        BY <2>2, <4>3, PlaceIs
      <4>5. index = p - 1
        BY <4>1
      <4> HIDE DEF p, index
      <4>6. index + 1 = p /\ index \in 0..Len(sim) /\ index + 1 \in 1..Len(sim) + 1 /\ index + 1 <= Len(sim)
        BY <3>0, <4>4, <4>5
      <4> QED BY <1>7, <3>2, <4>2, <4>4, <4>6
    <3> QED BY <3>1, <3>2
  <2> HIDE DEF index, kept
  <2>4. /\ u \in Seq(S) /\ Distinct(u) /\ ToSet(u) = ToSet(sim) \cup {tag}
        /\ Agrees(u, after, (kept \cup D) \cup {tag})
    <3>1. ToSet(sim) \in SUBSET ToSet(after)
      BY <1>0, <1>1, <1>4, <2>2
    <3> DEFINE j == index + 1
    <3>2. InFront(sim, after, kept \cup D, m, j)
      BY <1>0, <2>2, <2>3 DEF InFront, n
    <3>3. sim \in Seq(S) /\ Distinct(sim) /\ after \in Seq(S) /\ Distinct(after)
      BY <1>0, <2>2
    <3>4. Agrees(sim, after, kept \cup D)
      BY <2>2
    <3> HIDE DEF j
    <3>5. /\ InsertAt(sim, j, after[m]) \in Seq(S) /\ Distinct(InsertAt(sim, j, after[m]))
          /\ ToSet(InsertAt(sim, j, after[m])) = ToSet(sim) \cup {after[m]}
          /\ Agrees(InsertAt(sim, j, after[m]), after, (kept \cup D) \cup {after[m]})
      BY ONLY <3>1, <3>2, <3>3, <3>4, PlacedInOrder
    <3> QED BY <3>5 DEF j
  <2>5. u = InsertNode(w.sim, move)
    <3>1. move[1] = tag /\ move[2] = index /\ index <= Len(sim)
      BY <2>3
    <3> QED BY <3>1 DEF InsertNode, sim
  <2>6. move \in S \X Nat
    BY <1>0, <2>3
  <2> HIDE DEF u, move, tag, next
  <2>7. /\ next.sim = u /\ next.moves = Append(w.moves, move) /\ next.anchor = <<tag>>
        /\ next \in [sim : Seq(S), moves : Seq(S \X Nat), anchor : Seq(S)]
    <3>1. Append(w.moves, move) \in Seq(S \X Nat) /\ <<tag>> \in Seq(S)
      BY <1>0, <1>1, <2>6
    <3> QED BY <2>1, <2>4, <3>1
  <2>8. Reaches(before, next.moves, next.sim)
    BY <1>1, <2>5, <2>6, <2>7, ReachesAppend
  <2>9. ToSet(next.sim) = ToSet(before) \cup E /\ (kept \cup D) \cup {tag} = kept \cup E
    BY <1>1, <1>2, <2>2, <2>4, <2>7
  <2>10. Len(next.moves) + Cardinality({q \in L : before[q] \in E}) = i + 1
    <3>1. {q \in L : before[q] \in E} = left
      BY <1>2, <1>10 DEF kept
    <3>2. Len(next.moves) = Len(w.moves) + 1 /\ Len(w.moves) \in Nat
      BY <1>1, <2>6, <2>7
    <3>3. Cardinality(left) \in Nat
      BY <1>6, FS_CardinalityType
    <3>4. Len(w.moves) + Cardinality(left) = i
      BY <1>1
    <3>5. Cardinality({q \in L : before[q] \in E}) = Cardinality(left)
      BY <3>1
    <3> HIDE DEF left
    <3> QED BY ONLY <3>2, <3>3, <3>4, <3>5
  <2>11. next.anchor = IF i + 1 = 0 THEN <<>> ELSE <<after[n + 1 - (i + 1)]>>
    BY <2>7 DEF tag, m
  <2>12. Agrees(next.sim, after, kept \cup E) /\ Distinct(next.sim)
    BY <2>4, <2>7, <2>9
  <2>13. PlanHolds(S, before, after, L, next, i + 1)
    BY <2>7, <2>8, <2>9, <2>10, <2>11, <2>12 DEF PlanHolds, E, n, kept
  <2> QED BY <2>13 DEF next, kept, tag, m, n
<1> QED BY <1>9, <1>10

LEMMA PlanEnds ==
  ASSUME NEW S, NEW before, NEW after, NEW L, PlanCase(S, before, after, L),
         NEW f, PlanTable(f, before, after, {before[q] : q \in L}, Len(after))
  PROVE  PlanHolds(S, before, after, L, f[Len(after)], Len(after))
<1> DEFINE kept == {before[q] : q \in L}
           n == Len(after)
           T == {i \in Nat : i <= n => PlanHolds(S, before, after, L, f[i], i)}
<1>0. n \in Nat
  BY DEF PlanCase
<1>1. \A i \in 0..n : f[i] = PlanRow(f, before, after, kept, i)
  BY DEF PlanTable
<1>2. 0 \in T
  <2>1. f[0] = PlanStart(before)
    <3>1. 0 \in 0..n
      BY <1>0
    <3> HIDE DEF kept, n
    <3> QED BY <1>1, <3>1 DEF PlanRow
  <2> QED BY <2>1, PlanStarts
<1>3. ASSUME NEW i \in T PROVE i + 1 \in T
  <2> SUFFICES ASSUME i + 1 <= n PROVE PlanHolds(S, before, after, L, f[i + 1], i + 1)
    OBVIOUS
  <2>1. i \in Nat /\ PlanHolds(S, before, after, L, f[i], i)
    BY <1>0, <1>3
  <2>2. i + 1 \in 0..n /\ i + 1 # 0 /\ i + 1 - 1 = i
    BY <1>0, <2>1
  <2>3. f[i + 1] = PlaceChild(kept, f[i], after[n + 1 - (i + 1)])
    <3>1. f[i + 1] = PlanRow(f, before, after, kept, i + 1)
      BY <1>1, <2>2
    <3> HIDE DEF kept, n
    <3> QED BY <2>2, <3>1 DEF PlanRow, n
  <2>4. i + 1 <= Len(after)
    OBVIOUS
  <2>5. PlanHolds(S, before, after, L, PlaceChild(kept, f[i], after[Len(after) + 1 - (i + 1)]), i + 1)
    BY <2>1, <2>4, PlanStep
  <2> QED BY <2>3, <2>5
<1>4. n \in T
  <2>1. T \in SUBSET Nat
    OBVIOUS
  <2> HIDE DEF T
  <2> QED BY <1>0, <1>2, <1>3, <2>1, NatSetInduction
<1> QED BY <1>0, <1>4

LEMMA AllThose ==
  ASSUME NEW S, NEW seq \in Seq(S), NEW A, \A i \in 1..Len(seq) : seq[i] \in A
  PROVE  Those(seq, A) = seq
<1> DEFINE n == Len(seq)
<1>0. n \in Nat
  OBVIOUS
<1>1. PICK f : Picks(f, seq, A)
  BY <1>0, ThoseIs
<1>2. \A i \in 0..n : f[i] \in Seq(S)
  BY <1>1, PicksSeq
<1> DEFINE T == {k \in Nat : k <= n => Len(f[k]) = k /\ \A j \in 1..k : f[k][j] = seq[j]}
<1>3. 0 \in T
  <2>1. f[0] = <<>>
    BY <1>1 DEF Picks
  <2> QED BY <2>1
<1>4. ASSUME NEW k \in T PROVE k + 1 \in T
  <2> SUFFICES ASSUME k + 1 <= n
               PROVE  Len(f[k + 1]) = k + 1 /\ \A j \in 1..k + 1 : f[k + 1][j] = seq[j]
    OBVIOUS
  <2>1. k \in Nat /\ k \in 0..n /\ k + 1 \in 1..n /\ k + 1 - 1 = k
    BY <1>0, <1>4
  <2>2. f[k + 1] = Append(f[k], seq[k + 1])
    <3>1. f[k + 1] = IF seq[k + 1] \in A THEN Append(f[k + 1 - 1], seq[k + 1]) ELSE f[k + 1 - 1]
      BY <1>1, <2>1 DEF Picks
    <3>2. seq[k + 1] \in A
      BY <2>1
    <3> QED BY ONLY <2>1, <3>1, <3>2
  <2>3. f[k] \in Seq(S) /\ Len(f[k]) = k /\ (\A j \in 1..k : f[k][j] = seq[j]) /\ seq[k + 1] \in S
    BY <1>2, <1>4, <2>1, ElementOfSeq
  <2>4. /\ Len(Append(f[k], seq[k + 1])) = k + 1
        /\ Append(f[k], seq[k + 1])[k + 1] = seq[k + 1]
        /\ \A j \in 1..k : Append(f[k], seq[k + 1])[j] = f[k][j]
    BY <2>1, <2>3, AppendProperties
  <2>5. \A j \in 1..k + 1 : j = k + 1 \/ j \in 1..k
    BY <2>1
  <2> QED BY <2>2, <2>3, <2>4, <2>5
<1>5. n \in T
  <2>1. T \in SUBSET Nat
    OBVIOUS
  <2> HIDE DEF T
  <2> QED BY <1>0, <1>3, <1>4, <2>1, NatSetInduction
<1>6. f[n] = Those(seq, A) /\ f[n] \in Seq(S)
  BY <1>0, <1>1, <1>2 DEF Picks
<1>7. Len(f[n]) = n /\ \A j \in 1..n : f[n][j] = seq[j]
  BY <1>0, <1>5
<1> HIDE DEF T
<1> QED BY <1>6, <1>7, SeqEqual

LEMMA MostKept ==
  ASSUME NEW values \in Seq(Nat), NEW part \in SUBSET (1..Len(values)), Ordered(values, part),
         \A q \in SUBSET (1..Len(values)) : Ordered(values, q) => Cardinality(q) <= Cardinality(part)
  PROVE  LET sizes == {Cardinality(q) : q \in {q \in SUBSET DOMAIN values : Ordered(values, q)}}
         IN  (CHOOSE n \in sizes : \A m \in sizes : m <= n) = Cardinality(part)
<1> DEFINE sizes == {Cardinality(q) : q \in {q \in SUBSET DOMAIN values : Ordered(values, q)}}
           c == Cardinality(part)
<1>1. DOMAIN values = 1..Len(values) /\ Len(values) \in Nat
  OBVIOUS
<1>2. \A q \in SUBSET (1..Len(values)) : Cardinality(q) \in Nat
  <2>1. IsFiniteSet(1..Len(values))
    BY <1>1, FS_Interval
  <2> QED BY <2>1, FS_Subset, FS_CardinalityType
<1>3. c \in sizes /\ \A m \in sizes : m \in Nat /\ m <= c
  BY <1>1, <1>2
<1> HIDE DEF sizes, c
<1>4. \A n \in sizes : (\A m \in sizes : m <= n) => n = c
  BY <1>3
<1>5. (CHOOSE n \in sizes : \A m \in sizes : m <= n) = c
  BY <1>3, <1>4
<1> QED BY <1>5 DEF sizes, c

(* What is asked of one plan.                                                *)
LEMMA PlanIsMinimal ==
  ASSUME NEW S, NEW before \in Seq(S), Distinct(before), NEW after \in Seq(S), Distinct(after),
         ToSet(before) \subseteq ToSet(after)
  PROVE  /\ CarriedOut(before, PlanChildMoves(before, after)) = after
         /\ Len(PlanChildMoves(before, after)) = FewestMoves(before, after)
<1> DEFINE targets == [i \in DOMAIN before |-> Position(after, before[i])]
           L == LongestIncreasing(targets)
           kept == {before[q] : q \in L}
           n == Len(after)
           f == CHOOSE f : PlanTable(f, before, after, kept, n)
           sizes == {Cardinality(part) : part \in {p \in SUBSET DOMAIN targets : Ordered(targets, p)}}
<1>0. Len(before) \in Nat /\ n \in Nat /\ DOMAIN before = 1..Len(before)
  OBVIOUS
<1>1. \A i \in 1..Len(before) : before[i] \in ToSet(after)
  BY InSet
<1>2. targets \in Seq(Nat) /\ Len(targets) = Len(before)
  <2>1. \A i \in 1..Len(before) : Position(after, before[i]) \in Nat
    BY <1>1, PlaceIs
  <2>2. targets \in [1..Len(before) -> Nat]
    BY <1>0, <2>1
  <2> HIDE DEF targets
  <2> QED BY <1>0, <2>2, SeqDef
<1>3. \A i \in 1..Len(before) : targets[i] = Position(after, before[i])
  BY <1>0
<1>4. FewestMoves(before, after) = n - (CHOOSE m \in sizes : \A l \in sizes : l <= m)
  BY DEF FewestMoves
<1>5. CASE before = after
  <2>1. PlanChildMoves(before, after) = <<>>
    BY <1>5 DEF PlanChildMoves
  <2>2. CarriedOut(before, <<>>) = before
    <3> DEFINE g == [i \in 0..0 |-> before]
    <3>1. g[0] = before /\ Len(<<>>) = 0 /\ 1..0 = {} /\ Len(<<>>) \in Nat
      OBVIOUS
    <3> HIDE DEF g
    <3>2. Reaches(before, <<>>, before)
      BY <3>1 DEF Reaches
    <3> QED BY <3>1, <3>2, CarriesOut
  <2> DEFINE part == 1..n
  <2>3. \A i \in 1..n : targets[i] = i
    BY <1>1, <1>3, <1>5, PlaceIs
  <2> HIDE DEF targets
  <2>4. Cardinality(part) = n /\ IsFiniteSet(part)
    <3>0. 1 \in Int /\ n \in Int
      BY <1>0
    <3> HIDE DEF n
    <3>1. IsFiniteSet(1..n) /\ Cardinality(1..n) = IF 1 > n THEN 0 ELSE n - 1 + 1
      BY ONLY <3>0, FS_Interval
    <3>2. (IF 1 > n THEN 0 ELSE n - 1 + 1) = n
      BY <1>0
    <3> QED BY <3>1, <3>2
  <2>5. part \in SUBSET (1..Len(targets)) /\ Ordered(targets, part)
    BY <1>2, <1>5, <2>3 DEF Ordered
  <2>6. \A q \in SUBSET (1..Len(targets)) : Cardinality(q) <= Cardinality(part)
    BY <1>2, <1>5, <2>4, FS_Subset
  <2> HIDE DEF part
  <2>7. (CHOOSE m \in sizes : \A l \in sizes : l <= m) = Cardinality(part)
    BY <1>2, <2>5, <2>6, MostKept
  <2> HIDE DEF sizes
  <2>8. FewestMoves(before, after) = n - n /\ n - n = 0
    <3>1. n - n = 0
      BY <1>0
    <3> HIDE DEF n
    <3> QED BY ONLY <1>4, <2>4, <2>7, <3>1
  <2>9. Len(<<>>) = 0
    OBVIOUS
  <2> QED BY <1>5, <2>1, <2>2, <2>8, <2>9
<1>6. CASE before # after
  <2>1. PlanChildMoves(before, after) = f[n].moves
    <3>1. Those(before, ToSet(after)) = before
      BY <1>1, AllThose
    <3> QED BY <1>6, <3>1 DEF PlanChildMoves, PlanTable, PlanRow, PlanStart
  <2> HIDE DEF targets
  <2>2. /\ L \in SUBSET (1..Len(targets)) /\ Ordered(targets, L)
        /\ \A q \in SUBSET (1..Len(targets)) : Ordered(targets, q) => Cardinality(q) <= Cardinality(L)
    BY <1>2, LongestIs
  <2> HIDE DEF L
  <2>3. PlanTable(f, before, after, kept, n)
    <3> HIDE DEF kept, n
    <3> QED BY <1>0, PlanTableExists
  <2> HIDE DEF f
  <2>4. PlanCase(S, before, after, L)
    <3>1. \A i, j \in L : i < j => Position(after, before[i]) < Position(after, before[j])
      BY <1>2, <1>3, <2>2 DEF Ordered
    <3> QED BY <1>2, <2>2, <3>1 DEF PlanCase
  <2>5. PlanHolds(S, before, after, L, f[n], n)
    BY <2>3, <2>4, PlanEnds
  <2>6. Done(after, n) = ToSet(after)
    <3>1. n + 1 - n = 1 /\ DOMAIN after = 1..n
      BY <1>0
    <3> QED BY <3>1 DEF Done, ToSet
  <2>7. /\ f[n].sim \in Seq(S) /\ f[n].moves \in Seq(S \X Nat) /\ Distinct(f[n].sim)
        /\ ToSet(f[n].sim) = ToSet(before) \cup ToSet(after)
        /\ Agrees(f[n].sim, after, kept \cup ToSet(after))
        /\ Reaches(before, f[n].moves, f[n].sim)
        /\ Len(f[n].moves) + Cardinality({q \in L : before[q] \in ToSet(after)}) = n
    <3> HIDE DEF n
    <3> QED BY <2>5, <2>6 DEF PlanHolds
  <2>8. f[n].sim = after
    <3>1. ToSet(f[n].sim) = ToSet(after)
      BY <2>7
    <3>2. Agrees(f[n].sim, after, ToSet(after))
      BY <2>7 DEF Agrees
    <3> QED BY <2>7, <3>1, <3>2, SameOrder
  <2>9. CarriedOut(before, f[n].moves) = after
    <3>1. Len(f[n].moves) \in Nat
      BY <2>7
    <3> QED BY <2>7, <2>8, <3>1, CarriesOut
  <2>10. Len(f[n].moves) = n - Cardinality(L)
    <3>1. {q \in L : before[q] \in ToSet(after)} = L
      BY <1>1, <1>2, <2>2
    <3>2. Len(f[n].moves) + Cardinality(L) = n /\ Len(f[n].moves) \in Nat
      <4>1. Cardinality({q \in L : before[q] \in ToSet(after)}) = Cardinality(L)
        BY <3>1
      <4>2. Len(f[n].moves) + Cardinality({q \in L : before[q] \in ToSet(after)}) = n
        BY <2>7
      <4>3. Len(f[n].moves) \in Nat
        BY <2>7
      <4> QED BY ONLY <4>1, <4>2, <4>3
    <3>3. Cardinality(L) \in Nat
      <4>1. IsFiniteSet(1..Len(targets))
        BY <1>0, <1>2, FS_Interval
      <4> QED BY <2>2, <4>1, FS_Subset, FS_CardinalityType
    <3> QED BY <1>0, <3>2, <3>3
  <2>11. (CHOOSE m \in sizes : \A l \in sizes : l <= m) = Cardinality(L)
    BY <1>2, <2>2, MostKept
  <2> HIDE DEF sizes
  <2> QED BY <1>4, <2>1, <2>9, <2>10, <2>11
<1> QED BY <1>5, <1>6

(* For any number of children and any order of them the plan of child moves  *)
(* (plan_child_moves), carried out by the core, gives the order asked for,   *)
(* and no plan that leaves an ordered part of the children where it is has   *)
(* fewer insertions.                                                         *)
THEOREM PlansMoveTheFewest == PlansAreMinimal
<1> SUFFICES ASSUME NEW before \in ChildOrders, NEW after \in ChildOrders,
                    ToSet(before) \subseteq ToSet(after)
             PROVE  LET moves == PlanChildMoves(before, after)
                    IN  CarriedOut(before, moves) = after /\ Len(moves) = FewestMoves(before, after)
  BY DEF PlansAreMinimal
<1>1. ASSUME NEW s \in ChildOrders PROVE s \in Seq(Children) /\ Distinct(s)
  <2>1. PICK n \in 0..Cardinality(Children) : s \in [1..n -> Children]
    BY <1>1 DEF ChildOrders
  <2>2. n \in Nat
    BY ChildrenAssumption, FS_CardinalityType
  <2>3. s \in Seq(Children) /\ DOMAIN s = 1..n /\ Len(s) = n
    BY <2>1, <2>2, SeqDef
  <2>4. IsInjective(s)
    BY <1>1 DEF ChildOrders
  <2> QED BY <2>3, <2>4 DEF Distinct, IsInjective
<1> QED BY <1>1, PlanIsMinimal
=============================================================================
