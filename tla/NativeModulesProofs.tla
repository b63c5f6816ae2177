------------------------- MODULE NativeModulesProofs -------------------------
(***************************************************************************)
(* Proofs about NativeModules and the Mailbox under it, for every set of   *)
(* streams and views.                                                      *)
(*                                                                         *)
(* 1. A stream that has ended has left nothing behind.  What is on its way *)
(*    about a call agrees with what became of its promise (Honest), and    *)
(*    each stage of a stream's task allows few states of its promise, its  *)
(*    entry in the call table and its listener (Stage).                    *)
(* 2. A stream's readings stay whole: each is in one of five places, and   *)
(*    the places follow each other (Accounted).                            *)
(* 3. Input stays in order: along the way from the mailbox through the     *)
(*    ready queue each view's samples grow from the one shown to the one   *)
(*    sent last, a discrete message stands between those sent before it    *)
(*    and after it (Ordered), and an open slot has nothing behind it that  *)
(*    a later sample would overtake (SlotsLast).                           *)
(***************************************************************************)
EXTENDS NativeModules, SequencesExt, SequenceTheorems, WellFoundedInduction, TLAPS

(* FlattenSeq, the concatenation of the sequences in a sequence.  The model  *)
(* reads a queue as what its entries carry: each entry stands for a sequence *)
(* of no or one element, and the queue for their concatenation.              *)

(* Concatenation is associative; named, so that it is instantiated where it  *)
(* is meant to be.                                                           *)
Regroups(a, b, c) == (a \o b) \o c = a \o (b \o c)
LEMMA Regroup ==
  ASSUME NEW S, NEW a \in Seq(S), NEW b \in Seq(S), NEW c \in Seq(S)
  PROVE  Regroups(a, b, c)
BY ConcatAssociative DEF Regroups

(* Induction over the natural numbers, for a set of them. *)
LEMMA NatSetInduction ==
  ASSUME NEW T \in SUBSET Nat, 0 \in T, \A n \in T : n + 1 \in T
  PROVE  Nat \subseteq T
<1> DEFINE U == Nat \ T
<1> SUFFICES ASSUME U # {} PROVE FALSE
  OBVIOUS
<1>1. \E x \in U : \A y \in U : <<y, x>> \notin OpToRel(<, Nat)
  <2>1. U \subseteq Nat
    OBVIOUS
  <2> HIDE DEF U
  <2> QED BY <2>1, NatLessThanWellFounded, WFMin
<1>2. PICK x \in U : \A y \in U : ~(y < x)
  BY <1>1 DEF OpToRel
<1>3. x # 0 /\ x - 1 \in Nat /\ x - 1 \notin U
  BY <1>2
<1>4. x - 1 + 1 \in T
  BY <1>3
<1> QED BY <1>4

(* f is the table of FlattenSeq for the first n sequences of seqs. *)
Table(f, seqs, n) ==
  f = [i \in 1..n |-> IF i = 1 THEN seqs[i] ELSE f[i - 1] \o seqs[i]]

LEMMA TableExists ==
  ASSUME NEW seqs, NEW n \in Nat
  PROVE  \E f : Table(f, seqs, n)
<1> DEFINE T == {k \in Nat : \E f : Table(f, seqs, k)}
<1>1. 0 \in T
  <2> DEFINE f == [i \in 1..0 |-> seqs]
  <2>1. f = [i \in 1..0 |-> IF i = 1 THEN seqs[i] ELSE f[i - 1] \o seqs[i]]
    OBVIOUS
  <2> HIDE DEF f
  <2> QED BY <2>1 DEF Table
<1>2. ASSUME NEW k \in T PROVE k + 1 \in T
  <2> PICK f : Table(f, seqs, k)
    BY <1>2
  <2> DEFINE g == [i \in 1..k + 1 |->
                     IF i = k + 1 THEN IF i = 1 THEN seqs[i] ELSE f[k] \o seqs[i] ELSE f[i]]
  <2>1. \A i \in 1..k : f[i] = IF i = 1 THEN seqs[i] ELSE f[i - 1] \o seqs[i]
    BY DEF Table
  <2>2. \A i \in 1..k + 1 : g[i] = IF i = 1 THEN seqs[i] ELSE g[i - 1] \o seqs[i]
    <3> SUFFICES ASSUME NEW i \in 1..k + 1
                 PROVE  g[i] = IF i = 1 THEN seqs[i] ELSE g[i - 1] \o seqs[i]
      OBVIOUS
    <3>1. i # 1 => i - 1 \in 1..k /\ g[i - 1] = f[i - 1]
      OBVIOUS
    <3>2. i # k + 1 => i \in 1..k /\ g[i] = f[i]
      OBVIOUS
    <3> QED BY <2>1, <3>1, <3>2
  <2>3. g = [i \in 1..k + 1 |-> IF i = 1 THEN seqs[i] ELSE g[i - 1] \o seqs[i]]
    <3>1. g = [i \in 1..k + 1 |-> g[i]]
      OBVIOUS
    <3> HIDE DEF g
    <3> QED BY <2>2, <3>1
  <2> HIDE DEF g
  <2>4. \E h : Table(h, seqs, k + 1)
    BY <2>3 DEF Table
  <2> QED BY <2>4
<1> HIDE DEF T
<1>3. n \in T
  BY <1>1, <1>2, NatSetInduction DEF T
<1> QED BY <1>3 DEF T

(* FlattenSeq reads the last entry of such a table. *)
LEMMA FlattenTable ==
  ASSUME NEW seqs, Len(seqs) \in Nat \ {0}
  PROVE  \E f : Table(f, seqs, Len(seqs)) /\ FlattenSeq(seqs) = f[Len(seqs)]
<1> DEFINE f == CHOOSE f : Table(f, seqs, Len(seqs))
<1>1. Table(f, seqs, Len(seqs))
  BY TableExists
<1>2. FlattenSeq(seqs) = f[Len(seqs)]
  BY DEF FlattenSeq, Table
<1> QED BY <1>1, <1>2

LEMMA TableRow ==
  ASSUME NEW f, NEW seqs, NEW n, Table(f, seqs, n), NEW i \in 1..n
  PROVE  f[i] = IF i = 1 THEN seqs[i] ELSE f[i - 1] \o seqs[i]
<1> DEFINE row(j) == IF j = 1 THEN seqs[j] ELSE f[j - 1] \o seqs[j]
<1>1. f = [j \in 1..n |-> row(j)]
  BY DEF Table
<1> HIDE DEF row
<1>2. f[i] = row(i)
  BY <1>1
<1> QED BY <1>2 DEF row

(* Two such tables agree where their sequences do. *)
LEMMA SameTables ==
  ASSUME NEW S, NEW seqs, NEW more, NEW n \in Nat, NEW m \in Nat, n <= m,
         NEW f, NEW g, Table(f, seqs, n), Table(g, more, m),
         \A i \in 1..n : more[i] = seqs[i] /\ seqs[i] \in Seq(S)
  PROVE  \A i \in 1..n : g[i] = f[i] /\ f[i] \in Seq(S)
<1> DEFINE T == {i \in Nat : i \in 1..n => g[i] = f[i] /\ f[i] \in Seq(S)}
<1>1. 0 \in T
  OBVIOUS
<1>2. ASSUME NEW i \in T, i + 1 \in 1..n PROVE g[i + 1] = f[i + 1] /\ f[i + 1] \in Seq(S)
  <2>1. i \in Nat /\ i + 1 \in 1..m /\ i + 1 - 1 = i
    BY <1>2
  <2>2. f[i + 1] = IF i + 1 = 1 THEN seqs[i + 1] ELSE f[i + 1 - 1] \o seqs[i + 1]
    BY <1>2, TableRow
  <2>3. g[i + 1] = IF i + 1 = 1 THEN more[i + 1] ELSE g[i + 1 - 1] \o more[i + 1]
    BY <2>1, TableRow
  <2>4. more[i + 1] = seqs[i + 1] /\ seqs[i + 1] \in Seq(S)
    BY <1>2
  <2>5. CASE i = 0
    BY <2>2, <2>3, <2>4, <2>5
  <2>6. CASE i # 0
    <3>1. g[i] = f[i] /\ f[i] \in Seq(S)
      BY <1>2, <2>6
    <3> QED BY <2>1, <2>2, <2>3, <2>4, <2>6, <3>1
  <2> QED BY <2>5, <2>6
<1>3. \A i \in T : i + 1 \in T
  BY <1>2
<1>4. T \in SUBSET Nat
  OBVIOUS
<1> HIDE DEF T
<1>5. Nat \subseteq T
  BY <1>1, <1>3, <1>4, NatSetInduction
<1> QED BY <1>5 DEF T

(* A sequence appended is concatenated behind the others. *)
LEMMA FlattenAppend ==
  ASSUME NEW S, NEW seqs \in Seq(Seq(S)), NEW x \in Seq(S)
  PROVE  /\ FlattenSeq(seqs) \in Seq(S)
         /\ FlattenSeq(Append(seqs, x)) = FlattenSeq(seqs) \o x
<1>0. PICK n, m, more : n = Len(seqs) /\ m = n + 1 /\ more = Append(seqs, x)
  OBVIOUS
<1>1. /\ n \in Nat /\ m \in Nat \ {0} /\ Len(more) = m /\ more[m] = x
      /\ \A i \in 1..n : more[i] = seqs[i] /\ seqs[i] \in Seq(S)
  BY <1>0
<1>2. PICK g : Table(g, more, m) /\ FlattenSeq(more) = g[m]
  BY <1>1, FlattenTable
<1>3. g[m] = IF n = 0 THEN x ELSE g[n] \o x
  <2>1. m \in 1..m /\ m - 1 = n /\ (m = 1 <=> n = 0)
    BY <1>0, <1>1
  <2>2. g[m] = IF m = 1 THEN more[m] ELSE g[m - 1] \o more[m]
    BY <1>2, <2>1, TableRow
  <2> QED BY <1>1, <2>1, <2>2
<1>4. CASE n = 0
  <2>1. Len(seqs) = 0 /\ seqs = <<>>
    BY <1>0, <1>4, EmptySeq
  <2>3. FlattenSeq(seqs) = <<>>
    BY <2>1 DEF FlattenSeq
  <2>2. <<>> \o x = x /\ <<>> \in Seq(S)
    OBVIOUS
  <2> QED BY <1>0, <1>2, <1>3, <1>4, <2>2, <2>3
<1>5. CASE n # 0
  <2>1. PICK f : Table(f, seqs, n) /\ FlattenSeq(seqs) = f[n]
    BY <1>0, <1>1, <1>5, FlattenTable
  <2>2. \A i \in 1..n : g[i] = f[i] /\ f[i] \in Seq(S)
    <3>1. n <= m
      BY <1>0, <1>1
    <3> QED BY <1>1, <1>2, <2>1, <3>1, SameTables
  <2>3. g[n] = f[n] /\ f[n] \in Seq(S)
    BY <1>1, <1>5, <2>2
  <2> QED BY <1>0, <1>2, <1>3, <1>5, <2>1, <2>3
<1> QED BY <1>4, <1>5

LEMMA IsAppend ==
  ASSUME NEW S, NEW s \in Seq(S), NEW x \in S, NEW more \in Seq(S), Len(more) = Len(s) + 1,
         \A i \in 1..Len(s) : more[i] = s[i], more[Len(s) + 1] = x
  PROVE  more = Append(s, x)
<1>1. /\ Append(s, x) \in Seq(S) /\ Len(Append(s, x)) = Len(s) + 1 /\ Len(s) \in Nat
      /\ \A i \in 1..Len(s) : Append(s, x)[i] = s[i]
      /\ Append(s, x)[Len(s) + 1] = x
  OBVIOUS
<1>2. \A i \in 1..Len(more) : more[i] = Append(s, x)[i]
  BY <1>1
<1> QED BY <1>1, <1>2, SeqEqual

LEMMA OneLong ==
  ASSUME NEW S, NEW s \in Seq(S), Len(s) = 1
  PROVE  Head(s) \in S /\ s = Append(<<>>, Head(s)) /\ Tail(s) = <<>>
<1>1. s[1] \in S /\ Head(s) = s[1] /\ Tail(s) \in Seq(S) /\ Len(Tail(s)) = 0
  OBVIOUS
<1>2. Tail(s) = <<>>
  BY <1>1, EmptySeq
<1>3. /\ Append(<<>>, s[1]) \in Seq(S) /\ Len(Append(<<>>, s[1])) = 1
      /\ \A i \in 1..1 : Append(<<>>, s[1])[i] = s[i]
  BY <1>1
<1>4. s = Append(<<>>, s[1])
  BY <1>3, SeqEqual
<1> QED BY <1>1, <1>2, <1>4

LEMMA FrontAndLast ==
  ASSUME NEW S, NEW n \in Nat, NEW s \in Seq(S), Len(s) = n + 1 + 1
  PROVE  /\ SubSeq(s, 1, n + 1) \in Seq(S) /\ Len(SubSeq(s, 1, n + 1)) = n + 1
         /\ SubSeq(s, 1, n + 1) # <<>> /\ s = Append(SubSeq(s, 1, n + 1), s[n + 1 + 1])
<1>1. /\ SubSeq(s, 1, n + 1) \in Seq(S) /\ Len(SubSeq(s, 1, n + 1)) = n + 1
      /\ \A i \in 1..n + 1 : SubSeq(s, 1, n + 1)[i] = s[i]
      /\ s[n + 1 + 1] \in S
  OBVIOUS
<1> DEFINE front == SubSeq(s, 1, n + 1)
           x == s[n + 1 + 1]
<1>2. front # <<>>
  BY <1>1
<1>3. s = Append(front, x)
  <2>1. front \in Seq(S) /\ Len(front) = n + 1 /\ x \in S /\ \A i \in 1..n + 1 : front[i] = s[i]
    BY <1>1
  <2> HIDE DEF front
  <2>2. Append(front, x) \in Seq(S) /\ Len(Append(front, x)) = Len(s)
    BY <2>1
  <2>3. \A i \in 1..Len(s) : Append(front, x)[i] = s[i]
    BY <2>1
  <2> QED BY <2>2, <2>3, SeqEqual
<1> QED BY <1>1, <1>2, <1>3

(* The first sequence is in front of the concatenation of the others: *)
(* by induction on how many others there are.                         *)
InFront(seqs) == FlattenSeq(seqs) = Head(seqs) \o FlattenSeq(Tail(seqs))

LEMMA InFrontAppend ==
  ASSUME NEW S, NEW front \in Seq(Seq(S)), front # <<>>, InFront(front), NEW x \in Seq(S)
  PROVE  InFront(Append(front, x))
<1> DEFINE seqs == Append(front, x)
           a == Head(front)
           b == FlattenSeq(Tail(front))
<1>1. Head(seqs) = a /\ Tail(seqs) = Append(Tail(front), x) /\ Tail(front) \in Seq(Seq(S))
  OBVIOUS
<1>2. a \in Seq(S)
  OBVIOUS
<1>3. b \in Seq(S) /\ FlattenSeq(Tail(seqs)) = b \o x
  <2> HIDE DEF a, seqs
  <2> QED BY <1>1, FlattenAppend
<1>4. FlattenSeq(seqs) = FlattenSeq(front) \o x
  BY FlattenAppend
<1>5. FlattenSeq(front) = a \o b
  BY DEF InFront
<1> HIDE DEF a, b, seqs
<1>6. (a \o b) \o x = a \o (b \o x)
  <2>1. Regroups(a, b, x)
    BY <1>2, <1>3, Regroup
  <2> QED BY <2>1 DEF Regroups
<1>7. InFront(seqs)
  BY <1>1, <1>3, <1>4, <1>5, <1>6 DEF InFront
<1> QED BY <1>7 DEF seqs

LEMMA FlattenTail ==
  ASSUME NEW S, NEW seqs \in Seq(Seq(S)), seqs # <<>>
  PROVE  /\ FlattenSeq(Tail(seqs)) \in Seq(S)
         /\ FlattenSeq(seqs) = Head(seqs) \o FlattenSeq(Tail(seqs))
<1> DEFINE T == {n \in Nat : \A s \in Seq(Seq(S)) : Len(s) = n + 1 => InFront(s)}
<1>1. ASSUME NEW s \in Seq(Seq(S)), Len(s) = 1 PROVE InFront(s)
  <2>1. Head(s) \in Seq(S) /\ s = Append(<<>>, Head(s)) /\ Tail(s) = <<>>
    BY <1>1, OneLong
  <2>2. FlattenSeq(<<>>) = <<>> /\ <<>> \in Seq(Seq(S))
    BY DEF FlattenSeq
  <2>3. FlattenSeq(s) = <<>> \o Head(s)
    BY <2>1, <2>2, FlattenAppend
  <2> QED BY <2>1, <2>2, <2>3, ConcatEmptySeq DEF InFront
<1>2. ASSUME NEW n \in Nat, NEW s \in Seq(Seq(S)), Len(s) = n + 1 + 1,
             \A r \in Seq(Seq(S)) : Len(r) = n + 1 => InFront(r)
      PROVE  InFront(s)
  <2> DEFINE front == SubSeq(s, 1, n + 1)
             x == s[n + 1 + 1]
  <2>1. front \in Seq(Seq(S)) /\ Len(front) = n + 1 /\ front # <<>> /\ s = Append(front, x)
    BY <1>2, FrontAndLast
  <2>2. x \in Seq(S)
    BY <1>2
  <2> HIDE DEF front, x
  <2>3. InFront(front)
    BY <1>2, <2>1
  <2>4. InFront(Append(front, x))
    BY <2>1, <2>2, <2>3, InFrontAppend
  <2> QED BY <2>1, <2>4
<1>3. 0 \in T
  BY <1>1
<1>4. ASSUME NEW n \in T PROVE n + 1 \in T
  BY <1>2
<1>5. T \in SUBSET Nat
  OBVIOUS
<1>6. \A n \in Nat : n \in T
  <2> HIDE DEF T
  <2> QED BY <1>3, <1>4, <1>5, NatSetInduction
<1>7. Len(seqs) - 1 \in Nat /\ Len(seqs) - 1 + 1 = Len(seqs)
  BY EmptySeq
<1>8. InFront(seqs)
  BY <1>6, <1>7
<1>9. Tail(seqs) \in Seq(Seq(S)) /\ <<>> \in Seq(S)
  OBVIOUS
<1>10. FlattenSeq(Tail(seqs)) \in Seq(S)
  <2> HIDE DEF T
  <2> QED BY <1>9, FlattenAppend
<1> QED BY <1>8, <1>10 DEF InFront

---------------------------------------------------------------------------

Outcomes == {"ok", "error"}
Sources == Streams \cup Others
Moments == [Views -> Nat]
Message ==
         [kind : {"sample"}, view : Views, n : Nat, open : BOOLEAN]
    \cup [kind : {"settle"}, stream : Streams, outcome : Outcomes, at : Moments]
    \cup [kind : {"reading"}, stream : Sources, n : Nat, at : Moments]
    \cup [kind : {"complete"}, stream : Streams, outcome : Outcomes]
    \cup [kind : {"wake"}, stream : Streams]
    \cup [kind : {"enqueue"}, to : SUBSET Streams, stream : Sources, n : Nat]

(* What is on its way says what became of the call, and a reading is of a    *)
(* subscription somebody has asked for.                                      *)
Honest ==
    {m \in Message :
        /\ m.kind \in {"settle", "complete"} => promise[m.stream] = m.outcome
        /\ m.kind \in {"reading", "enqueue"} /\ m.stream \in Streams => task[m.stream].at # "new"}
Settled == {t \in Streams : promise[t] \in Outcomes}

Promises == {"none", "working", "ok", "error", "cancelled"}
TaskType ==
    [at : {"new", "starting", "iterating", "stopped", "failed", "cancelled"},
     future : {"none", "waiting", "ok", "error", "cancelled"}, cancel : BOOLEAN]
Aside == [stream : Sources, n : Nat]

TypeOK ==
    /\ registered \in BOOLEAN /\ owed \subseteq {"ui", "python"} /\ draining \in BOOLEAN
    /\ mailbox \in Seq(Honest) /\ ready \in Seq(Honest) /\ settling \in Seq(Settled)
    /\ messages \in Nat /\ sent \in Moments /\ shown \in Moments
    /\ promise \in [Streams -> Promises]
    /\ running \subseteq Sources /\ emitted \in [Sources -> Nat]
    /\ task \in [Streams -> TaskType]
    /\ pending \subseteq Streams /\ listening \subseteq Streams
    /\ early \in [Streams -> Seq(Aside)]
    /\ yielded \in [Streams -> Seq(Nat)]

Stage(t) ==
    /\ task[t].at = "new" => promise[t] = "none" /\ t \notin pending \cup listening
    /\ task[t].at = "starting" => promise[t] \in {"working", "ok", "error"} /\ t \in listening
    /\ task[t].at = "iterating" => promise[t] = "ok" /\ t \in listening
    /\ Ended(t) => t \notin pending \cup listening /\ promise[t] # "working"
    /\ t \in running => promise[t] = "ok" /\ task[t].at \in {"starting", "iterating", "cancelled"}
    /\ task[t].future \in Outcomes => task[t].future = promise[t]
    /\ task[t].future # "none" \/ task[t].cancel => task[t].at = "starting"
Stages == \A t \in Streams : Stage(t)
NInv == TypeOK /\ Stages

(* Every reading of an open stream is in one place, and the places follow    *)
(* each other: what has been yielded, what was put aside while the id was    *)
(* not known, the two legs through the loop, and the mailbox.  What was put  *)
(* aside is taken over when the task goes on to iterate.                     *)
FromNative == {m \in Message : m.kind \in {"sample", "settle", "reading"}}
InTurn(y, o, e, r, m, n) == y \o o \o e \o r \o m = [i \in 1..n |-> i]
Accounted(t) ==
    task[t].at \in {"new", "starting", "iterating"} =>
        /\ task[t].at # "iterating" => yielded[t] = <<>>
        /\ task[t].at # "starting" => early[t] = <<>>
        /\ InTurn(yielded[t], Own(t), Carried(t, ready, "enqueue"),
                  Carried(t, ready, "reading"), Carried(t, mailbox, "reading"), emitted[t])
RInv == mailbox \in Seq(FromNative) /\ \A t \in Streams : Accounted(t)

(* Along the way to the handlers, the samples of v grow from the one shown   *)
(* (lo) to the latest (hi), and a discrete message stands between the        *)
(* samples that were sent before it and those sent after.  A slot that is    *)
(* still open has no discrete message behind it.                             *)
IsSample(m, v) == m.kind = "sample" /\ m.view = v
IsDiscrete(m) == m.kind \in {"settle", "reading"}
Between(way, p, v, lo, hi) ==
    /\ lo <= way[p].at[v] /\ way[p].at[v] <= hi
    /\ \A i \in DOMAIN way : IsSample(way[i], v) =>
          IF i < p THEN way[i].n <= way[p].at[v] ELSE way[p].at[v] < way[i].n
    /\ \/ way[p].at[v] = lo
       \/ \E i \in DOMAIN way : i < p /\ IsSample(way[i], v) /\ way[i].n = way[p].at[v]
Ordered(way, v, lo, hi) ==
    /\ \A i \in DOMAIN way : IsSample(way[i], v) => lo < way[i].n /\ way[i].n <= hi
    /\ \A i, j \in DOMAIN way :
          IsSample(way[i], v) /\ IsSample(way[j], v) /\ i < j => way[i].n < way[j].n
    /\ lo = hi \/ \E i \in DOMAIN way : IsSample(way[i], v) /\ way[i].n = hi
    /\ \A p \in DOMAIN way : IsDiscrete(way[p]) => Between(way, p, v, lo, hi)
Open1(m) == m.kind = "sample" /\ m.open
SlotsLast(queue) ==
    \A i, j \in DOMAIN queue : Open1(queue[i]) /\ i < j =>
        ~IsDiscrete(queue[j]) /\ ~IsSample(queue[j], queue[i].view)
OInv ==
    /\ SlotsLast(ready)
    /\ \A v \in Views : Ordered(ready \o mailbox, v, shown[v], sent[v])

---------------------------------------------------------------------------
(* The queues keep to a set of messages that is closed under closing slots.  *)
LEMMA FrontLast ==
  ASSUME NEW S, NEW q \in Seq(S), q # <<>>
  PROVE  /\ Front(q) \in Seq(S) /\ Len(Front(q)) = Len(q) - 1
         /\ \A i \in 1..Len(q) - 1 : Front(q)[i] = q[i]
         /\ Last(q) = q[Len(q)] /\ Len(q) \in Nat \ {0} /\ Last(q) \in S
<1>1. Len(q) \in Nat \ {0}
  BY EmptySeq
<1>2. Front(q) = SubSeq(q, 1, Len(q) - 1) /\ Last(q) = q[Len(q)]
  BY DEF Front, Last
<1>3. PICK n \in Nat : n = Len(q) - 1 /\ Len(q) = n + 1
  BY <1>1
<1>4. /\ SubSeq(q, 1, n) \in Seq(S) /\ Len(SubSeq(q, 1, n)) = n
      /\ \A i \in 1..n : SubSeq(q, 1, n)[i] = q[i]
      /\ q[n + 1] \in S
  BY <1>3
<1> QED BY <1>1, <1>2, <1>3, <1>4

LEMMA QueuedType ==
  ASSUME NEW S, mailbox \in Seq(S), NEW m \in S
  PROVE  Queued(m) \in Seq(S)
BY FrontLast DEF Queued

LEMMA PostedType ==
  ASSUME NEW S, ready \in Seq(S), NEW m \in S,
         \A x \in S : Continuous(x) => [x EXCEPT !.open = FALSE] \in S
  PROVE  Posted(m) \in Seq(S)
<1>1. Closed(ready) \in Seq(S)
  <2> DEFINE x(i) == IF Continuous(ready[i]) THEN [ready[i] EXCEPT !.open = FALSE] ELSE ready[i]
  <2>1. \A i \in 1..Len(ready) : x(i) \in S
    OBVIOUS
  <2>2. Closed(ready) = [i \in 1..Len(ready) |-> x(i)] /\ Len(ready) \in Nat
    BY DEF Closed
  <2> HIDE DEF x
  <2> QED BY <2>1, <2>2
<1>2. [i \in DOMAIN ready |-> IF i \in OpenSlots(m.view) THEN m ELSE ready[i]] \in Seq(S)
  <2> DEFINE x(i) == IF i \in OpenSlots(m.view) THEN m ELSE ready[i]
  <2>1. \A i \in 1..Len(ready) : x(i) \in S
    OBVIOUS
  <2> HIDE DEF x
  <2>2. [i \in 1..Len(ready) |-> x(i)] \in Seq(S)
    BY <2>1
  <2> QED BY <2>2 DEF x
<1> QED BY <1>1, <1>2 DEF Posted

(* What becomes of an honest message when its slot is closed. *)
LEMMA HonestClosed ==
  \A m \in Honest : Continuous(m) => [m EXCEPT !.open = FALSE] \in Honest
BY DEF Honest, Message, Continuous

LEMMA HonestKinds ==
  ASSUME NEW m \in Honest
  PROVE  /\ m.kind = "sample" => m.view \in Views /\ m.n \in Nat /\ m.open \in BOOLEAN
         /\ m.kind = "settle" => /\ m.stream \in Streams /\ m.outcome \in Outcomes /\ m.at \in Moments
                                 /\ promise[m.stream] = m.outcome
         /\ m.kind = "reading" => /\ m.stream \in Sources /\ m.n \in Nat /\ m.at \in Moments
                                  /\ m.stream \in Streams => task[m.stream].at # "new"
         /\ m.kind = "complete" => /\ m.stream \in Streams /\ m.outcome \in Outcomes
                                   /\ promise[m.stream] = m.outcome
         /\ m.kind = "wake" => m.stream \in Streams
         /\ m.kind = "enqueue" => /\ m.stream \in Sources /\ m.n \in Nat /\ m.to \in SUBSET Streams
                                  /\ m.stream \in Streams => task[m.stream].at # "new"
BY DEF Honest, Message

(* A promise that is settled and a task that is not new stay so. *)
LEMMA HonestStays ==
  ASSUME \A t \in Streams : promise[t] \in Outcomes => promise'[t] = promise[t],
         \A t \in Streams : task[t].at # "new" => task'[t].at # "new"
  PROVE  /\ Honest \subseteq Honest' /\ Settled \subseteq Settled'
         /\ mailbox \in Seq(Honest) => mailbox \in Seq(Honest')
         /\ ready \in Seq(Honest) => ready \in Seq(Honest')
         /\ settling \in Seq(Settled) => settling \in Seq(Settled')
<1>1. Honest \subseteq Honest'
  <2> SUFFICES ASSUME NEW m \in Honest PROVE m \in Honest'
    OBVIOUS
  <2>1. m \in Message /\ m \in Message'
    BY DEF Honest, Message, Sources, Moments, Outcomes
  <2>2. m.kind \in {"settle", "complete"} => promise'[m.stream] = m.outcome
    BY HonestKinds
  <2>3. m.kind \in {"reading", "enqueue"} /\ m.stream \in Streams => task'[m.stream].at # "new"
    BY HonestKinds
  <2> QED BY <2>1, <2>2, <2>3 DEF Honest
<1>2. Settled \subseteq Settled'
  BY DEF Settled
<1> QED BY <1>1, <1>2

---------------------------------------------------------------------------
(* What a queue carries of a stream. *)
LEMMA KeptSeqs ==
  ASSUME NEW e \in Seq(Aside), NEW t
  PROVE  [i \in DOMAIN e |-> Kept(e[i], t)] \in Seq(Seq(Nat))
<1> DEFINE x(i) == Kept(e[i], t)
<1>1. \A i \in 1..Len(e) : x(i) \in Seq(Nat)
  <2>1. \A a \in Aside : Kept(a, t) \in Seq(Nat)
    BY DEF Kept, Aside
  <2>2. \A i \in 1..Len(e) : e[i] \in Aside
    OBVIOUS
  <2> QED BY <2>1, <2>2
<1>2. Len(e) \in Nat /\ DOMAIN e = 1..Len(e)
  OBVIOUS
<1> HIDE DEF x
<1>3. [i \in 1..Len(e) |-> x(i)] \in Seq(Seq(Nat))
  BY <1>1, <1>2
<1> QED BY <1>2, <1>3 DEF x

LEMMA OwnType ==
  ASSUME TypeOK, NEW t \in Streams
  PROVE  Own(t) \in Seq(Nat)
<1>1. [i \in DOMAIN early[t] |-> Kept(early[t][i], t)] \in Seq(Seq(Nat))
  BY KeptSeqs DEF TypeOK
<1>2. <<>> \in Seq(Nat)
  OBVIOUS
<1> QED BY <1>1, <1>2, FlattenAppend DEF Own

---------------------------------------------------------------------------
(* Type correctness and the stages, action by action. *)
Quiet == UNCHANGED <<native, python>>

LEMMA CallKeepsType ==
  ASSUME TypeOK, NEW m \in Honest', mailbox \in Seq(Honest'), CallPython(m)
  PROVE  /\ mailbox' \in Seq(Honest')
         /\ registered' = registered /\ owed' \subseteq {"ui", "python"} /\ draining' = draining
         /\ ready' = ready
BY QueuedType DEF CallPython, TypeOK

LEMMA NInit == Init => NInv
<1> SUFFICES ASSUME Init PROVE NInv
  OBVIOUS
<1> USE DEF Init, MailboxInit, Task
<1>1. TypeOK
  <2>1. <<>> \in Seq(Honest) /\ <<>> \in Seq(Settled) /\ <<>> \in Seq(Nat)
        /\ <<>> \in Seq(Aside)
    OBVIOUS
  <2>2. sent \in Moments /\ shown \in Moments /\ emitted \in [Sources -> Nat]
    BY DEF Moments, Sources
  <2>3. early \in [Streams -> Seq(Aside)] /\ yielded \in [Streams -> Seq(Nat)]
    BY <2>1
  <2> QED BY <2>1, <2>2, <2>3 DEF TypeOK, Sources, TaskType, Promises
<1>2. Stages
  BY NativeAssumption DEF Stages, Stage, Ended, Outcomes
<1> QED BY <1>1, <1>2 DEF NInv

LEMMA QuietKeepsHonest ==
  ASSUME Quiet PROVE Honest' = Honest /\ Settled' = Settled
BY DEF Quiet, native, python, Honest, Settled, Message, Sources, Moments, Outcomes

LEMMA QuietStages ==
  ASSUME Stages, Quiet PROVE Stages'
BY DEF Stages, Stage, Ended, Quiet, native, python

LEMMA QuietType ==
  ASSUME TypeOK, Quiet,
         registered' \in BOOLEAN, owed' \subseteq {"ui", "python"}, draining' \in BOOLEAN,
         mailbox' \in Seq(Honest), ready' \in Seq(Honest),
         messages' \in Nat, sent' \in Moments, shown' \in Moments
  PROVE  TypeOK'
BY QuietKeepsHonest DEF TypeOK, Quiet, native, python, Sources, Moments

LEMMA SampleStep ==
  ASSUME NInv, NEW v \in Views, Sample(v), Quiet
  PROVE  NInv'
<1> DEFINE m == [kind |-> "sample", view |-> v, n |-> sent'[v], open |-> v \notin Gestures]
<1>1. sent' \in Moments /\ messages' \in Nat /\ shown' \in Moments
  BY DEF NInv, TypeOK, Sample, Count, Moments
<1>2. m \in Honest
  BY <1>1 DEF Honest, Message, Moments
<1>3. CallPython(m)
  BY DEF Sample
<1> HIDE DEF m
<1>4. mailbox' \in Seq(Honest) /\ ready' = ready /\ registered' = registered /\ draining' = draining
      /\ owed' \subseteq {"ui", "python"}
  BY <1>2, <1>3, QuietKeepsHonest, CallKeepsType DEF NInv, TypeOK
<1>5. TypeOK'
  BY <1>1, <1>4, QuietType DEF NInv, TypeOK
<1> QED BY <1>5, QuietStages DEF NInv

LEMMA RegisterStep ==
  ASSUME NInv, Register, Quiet
  PROVE  NInv'
<1>1. TypeOK'
  BY QuietType DEF NInv, TypeOK, Register, input
<1> QED BY <1>1, QuietStages DEF NInv

LEMMA TransportStep ==
  ASSUME NInv, Transport
  PROVE  NInv'
<1>1. Quiet /\ TypeOK /\ Stages
  BY DEF Transport, Quiet, NInv
<1>2. CASE Drain
  <2>1. CASE mailbox = <<>>
    <3>1. TypeOK'
      BY <1>1, <1>2, <2>1, QuietType DEF TypeOK, Drain, input
    <3> QED BY <1>1, <3>1, QuietStages DEF NInv
  <2>2. CASE mailbox # <<>>
    <3>1. Head(mailbox) \in Honest /\ Tail(mailbox) \in Seq(Honest)
      BY <1>1, <2>2 DEF TypeOK
    <3>2. Posted(Head(mailbox)) \in Seq(Honest)
      BY <1>1, <3>1, HonestClosed, PostedType DEF TypeOK
    <3>3. TypeOK'
      BY <1>1, <1>2, <2>2, <3>1, <3>2, QuietType DEF TypeOK, Drain, input
    <3> QED BY <1>1, <3>3, QuietStages DEF NInv
  <2> QED BY <2>1, <2>2
<1>3. CASE \E thread \in {"ui", "python"} : ScheduleDrain(thread)
  <2>1. TypeOK'
    BY <1>1, <1>3, QuietType DEF TypeOK, ScheduleDrain, input
  <2> QED BY <1>1, <2>1, QuietStages DEF NInv
<1> QED BY <1>2, <1>3 DEF Transport

LEMMA FinishType ==
  ASSUME NEW S, ready \in Seq(S), ready # <<>>, NEW more \in Seq(S), Finish(more)
  PROVE  /\ ready' \in Seq(S) /\ Tail(ready) \in Seq(S) /\ ready' = Tail(ready) \o more
         /\ registered' = registered /\ mailbox' = mailbox /\ owed' = owed /\ draining' = draining
<1>1. Tail(ready) \in Seq(S)
  OBVIOUS
<1>2. Tail(ready) \o more \in Seq(S)
  BY <1>1
<1> QED BY <1>1, <1>2 DEF Finish

LEMMA FinishNothing ==
  ASSUME NEW S, ready \in Seq(S), ready # <<>>, Finish(<<>>)
  PROVE  ready' \in Seq(S) /\ ready' = Tail(ready)
<1>1. Tail(ready) \in Seq(S) /\ <<>> \in Seq(S)
  OBVIOUS
<1>2. Tail(ready) \o <<>> = Tail(ready)
  BY <1>1, ConcatEmptySeq
<1> QED BY <1>1, <1>2 DEF Finish

LEMMA NextHonest ==
  ASSUME TypeOK, NEW kind, Runs1(kind)
  PROVE  Next1 \in Honest /\ Next1.kind = kind /\ ready # <<>> /\ ready \in Seq(Honest)
BY DEF TypeOK, Runs1, Next1

LEMMA DeliverSampleStep ==
  ASSUME NInv, DeliverSample, Quiet
  PROVE  NInv'
<1>1. TypeOK /\ Runs1("sample") /\ Finish(<<>>)
  BY DEF NInv, DeliverSample
<1>2. Next1 \in Honest /\ Next1.kind = "sample" /\ ready' \in Seq(Honest)
  BY <1>1, NextHonest, FinishNothing
<1>3. shown' \in Moments
  <2>1. Next1.view \in Views /\ Next1.n \in Nat
    BY <1>2, HonestKinds
  <2> QED BY <1>1, <2>1 DEF DeliverSample, TypeOK, Moments
<1>4. TypeOK'
  BY <1>1, <1>2, <1>3, QuietType DEF TypeOK, DeliverSample, Finish
<1> QED BY <1>4, QuietStages DEF NInv

LEMMA DispatchAnswerStep ==
  ASSUME NInv, DispatchAnswer
  PROVE  NInv'
<1> DEFINE t == Next1.stream
           more == IF t \in pending THEN <<Complete(t, Next1.outcome)>> ELSE <<>>
<1>1. TypeOK /\ Stages /\ Runs1("settle") /\ Finish(more) /\ pending' = pending \ {t}
      /\ UNCHANGED <<input, native, task, listening, early, yielded>>
  BY DEF NInv, DispatchAnswer
<1>2. Next1 \in Honest /\ Next1.kind = "settle" /\ ready # <<>> /\ ready \in Seq(Honest)
  BY <1>1, NextHonest
<1>3. Complete(t, Next1.outcome) \in Honest
  BY <1>2, HonestKinds DEF Complete, Honest, Message
<1>4. more \in Seq(Honest)
  BY <1>3
<1> HIDE DEF more
<1>5. ready' \in Seq(Honest)
  BY <1>1, <1>2, <1>4, FinishType
<1>6. Honest' = Honest /\ Settled' = Settled
  BY <1>1 DEF native, Honest, Settled, Message, Sources, Moments, Outcomes
<1>7. TypeOK'
  BY <1>1, <1>5, <1>6 DEF TypeOK, Finish, input, native, Sources, Moments
<1>8. Stages'
  BY <1>1 DEF Stages, Stage, Ended, native
<1> QED BY <1>7, <1>8 DEF NInv

LEMMA ResolveFutureStep ==
  ASSUME NInv, ResolveFuture
  PROVE  NInv'
<1> DEFINE t == Next1.stream
           more == IF task[t].future = "waiting" THEN <<Wake(t)>> ELSE <<>>
<1>1. TypeOK /\ Stages /\ Runs1("complete") /\ Finish(more)
      /\ task' = (IF task[t].future = "waiting" THEN [task EXCEPT ![t].future = Next1.outcome] ELSE task)
      /\ UNCHANGED <<input, native, pending, listening, early, yielded>>
  BY DEF NInv, ResolveFuture
<1>2. Next1 \in Honest /\ Next1.kind = "complete" /\ ready # <<>> /\ ready \in Seq(Honest)
  BY <1>1, NextHonest
<1>3. t \in Streams /\ Next1.outcome \in Outcomes /\ promise[t] = Next1.outcome
  BY <1>2, HonestKinds
<1>4. Wake(t) \in Honest
  BY <1>3 DEF Wake, Honest, Message
<1>5. more \in Seq(Honest)
  BY <1>4
<1> HIDE DEF more
<1>6. ready' \in Seq(Honest)
  BY <1>1, <1>2, <1>5, FinishType
<1>7. promise' = promise /\ \A s \in Streams : task'[s].at = task[s].at
  BY <1>1, <1>3 DEF native, TypeOK
<1>8. mailbox' \in Seq(Honest') /\ ready' \in Seq(Honest') /\ settling' \in Seq(Settled')
  <2>1. Honest \subseteq Honest' /\ Settled \subseteq Settled'
    BY <1>7, HonestStays
  <2> QED BY <1>1, <1>6, <2>1 DEF TypeOK, Finish, native
<1>9. task' \in [Streams -> TaskType]
  <2>1. task[t] \in TaskType /\ task \in [Streams -> TaskType]
    BY <1>1, <1>3 DEF TypeOK
  <2>2. [task[t] EXCEPT !.future = Next1.outcome] \in TaskType
    BY <1>3, <2>1 DEF Outcomes, TaskType
  <2>3. [task EXCEPT ![t] = [task[t] EXCEPT !.future = Next1.outcome]] \in [Streams -> TaskType]
    BY <2>1, <2>2
  <2> QED BY <1>1, <2>1, <2>3
<1>10. TypeOK'
  BY <1>1, <1>8, <1>9 DEF TypeOK, Finish, input, native, Sources, Moments
<1>11. Stages'
  BY <1>1, <1>3 DEF Stages, Stage, Ended, native, TypeOK, Outcomes
<1> QED BY <1>10, <1>11 DEF NInv

Enqueues == [kind |-> "enqueue", to |-> listening, stream |-> Next1.stream, n |-> Next1.n]

LEMMA DispatchReadingStep ==
  ASSUME NInv, DispatchReading
  PROVE  NInv'
<1> DEFINE more == IF listening = {} THEN <<>> ELSE <<Enqueues>>
<1>1. TypeOK /\ Runs1("reading") /\ Finish(more) /\ UNCHANGED input /\ Quiet
  BY DEF NInv, DispatchReading, Quiet, Enqueues
<1>2. Next1 \in Honest /\ Next1.kind = "reading" /\ ready # <<>> /\ ready \in Seq(Honest)
  BY <1>1, NextHonest
<1>3. Enqueues \in Honest
  BY <1>1, <1>2, HonestKinds DEF Enqueues, Honest, Message, TypeOK
<1>4. more \in Seq(Honest)
  BY <1>3
<1> HIDE DEF more
<1>5. ready' \in Seq(Honest)
  BY <1>1, <1>2, <1>4, FinishType
<1>6. TypeOK'
  BY <1>1, <1>5, QuietType DEF TypeOK, Finish, input
<1> QED BY <1>1, <1>6, QuietStages DEF NInv

LEMMA EnqueueStep ==
  ASSUME NInv, Enqueue
  PROVE  NInv'
<1>1. TypeOK /\ Stages /\ Runs1("enqueue") /\ Finish(<<>>)
      /\ UNCHANGED <<input, native, pending, task, listening>>
  BY DEF NInv, Enqueue
<1>2. Next1 \in Honest /\ Next1.kind = "enqueue" /\ ready' \in Seq(Honest)
  BY <1>1, NextHonest, FinishNothing
<1>3. Next1.stream \in Sources /\ Next1.n \in Nat
  BY <1>2, HonestKinds
<1>4. Honest' = Honest /\ Settled' = Settled
  BY <1>1 DEF native, Honest, Settled, Message, Sources, Moments, Outcomes
<1>5. early' \in [Streams -> Seq(Aside)]
  <2>1. [stream |-> Next1.stream, n |-> Next1.n] \in Aside
    BY <1>3 DEF Aside
  <2>2. \A t \in Streams : early[t] \in Seq(Aside)
    BY <1>1 DEF TypeOK
  <2>3. \A t \in Streams : Append(early[t], [stream |-> Next1.stream, n |-> Next1.n]) \in Seq(Aside)
    BY <2>1, <2>2
  <2> QED BY <2>2, <2>3 DEF Enqueue
<1>6. yielded' \in [Streams -> Seq(Nat)]
  BY <1>1, <1>3 DEF Enqueue, TypeOK
<1>7. TypeOK'
  BY <1>1, <1>2, <1>4, <1>5, <1>6 DEF TypeOK, Finish, input, native, Sources, Moments
<1>8. Stages'
  BY <1>1 DEF Stages, Stage, Ended, native
<1> QED BY <1>7, <1>8 DEF NInv

LEMMA EndType ==
  ASSUME TypeOK, NEW t \in Streams, NEW how \in {"stopped", "failed", "cancelled"}, End(t, how)
  PROVE  /\ pending' = pending \ {t} /\ listening' = listening \ {t}
         /\ task' = [task EXCEPT ![t] = Task(how, "none")] /\ task' \in [Streams -> TaskType]
         /\ early' \in [Streams -> Seq(Aside)]
         /\ yielded' \in [Streams -> Seq(Nat)]
<1>1. <<>> \in Seq(Aside) /\ <<>> \in Seq(Nat)
  OBVIOUS
<1>2. Task(how, "none") \in TaskType
  BY DEF Task, TaskType
<1> QED BY <1>1, <1>2 DEF TypeOK, End, TaskType

LEMMA EndStages ==
  ASSUME NInv, NEW t \in Streams, NEW how \in {"stopped", "failed", "cancelled"}, End(t, how),
         \A s \in Streams \ {t} : promise'[s] = promise[s] /\ (s \in running' <=> s \in running),
         promise'[t] # "working",
         t \in running' => how = "cancelled" /\ t \in running /\ promise'[t] = promise[t]
  PROVE  Stages'
<1>1. /\ pending' = pending \ {t} /\ listening' = listening \ {t} /\ task' \in [Streams -> TaskType]
      /\ task'[t] = [at |-> how, future |-> "none", cancel |-> FALSE]
      /\ \A s \in Streams \ {t} : task'[s] = task[s]
  <2>1. task \in [Streams -> TaskType]
    BY DEF NInv, TypeOK
  <2>2. /\ pending' = pending \ {t} /\ listening' = listening \ {t} /\ task' \in [Streams -> TaskType]
        /\ task' = [task EXCEPT ![t] = Task(how, "none")]
    BY EndType DEF NInv
  <2> QED BY <2>1, <2>2 DEF Task
<1>2. ASSUME NEW s \in Streams PROVE Stage(s)'
  <2>1. CASE s = t
    <3>1. Stage(t)
      BY DEF NInv, Stages
    <3> QED BY <1>1, <2>1, <3>1 DEF Stage, Ended, Outcomes
  <2>2. CASE s # t
    <3>1. Stage(s)
      BY DEF NInv, Stages
    <3> QED BY <1>1, <2>2, <3>1 DEF Stage, Ended, Outcomes
  <2> QED BY <2>1, <2>2
<1> QED BY <1>2 DEF Stages

(* The task of one stream ends or moves on; nothing is queued. *)
LEMMA TaskMoves ==
  ASSUME TypeOK, NEW t \in Streams, NEW how \in TaskType, task' = [task EXCEPT ![t] = how],
         how.at # "new" \/ task[t].at = "new",
         promise' \in [Streams -> Promises],
         \A s \in Streams : promise[s] \in Outcomes => promise'[s] = promise[s],
         ready' \in Seq(Honest), mailbox' \in Seq(Honest), settling' \in Seq(Settled),
         running' \subseteq Sources, pending' \subseteq Streams, listening' \subseteq Streams,
         early' \in [Streams -> Seq(Aside)], yielded' \in [Streams -> Seq(Nat)],
         UNCHANGED <<registered, owed, draining, input, emitted>>
  PROVE  TypeOK'
<1>1. \A s \in Streams : task[s].at # "new" => task'[s].at # "new"
  BY DEF TypeOK
<1>2. Honest \subseteq Honest' /\ Settled \subseteq Settled'
  BY <1>1, HonestStays
<1>3. ready' \in Seq(Honest') /\ mailbox' \in Seq(Honest') /\ settling' \in Seq(Settled')
  BY <1>2
<1>4. task' \in [Streams -> TaskType]
  BY DEF TypeOK, TaskType
<1> QED BY <1>3, <1>4 DEF TypeOK, TaskType, input, Sources, Moments

LEMMA LeaveStep ==
  ASSUME NInv, NEW t \in Streams, Leave(t)
  PROVE  NInv'
<1>1. TypeOK /\ Stages /\ End(t, "stopped") /\ running' = running \ {t}
      /\ UNCHANGED <<channel, input, promise, settling, emitted>>
  BY DEF NInv, Leave
<1>2. Task("stopped", "none") \in TaskType /\ Task("stopped", "none").at # "new"
  BY DEF Task, TaskType
<1>3. TypeOK'
  <2>1. ready' \in Seq(Honest) /\ mailbox' \in Seq(Honest) /\ settling' \in Seq(Settled)
        /\ running' \subseteq Sources /\ UNCHANGED <<registered, owed, draining, input, emitted>>
        /\ promise' = promise
        /\ promise \in [Streams -> Promises]
        /\ pending \subseteq Streams /\ listening \subseteq Streams
    BY <1>1 DEF TypeOK, channel
  <2>2. /\ task' = [task EXCEPT ![t] = Task("stopped", "none")]
        /\ pending' \subseteq Streams /\ listening' \subseteq Streams
        /\ early' \in [Streams -> Seq(Aside)] /\ yielded' \in [Streams -> Seq(Nat)]
    BY <1>1, <2>1, EndType
  <2> QED BY <1>1, <1>2, <2>1, <2>2, TaskMoves
<1>4. Stages'
  <2>1. promise[t] = "ok" /\ promise' = promise
    BY <1>1 DEF Stages, Stage, Leave
  <2> QED BY <1>1, <2>1, EndStages
<1> QED BY <1>3, <1>4 DEF NInv

LEMMA ResumeStep ==
  ASSUME NInv, Resume
  PROVE  NInv'
<1> DEFINE t == Next1.stream
<1>1. TypeOK /\ Stages /\ Runs1("wake") /\ Finish(<<>>) /\ UNCHANGED input
      /\ (ResumeCancelled(t) \/ ResumeFailed(t) \/ ResumeStarted(t))
  BY DEF NInv, Resume
<1>2. t \in Streams /\ ready' \in Seq(Honest)
  BY <1>1, NextHonest, FinishNothing, HonestKinds
<1> HIDE DEF t
<1>3. /\ mailbox' \in Seq(Honest) /\ settling \in Seq(Settled)
      /\ UNCHANGED <<registered, owed, draining, input>>
      /\ promise \in [Streams -> Promises]
      /\ running \subseteq Sources /\ pending \subseteq Streams /\ listening \subseteq Streams
  BY <1>1 DEF TypeOK, Finish
<1>4. /\ Task("cancelled", "none") \in TaskType /\ Task("cancelled", "none").at # "new"
      /\ Task("failed", "none") \in TaskType /\ Task("failed", "none").at # "new"
      /\ Task("iterating", "none") \in TaskType /\ Task("iterating", "none").at # "new"
  BY DEF Task, TaskType
<1>5. CASE ResumeCancelled(t)
  <2>1. /\ End(t, "cancelled") /\ UNCHANGED <<settling, running, emitted>>
        /\ promise' = [promise EXCEPT ![t] = IF @ = "working" THEN "cancelled" ELSE @]
    BY <1>5 DEF ResumeCancelled
  <2>2. /\ promise' \in [Streams -> Promises]
        /\ \A s \in Streams : promise[s] \in Outcomes => promise'[s] = promise[s]
    BY <1>2, <1>3, <2>1 DEF Outcomes, Promises
  <2>3. TypeOK'
    <3>1. /\ pending' \subseteq Streams /\ listening' \subseteq Streams
          /\ task' = [task EXCEPT ![t] = Task("cancelled", "none")]
          /\ early' \in [Streams -> Seq(Aside)] /\ yielded' \in [Streams -> Seq(Nat)]
      BY <1>1, <1>2, <1>3, <2>1, EndType
    <3>2. settling' \in Seq(Settled) /\ running' \subseteq Sources /\ UNCHANGED emitted
      BY <1>3, <2>1
    <3> QED BY <1>1, <1>2, <1>3, <1>4, <2>2, <3>1, <3>2, TaskMoves
  <2>4. Stages'
    <3>1. \A s \in Streams \ {t} : promise'[s] = promise[s]
      BY <1>3, <2>1
    <3>2. promise'[t] # "working" /\ (t \in running => promise'[t] = promise[t])
      BY <1>1, <1>2, <1>3, <2>1 DEF Stages, Stage
    <3> QED BY <1>2, <2>1, <3>1, <3>2, EndStages
  <2> QED BY <2>3, <2>4 DEF NInv
<1>6. CASE ResumeFailed(t)
  <2>1. End(t, "failed") /\ UNCHANGED <<promise, settling, running, emitted>>
    BY <1>6 DEF ResumeFailed, native
  <2>2. TypeOK'
    BY <1>1, <1>2, <1>3, <1>4, <2>1, EndType, TaskMoves
  <2>3. Stages'
    <3>1. promise[t] = "error" /\ t \notin running
      BY <1>1, <1>2, <1>6 DEF Stages, Stage, ResumeFailed, Outcomes
    <3> QED BY <1>2, <2>1, <3>1, EndStages
  <2> QED BY <2>2, <2>3 DEF NInv
<1>7. CASE ResumeStarted(t)
  <2>1. /\ task' = [task EXCEPT ![t] = Task("iterating", "none")]
        /\ early' = [early EXCEPT ![t] = <<>>] /\ yielded' = [yielded EXCEPT ![t] = Own(t)]
        /\ pending' = pending \ {t}
        /\ UNCHANGED <<promise, settling, running, emitted, listening>>
    BY <1>7 DEF ResumeStarted, native
  <2>2. Own(t) \in Seq(Nat)
    BY <1>1, <1>2, OwnType
  <2>3. early' \in [Streams -> Seq(Aside)] /\ yielded' \in [Streams -> Seq(Nat)]
    <3>1. <<>> \in Seq(Aside)
      OBVIOUS
    <3> QED BY <1>1, <2>1, <2>2, <3>1 DEF TypeOK
  <2>4. TypeOK'
    BY <1>1, <1>2, <1>3, <1>4, <2>1, <2>3, TaskMoves
  <2>5. Stages'
    BY <1>1, <1>2, <1>7, <2>1 DEF Stages, Stage, Ended, ResumeStarted, Task, TypeOK, Outcomes
  <2> QED BY <2>4, <2>5 DEF NInv
<1> QED BY <1>1, <1>5, <1>6, <1>7

LEMMA CancelStep ==
  ASSUME NInv, NEW t \in Streams, Cancel(t)
  PROVE  NInv'
<1>1. /\ TypeOK /\ Stages /\ task[t].at = "starting" /\ task \in [Streams -> TaskType]
      /\ UNCHANGED <<registered, mailbox, owed, draining, input, native, pending, listening, early, yielded>>
  BY DEF NInv, Cancel, TypeOK
<1>2. PICK how \in TaskType :
         /\ task' = [task EXCEPT ![t] = how] /\ how.at = "starting"
         /\ how.future \in Outcomes => how.future = task[t].future
  <2>1. task[t] \in TaskType
    BY <1>1
  <2>2. [task[t] EXCEPT !.future = "cancelled"] \in TaskType /\ [task[t] EXCEPT !.cancel = TRUE] \in TaskType
    BY <2>1 DEF TaskType
  <2>3. /\ [task[t] EXCEPT !.future = "cancelled"].at = "starting"
        /\ [task[t] EXCEPT !.future = "cancelled"].future \notin Outcomes
        /\ [task[t] EXCEPT !.cancel = TRUE].at = "starting"
        /\ [task[t] EXCEPT !.cancel = TRUE].future = task[t].future
    BY <1>1, <2>1 DEF TaskType, Outcomes
  <2> QED BY <2>2, <2>3 DEF Cancel
<1>3. ready' \in Seq(Honest)
  <2>1. Wake(t) \in Honest
    BY DEF Wake, Honest, Message
  <2>2. ready \in Seq(Honest) /\ (ready' = ready \/ ready' = Append(ready, Wake(t)))
    BY <1>1 DEF Cancel, TypeOK
  <2> QED BY <2>1, <2>2
<1>4. TypeOK'
  <2>1. /\ mailbox' \in Seq(Honest) /\ settling' \in Seq(Settled) /\ promise' = promise
        /\ promise' \in [Streams -> Promises] /\ running' \subseteq Sources
        /\ pending' \subseteq Streams /\ listening' \subseteq Streams
        /\ early' \in [Streams -> Seq(Aside)] /\ yielded' \in [Streams -> Seq(Nat)]
        /\ UNCHANGED <<registered, owed, draining, input, emitted>>
    BY <1>1 DEF TypeOK, native
  <2> QED BY <1>1, <1>2, <1>3, <2>1, TaskMoves
<1>5. Stages'
  <2> SUFFICES ASSUME NEW s \in Streams PROVE Stage(s)'
    BY DEF Stages
  <2>1. Stage(s) /\ UNCHANGED <<promise, running, pending, listening>>
    BY <1>1 DEF Stages, native
  <2>2. IF s = t THEN task'[s] = how ELSE task'[s] = task[s]
    BY <1>1, <1>2
  <2> QED BY <1>1, <1>2, <2>1, <2>2 DEF Stage, Ended
<1> QED BY <1>4, <1>5 DEF NInv

LEMMA OpenStep ==
  ASSUME NInv, NEW t \in Streams, Open(t)
  PROVE  NInv'
<1>1. /\ TypeOK /\ Stages /\ task[t].at = "new" /\ task \in [Streams -> TaskType]
      /\ promise[t] = "none" /\ t \notin pending \cup listening /\ t \notin running
      /\ UNCHANGED <<channel, input, settling, emitted, early, yielded>>
  BY DEF NInv, Open, TypeOK, Stages, Stage
<1>2. PICK p \in {"ok", "error", "working"}, at \in {"iterating", "failed", "starting"}, future \in {"none", "waiting"} :
         /\ promise' = [promise EXCEPT ![t] = p]
         /\ task' = [task EXCEPT ![t] = Task(at, future)]
         /\ \/ p = "ok" /\ at = "iterating" /\ future = "none"
            \/ p = "error" /\ at = "failed" /\ future = "none"
            \/ p = "working" /\ at = "starting" /\ future = "waiting"
         /\ running' = IF p = "ok" THEN running \cup {t} ELSE running
         /\ pending' = IF p = "working" THEN pending \cup {t} ELSE pending
         /\ listening' = IF p = "error" THEN listening ELSE listening \cup {t}
  BY DEF Open
<1>3. Task(at, future) \in TaskType /\ Task(at, future).at # "new"
  BY <1>2 DEF Task, TaskType
<1>4. TypeOK'
  <2>1. /\ mailbox' \in Seq(Honest) /\ ready' \in Seq(Honest) /\ settling' \in Seq(Settled)
        /\ promise' \in [Streams -> Promises] /\ running' \subseteq Sources
        /\ pending' \subseteq Streams /\ listening' \subseteq Streams
        /\ early' \in [Streams -> Seq(Aside)] /\ yielded' \in [Streams -> Seq(Nat)]
        /\ UNCHANGED <<registered, owed, draining, input, emitted>>
    BY <1>1, <1>2 DEF TypeOK, channel, Promises, Sources
  <2>2. \A s \in Streams : promise[s] \in Outcomes => promise'[s] = promise[s]
    BY <1>1, <1>2 DEF TypeOK, Outcomes
  <2> QED BY <1>1, <1>2, <1>3, <2>1, <2>2, TaskMoves
<1>5. Stages'
  <2> SUFFICES ASSUME NEW s \in Streams PROVE Stage(s)'
    BY DEF Stages
  <2>1. Stage(s)
    BY <1>1 DEF Stages
  <2>2. CASE s # t
    <3>1. task'[s] = task[s] /\ promise'[s] = promise[s]
      BY <1>1, <1>2, <2>2 DEF TypeOK
    <3> QED BY <1>2, <2>1, <2>2, <3>1 DEF Stage, Ended
  <2>3. CASE s = t
    <3>1. task'[s] = [at |-> at, future |-> future, cancel |-> FALSE] /\ promise'[s] = p
      BY <1>1, <1>2, <2>3 DEF TypeOK, Task
    <3> QED BY <1>1, <1>2, <2>1, <2>3, <3>1 DEF Stage, Ended, Outcomes
  <2> QED BY <2>2, <2>3
<1> QED BY <1>4, <1>5 DEF NInv

LEMMA SettleStep ==
  ASSUME NInv, NEW t \in Streams, NEW outcome \in Outcomes, Settle(t, outcome)
  PROVE  NInv'
<1>1. /\ TypeOK /\ Stages /\ promise[t] = "working" /\ task[t].at = "starting"
      /\ promise \in [Streams -> Promises] /\ task \in [Streams -> TaskType]
      /\ UNCHANGED <<input, emitted, python>> /\ promise' = [promise EXCEPT ![t] = outcome]
      /\ running' = IF outcome = "ok" THEN running \cup {t} ELSE running
  <2>1. Stage(t) /\ task[t] \in TaskType
    BY DEF NInv, Stages, TypeOK
  <2> QED BY <2>1 DEF NInv, Settle, TypeOK, Stage, Ended, TaskType
<1>2. /\ \A s \in Streams : promise[s] \in Outcomes => promise'[s] = promise[s]
      /\ promise' \in [Streams -> Promises] /\ task' = task /\ promise'[t] = outcome
  BY <1>1 DEF python, Outcomes, Promises
<1>3. Honest \subseteq Honest' /\ Settled \subseteq Settled'
  BY <1>1, <1>2, HonestStays
<1>4. Answer(t, outcome) \in Honest' /\ t \in Settled'
  BY <1>1, <1>2 DEF Answer, Honest, Settled, Message, TypeOK
<1>5. /\ mailbox' \in Seq(Honest') /\ ready' \in Seq(Honest') /\ settling' \in Seq(Settled')
      /\ registered' \in BOOLEAN /\ owed' \subseteq {"ui", "python"} /\ draining' \in BOOLEAN
  <2>1. mailbox \in Seq(Honest') /\ ready \in Seq(Honest') /\ settling \in Seq(Settled')
    BY <1>1, <1>3 DEF TypeOK
  <2>2. CASE CallPython(Answer(t, outcome)) /\ UNCHANGED settling
    BY <1>1, <1>4, <2>1, <2>2, CallKeepsType DEF TypeOK
  <2>3. CASE settling' = Append(settling, t) /\ UNCHANGED channel
    BY <1>1, <1>4, <2>1, <2>3 DEF TypeOK, channel
  <2> QED BY <2>2, <2>3 DEF Settle
<1>6. TypeOK'
  BY <1>1, <1>2, <1>5 DEF TypeOK, input, python, Sources, Moments
<1>7. Stages'
  <2> SUFFICES ASSUME NEW s \in Streams PROVE Stage(s)'
    BY DEF Stages
  <2>1. Stage(s) /\ task'[s] = task[s] /\ pending' = pending /\ listening' = listening
    BY <1>1 DEF Stages, python
  <2>2. IF s = t THEN promise'[s] = outcome ELSE promise'[s] = promise[s]
    BY <1>1
  <2> QED BY <1>1, <2>1, <2>2 DEF Stage, Ended, Outcomes
<1> QED BY <1>6, <1>7 DEF NInv

LEMMA DeliverStep ==
  ASSUME NInv, Deliver
  PROVE  NInv'
<1> DEFINE t == Head(settling)
<1>1. TypeOK /\ Stages /\ t \in Settled /\ Tail(settling) \in Seq(Settled)
      /\ UNCHANGED <<input, promise, running, emitted, python>> /\ settling' = Tail(settling)
  BY DEF NInv, Deliver, TypeOK
<1>2. Honest' = Honest /\ Settled' = Settled
  BY <1>1 DEF python, Honest, Settled, Message, Sources, Moments, Outcomes
<1>3. Answer(t, promise[t]) \in Honest
  BY <1>1 DEF Answer, Honest, Settled, Message, TypeOK
<1>4. CallPython(Answer(t, promise[t]))
  BY DEF Deliver
<1> HIDE DEF t
<1>5. /\ mailbox' \in Seq(Honest') /\ ready' = ready /\ owed' \subseteq {"ui", "python"}
      /\ UNCHANGED <<registered, draining>>
  BY <1>1, <1>2, <1>3, <1>4, CallKeepsType DEF TypeOK
<1>6. TypeOK'
  BY <1>1, <1>2, <1>5 DEF TypeOK, input, python, Sources, Moments
<1>7. Stages'
  BY <1>1 DEF Stages, Stage, Ended, python
<1> QED BY <1>6, <1>7 DEF NInv

LEMMA EmitStep ==
  ASSUME NInv, NEW t \in Sources, Emit(t)
  PROVE  NInv'
<1>1. TypeOK /\ Stages /\ t \in running /\ emitted' = [emitted EXCEPT ![t] = @ + 1]
      /\ messages' = messages + 1
      /\ UNCHANGED <<sent, shown, promise, settling, running, python>>
  BY DEF NInv, Emit, Count
<1>2. Honest' = Honest /\ Settled' = Settled
  BY <1>1 DEF python, Honest, Settled, Message, Sources, Moments, Outcomes
<1>3. emitted' \in [Sources -> Nat] /\ emitted'[t] \in Nat
  BY <1>1 DEF TypeOK
<1>4. t \in Streams => task[t].at # "new"
  BY <1>1 DEF Stages, Stage
<1>5. Reading(t, emitted'[t]) \in Honest
  BY <1>1, <1>3, <1>4 DEF Reading, Honest, Message, TypeOK
<1>6. CallPython(Reading(t, emitted'[t]))
  BY DEF Emit
<1>7. /\ mailbox' \in Seq(Honest') /\ ready' = ready /\ owed' \subseteq {"ui", "python"}
      /\ UNCHANGED <<registered, draining>>
  BY <1>1, <1>2, <1>5, <1>6, CallKeepsType DEF TypeOK
<1>8. TypeOK'
  BY <1>1, <1>2, <1>3, <1>7 DEF TypeOK, python, Sources, Moments
<1>9. Stages'
  BY <1>1 DEF Stages, Stage, Ended, python
<1> QED BY <1>8, <1>9 DEF NInv

LEMMA NStep == NInv /\ [Next]_vars => NInv'
<1> SUFFICES ASSUME NInv, [Next]_vars PROVE NInv'
  OBVIOUS
<1>1. CASE Next
  <2>1. CASE (Register \/ \E v \in Views : Sample(v)) /\ UNCHANGED <<native, python>>
    BY <2>1, RegisterStep, SampleStep DEF Quiet
  <2>2. CASE LoopStep
    BY <2>2, DeliverSampleStep, DispatchAnswerStep, ResolveFutureStep, DispatchReadingStep,
       EnqueueStep, ResumeStep DEF LoopStep, Quiet
  <2>3. CASE \E t \in Streams \cup Others : Emit(t)
    BY <2>3, EmitStep DEF Sources
  <2>4. CASE \E t \in Streams :
               Open(t) \/ Cancel(t) \/ Leave(t) \/ \E outcome \in {"ok", "error"} : Settle(t, outcome)
    BY <2>4, OpenStep, CancelStep, LeaveStep, SettleStep DEF Outcomes
  <2> QED BY <1>1, <2>1, <2>2, <2>3, <2>4, TransportStep, DeliverStep DEF Next
<1>2. CASE UNCHANGED vars
  <2>1. Quiet /\ UNCHANGED <<channel, input>>
    BY <1>2 DEF vars, Quiet
  <2>2. TypeOK'
    BY <2>1, QuietType DEF NInv, TypeOK, channel, input
  <2> QED BY <2>1, <2>2, QuietStages DEF NInv
<1> QED BY <1>1, <1>2

(* Every reachable state is of its type, and every stream in one of the      *)
(* stages its task, its promise and its entries allow.                       *)
THEOREM StagesInvariant == Spec => []NInv
<1> QED BY NInit, NStep, PTL DEF Spec

(* However the answer, a cancel, a rejection and the end of the iteration    *)
(* cross, a stream that has ended has no call in the table, no listener and  *)
(* no native work in progress, and no subscription it had the id of.         *)
THEOREM NothingStays == Spec => []NothingLeftBehind
<1>1. NInv => NothingLeftBehind
  BY DEF NInv, Stages, Stage, NothingLeftBehind, Ended
<1> QED BY <1>1, StagesInvariant, PTL

---------------------------------------------------------------------------
(* What the queues carry of a stream, as they change. *)
Kinds == {"reading", "enqueue"}

LEMMA CarriedByType ==
  ASSUME NEW m \in Message, NEW t, NEW kind \in Kinds
  PROVE  /\ CarriedBy(m, t, kind) \in Seq(Nat)
         /\ m.kind # kind => CarriedBy(m, t, kind) = <<>>
<1>1. m.kind = kind => m.n \in Nat
  BY DEF Message, Kinds
<1> QED BY <1>1 DEF CarriedBy

LEMMA CarriedSeqs ==
  ASSUME NEW q \in Seq(Message), NEW t, NEW kind \in Kinds
  PROVE  [i \in DOMAIN q |-> CarriedBy(q[i], t, kind)] \in Seq(Seq(Nat))
<1> DEFINE x(i) == CarriedBy(q[i], t, kind)
<1>1. \A i \in 1..Len(q) : x(i) \in Seq(Nat)
  <2>1. \A i \in 1..Len(q) : q[i] \in Message
    OBVIOUS
  <2> QED BY <2>1, CarriedByType
<1>2. Len(q) \in Nat /\ DOMAIN q = 1..Len(q)
  OBVIOUS
<1> HIDE DEF x
<1>3. [i \in 1..Len(q) |-> x(i)] \in Seq(Seq(Nat))
  BY <1>1, <1>2
<1> QED BY <1>2, <1>3 DEF x

LEMMA CarriedType ==
  ASSUME NEW q \in Seq(Message), NEW t, NEW kind \in Kinds
  PROVE  Carried(t, q, kind) \in Seq(Nat)
<1>1. <<>> \in Seq(Nat)
  OBVIOUS
<1> QED BY <1>1, CarriedSeqs, FlattenAppend DEF Carried

LEMMA CarriedSame ==
  ASSUME NEW q \in Seq(Message), NEW r \in Seq(Message), NEW t, NEW kind \in Kinds,
         Len(r) = Len(q), \A i \in 1..Len(q) : CarriedBy(r[i], t, kind) = CarriedBy(q[i], t, kind)
  PROVE  Carried(t, r, kind) = Carried(t, q, kind)
<1>1. DOMAIN q = 1..Len(q) /\ DOMAIN r = 1..Len(q)
  OBVIOUS
<1>2. [i \in DOMAIN r |-> CarriedBy(r[i], t, kind)] = [i \in DOMAIN q |-> CarriedBy(q[i], t, kind)]
  BY <1>1
<1> QED BY <1>2 DEF Carried

LEMMA CarriedAppend ==
  ASSUME NEW q \in Seq(Message), NEW m \in Message, NEW t, NEW kind \in Kinds
  PROVE  Carried(t, Append(q, m), kind) = Carried(t, q, kind) \o CarriedBy(m, t, kind)
<1> DEFINE s == [i \in DOMAIN q |-> CarriedBy(q[i], t, kind)]
           x == CarriedBy(m, t, kind)
           more == [i \in DOMAIN Append(q, m) |-> CarriedBy(Append(q, m)[i], t, kind)]
<1>1. s \in Seq(Seq(Nat)) /\ x \in Seq(Nat) /\ more \in Seq(Seq(Nat))
  <2>1. Append(q, m) \in Seq(Message)
    OBVIOUS
  <2> QED BY <2>1, CarriedSeqs, CarriedByType
<1>2. more = Append(s, x)
  <2>1. Len(q) \in Nat /\ DOMAIN q = 1..Len(q) /\ DOMAIN Append(q, m) = 1..Len(q) + 1
    OBVIOUS
  <2>2. Len(s) = Len(q) /\ Len(more) = Len(q) + 1
    BY <1>1, <2>1
  <2>3. \A i \in 1..Len(q) : more[i] = s[i]
    BY <2>1
  <2>4. more[Len(q) + 1] = x
    BY <2>1
  <2> HIDE DEF s, x, more
  <2> QED BY <1>1, <2>1, <2>2, <2>3, <2>4, IsAppend
<1>3. FlattenSeq(Append(s, x)) = FlattenSeq(s) \o x
  BY <1>1, FlattenAppend
<1> QED BY <1>2, <1>3 DEF Carried

LEMMA CarriedTail ==
  ASSUME NEW q \in Seq(Message), q # <<>>, NEW t, NEW kind \in Kinds
  PROVE  Carried(t, q, kind) = CarriedBy(Head(q), t, kind) \o Carried(t, Tail(q), kind)
<1> DEFINE s == [i \in DOMAIN q |-> CarriedBy(q[i], t, kind)]
           rest == [i \in DOMAIN Tail(q) |-> CarriedBy(Tail(q)[i], t, kind)]
<1>0. Len(q) \in Nat \ {0}
  BY EmptySeq
<1>1. s \in Seq(Seq(Nat)) /\ rest \in Seq(Seq(Nat))
  <2>1. Tail(q) \in Seq(Message)
    OBVIOUS
  <2> QED BY <2>1, CarriedSeqs
<1>2. DOMAIN q = 1..Len(q) /\ DOMAIN Tail(q) = 1..Len(q) - 1 /\ Head(q) = q[1]
      /\ \A i \in 1..Len(q) - 1 : Tail(q)[i] = q[i + 1]
  BY <1>0
<1>3. Len(s) = Len(q) /\ Len(rest) = Len(q) - 1 /\ s[1] = CarriedBy(Head(q), t, kind)
  BY <1>0, <1>1, <1>2
<1>4. \A i \in 1..Len(q) - 1 : rest[i] = s[i + 1]
  BY <1>0, <1>2
<1> HIDE DEF s, rest
<1>5. s # <<>> /\ Head(s) = s[1] /\ Tail(s) \in Seq(Seq(Nat)) /\ Len(Tail(s)) = Len(q) - 1
      /\ \A i \in 1..Len(q) - 1 : Tail(s)[i] = s[i + 1]
  BY <1>0, <1>1, <1>3
<1>6. rest = Tail(s)
  BY <1>1, <1>3, <1>4, <1>5, SeqEqual
<1>7. FlattenSeq(s) = Head(s) \o FlattenSeq(Tail(s))
  BY <1>1, <1>5, FlattenTail
<1> QED BY <1>3, <1>5, <1>6, <1>7 DEF Carried, s, rest

LEMMA OwnAppend ==
  ASSUME NEW e \in Seq(Aside), NEW a \in Aside, NEW t
  PROVE  FlattenSeq([i \in DOMAIN Append(e, a) |-> Kept(Append(e, a)[i], t)])
           = FlattenSeq([i \in DOMAIN e |-> Kept(e[i], t)]) \o Kept(a, t)
<1> DEFINE s == [i \in DOMAIN e |-> Kept(e[i], t)]
           x == Kept(a, t)
           more == [i \in DOMAIN Append(e, a) |-> Kept(Append(e, a)[i], t)]
<1>1. s \in Seq(Seq(Nat)) /\ x \in Seq(Nat) /\ more \in Seq(Seq(Nat))
  <2>1. Append(e, a) \in Seq(Aside)
    OBVIOUS
  <2>2. x \in Seq(Nat)
    BY DEF Kept, Aside
  <2> QED BY <2>1, <2>2, KeptSeqs
<1>2. more = Append(s, x)
  <2>1. Len(e) \in Nat /\ DOMAIN e = 1..Len(e) /\ DOMAIN Append(e, a) = 1..Len(e) + 1
    OBVIOUS
  <2>2. Len(s) = Len(e) /\ Len(more) = Len(e) + 1
    BY <1>1, <2>1
  <2>3. \A i \in 1..Len(e) : more[i] = s[i]
    BY <2>1
  <2>4. more[Len(e) + 1] = x
    BY <2>1
  <2> HIDE DEF s, x, more
  <2> QED BY <1>1, <2>1, <2>2, <2>3, <2>4, IsAppend
<1>3. FlattenSeq(Append(s, x)) = FlattenSeq(s) \o x
  BY <1>1, FlattenAppend
<1> QED BY <1>2, <1>3

(* A message into the mailbox, and from there to the loop: coalescing        *)
(* replaces samples only.                                                    *)
LEMMA QueuedCarries ==
  ASSUME mailbox \in Seq(Message), NEW m \in Message, NEW t, NEW kind \in Kinds
  PROVE  Carried(t, Queued(m), kind) = Carried(t, mailbox, kind) \o CarriedBy(m, t, kind)
<1>1. CASE Queued(m) = Append(mailbox, m)
  BY <1>1, CarriedAppend
<1>2. CASE /\ Queued(m) = Append(Front(mailbox), m) /\ mailbox # <<>>
           /\ Continuous(m) /\ Continuous(Last(mailbox))
  <2>1. /\ Front(mailbox) \in Seq(Message) /\ Len(Front(mailbox)) = Len(mailbox) - 1
        /\ \A i \in 1..Len(mailbox) - 1 : Front(mailbox)[i] = mailbox[i]
        /\ Last(mailbox) = mailbox[Len(mailbox)] /\ Len(mailbox) \in Nat \ {0}
        /\ Last(mailbox) \in Message
    BY <1>2, FrontLast
  <2>2. CarriedBy(m, t, kind) = <<>> /\ CarriedBy(Last(mailbox), t, kind) = <<>>
    BY <1>2, <2>1, CarriedByType DEF Continuous, Kinds
  <2>3. /\ Queued(m) \in Seq(Message) /\ Len(Queued(m)) = Len(mailbox)
        /\ \A i \in 1..Len(mailbox) - 1 : Queued(m)[i] = mailbox[i]
        /\ Queued(m)[Len(mailbox)] = m
    BY <1>2, <2>1
  <2>4. \A i \in 1..Len(mailbox) : CarriedBy(Queued(m)[i], t, kind) = CarriedBy(mailbox[i], t, kind)
    BY <2>1, <2>2, <2>3
  <2>5. Carried(t, Queued(m), kind) = Carried(t, mailbox, kind)
    BY <2>3, <2>4, CarriedSame
  <2>6. Carried(t, mailbox, kind) \o <<>> = Carried(t, mailbox, kind)
    BY CarriedType, ConcatEmptySeq
  <2> QED BY <2>2, <2>5, <2>6
<1> QED BY <1>1, <1>2 DEF Queued

LEMMA MessageClosed ==
  \A m \in Message : Continuous(m) => /\ [m EXCEPT !.open = FALSE] \in Message
                                      /\ [m EXCEPT !.open = FALSE].kind = m.kind
BY DEF Message, Continuous

LEMMA ClosedCarries ==
  ASSUME ready \in Seq(Message), NEW t, NEW kind \in Kinds
  PROVE  Closed(ready) \in Seq(Message) /\ Carried(t, Closed(ready), kind) = Carried(t, ready, kind)
<1> DEFINE x(i) == IF Continuous(ready[i]) THEN [ready[i] EXCEPT !.open = FALSE] ELSE ready[i]
<1>1. \A i \in 1..Len(ready) : ready[i] \in Message
  OBVIOUS
<1>2. \A i \in 1..Len(ready) : x(i) \in Message
  BY <1>1, MessageClosed
<1>3. \A i \in 1..Len(ready) : CarriedBy(x(i), t, kind) = CarriedBy(ready[i], t, kind)
  <2> SUFFICES ASSUME NEW i \in 1..Len(ready), Continuous(ready[i])
               PROVE  CarriedBy(x(i), t, kind) = CarriedBy(ready[i], t, kind)
    OBVIOUS
  <2>1. x(i).kind = "sample" /\ ready[i].kind = "sample" /\ kind # "sample"
    BY <1>1, MessageClosed DEF Continuous, Kinds
  <2> QED BY <1>1, <1>2, <2>1, CarriedByType
<1>4. Closed(ready) = [i \in 1..Len(ready) |-> x(i)] /\ Len(ready) \in Nat
  BY DEF Closed
<1> HIDE DEF x
<1>5. Closed(ready) \in Seq(Message) /\ Len(Closed(ready)) = Len(ready)
  BY <1>2, <1>4
<1>6. \A i \in 1..Len(ready) : Closed(ready)[i] = x(i)
  BY <1>4
<1>7. \A i \in 1..Len(ready) : CarriedBy(Closed(ready)[i], t, kind) = CarriedBy(ready[i], t, kind)
  BY <1>3, <1>6
<1> QED BY <1>5, <1>7, CarriedSame

LEMMA PostedCarries ==
  ASSUME ready \in Seq(Message), NEW m \in Message, NEW t, NEW kind \in Kinds
  PROVE  Carried(t, Posted(m), kind) = Carried(t, ready, kind) \o CarriedBy(m, t, kind)
<1>1. CASE Posted(m) = Append(ready, m)
  BY <1>1, CarriedAppend
<1>2. CASE Posted(m) = Append(Closed(ready), m)
  <2> DEFINE q == Closed(ready)
  <2>1. q \in Seq(Message) /\ Carried(t, q, kind) = Carried(t, ready, kind) /\ Posted(m) = Append(q, m)
    BY <1>2, ClosedCarries
  <2> HIDE DEF q
  <2> QED BY <2>1, CarriedAppend
<1>3. CASE /\ Posted(m) = [i \in DOMAIN ready |-> IF i \in OpenSlots(m.view) THEN m ELSE ready[i]]
           /\ Continuous(m)
  <2> DEFINE x(i) == IF i \in OpenSlots(m.view) THEN m ELSE ready[i]
  <2>1. \A i \in 1..Len(ready) : ready[i] \in Message
    OBVIOUS
  <2>2. CarriedBy(m, t, kind) = <<>>
    BY <1>3, CarriedByType DEF Continuous, Kinds
  <2>3. \A i \in 1..Len(ready) : i \in OpenSlots(m.view) => CarriedBy(ready[i], t, kind) = <<>>
    BY <2>1, CarriedByType DEF OpenSlots, Continuous, Kinds
  <2>4. \A i \in 1..Len(ready) : x(i) \in Message /\ CarriedBy(x(i), t, kind) = CarriedBy(ready[i], t, kind)
    BY <2>1, <2>2, <2>3
  <2>5. Posted(m) = [i \in 1..Len(ready) |-> x(i)] /\ Len(ready) \in Nat
    BY <1>3
  <2> HIDE DEF x
  <2>6. Posted(m) \in Seq(Message) /\ Len(Posted(m)) = Len(ready)
    BY <2>4, <2>5
  <2>7. \A i \in 1..Len(ready) : CarriedBy(Posted(m)[i], t, kind) = CarriedBy(ready[i], t, kind)
    BY <2>4, <2>5
  <2>8. Carried(t, Posted(m), kind) = Carried(t, ready, kind)
    BY <2>6, <2>7, CarriedSame
  <2>9. Carried(t, ready, kind) \o <<>> = Carried(t, ready, kind)
    BY CarriedType, ConcatEmptySeq
  <2> QED BY <2>2, <2>8, <2>9
<1> QED BY <1>1, <1>2, <1>3 DEF Posted

(* The loop's next callback leaves the front, and one may join the end. *)
LEMMA FinishCarries ==
  ASSUME ready \in Seq(Message), ready # <<>>, NEW more, Finish(more), NEW m,
         more = <<>> \/ (m \in Message /\ more = <<m>>), NEW t, NEW kind \in Kinds
  PROVE  /\ Carried(t, Tail(ready), kind) \in Seq(Nat)
         /\ Carried(t, ready, kind) = CarriedBy(Next1, t, kind) \o Carried(t, Tail(ready), kind)
         /\ more = <<>> => Carried(t, ready', kind) = Carried(t, Tail(ready), kind)
         /\ more = <<m>> => Carried(t, ready', kind) = Carried(t, Tail(ready), kind) \o CarriedBy(m, t, kind)
<1>1. Tail(ready) \in Seq(Message)
  OBVIOUS
<1>2. Carried(t, Tail(ready), kind) \in Seq(Nat)
  BY <1>1, CarriedType
<1>3. Carried(t, ready, kind) = CarriedBy(Next1, t, kind) \o Carried(t, Tail(ready), kind)
  BY CarriedTail DEF Next1
<1>4. more = <<>> => ready' = Tail(ready)
  BY FinishNothing
<1>5. more = <<m>> => m \in Message /\ ready' = Append(Tail(ready), m)
  <2> SUFFICES ASSUME more = <<m>> PROVE m \in Message /\ ready' = Append(Tail(ready), m)
    OBVIOUS
  <2>1. m \in Message
    OBVIOUS
  <2>2. ready' = Tail(ready) \o <<m>>
    BY DEF Finish
  <2>3. \A q \in Seq(Message) : q \o <<m>> = Append(q, m)
    BY <2>1
  <2> QED BY <1>1, <2>1, <2>2, <2>3
<1>6. m \in Message => Carried(t, Append(Tail(ready), m), kind)
                         = Carried(t, Tail(ready), kind) \o CarriedBy(m, t, kind)
  BY <1>1, CarriedAppend
<1> QED BY <1>2, <1>3, <1>4, <1>5, <1>6

---------------------------------------------------------------------------
(* A reading goes from one place to the next. *)
LEMMA Typed ==
  ASSUME NEW a \in Seq(Nat), NEW b \in Seq(Nat)
  PROVE  a \o b \in Seq(Nat)
OBVIOUS

Passed(a, b, c, d) == (a \o b) \o (c \o d) = (a \o (b \o c)) \o d
LEMMA Passing ==
  ASSUME NEW a \in Seq(Nat), NEW b \in Seq(Nat), NEW c \in Seq(Nat), NEW d \in Seq(Nat)
  PROVE  Passed(a, b, c, d)
<1>1. a \o b \in Seq(Nat)
  BY Typed
<1>2. Regroups(a \o b, c, d) /\ Regroups(a, b, c)
  BY <1>1, Regroup
<1> QED BY <1>2 DEF Regroups, Passed

LEMMA Sends ==
  ASSUME NEW y \in Seq(Nat), NEW o \in Seq(Nat), NEW e \in Seq(Nat), NEW r \in Seq(Nat),
         NEW m \in Seq(Nat), NEW n \in Nat, InTurn(y, o, e, r, m, n)
  PROVE  InTurn(y, o, e, r, m \o <<n + 1>>, n + 1)
<1> DEFINE a == y \o o \o e \o r
           w == <<n + 1>>
           s == [i \in 1..n |-> i]
           z == [i \in 1..n + 1 |-> i]
<1>1. a \in Seq(Nat) /\ a \o m = s
  BY Typed DEF InTurn
<1>2. /\ w \in Seq(Nat) /\ n + 1 \in Nat
      /\ s \in Seq(Nat) /\ Len(s) = n /\ \A i \in 1..n : s[i] = i
      /\ z \in Seq(Nat) /\ Len(z) = n + 1 /\ \A i \in 1..n + 1 : z[i] = i
  OBVIOUS
<1>3. \A q \in Seq(Nat) : q \o w = Append(q, n + 1)
  OBVIOUS
<1> HIDE DEF a, w, s, z
<1>4. z = Append(s, n + 1)
  BY <1>2, IsAppend
<1>5. Regroups(a, m, w)
  BY <1>1, <1>2, Regroup
<1>6. a \o (m \o w) = z
  BY <1>1, <1>2, <1>3, <1>4, <1>5 DEF Regroups
<1> QED BY <1>6 DEF InTurn, a, w, z

PassesOn(y, o, e, r, m, n, c) ==
    /\ InTurn(y, o, e, r, c \o m, n) => InTurn(y, o, e, r \o c, m, n)
    /\ InTurn(y, o, e, c \o r, m, n) => InTurn(y, o, e \o c, r, m, n)
    /\ InTurn(y, o, c \o e, r, m, n) => InTurn(y, o \o c, e, r, m, n)
    /\ InTurn(y, <<>>, c \o e, r, m, n) => InTurn(y \o c, <<>>, e, r, m, n)
    /\ InTurn(<<>>, o, e, r, m, n) => InTurn(o, <<>>, e, r, m, n)
LEMMA Passes ==
  ASSUME NEW y \in Seq(Nat), NEW o \in Seq(Nat), NEW e \in Seq(Nat), NEW r \in Seq(Nat),
         NEW m \in Seq(Nat), NEW n, NEW c \in Seq(Nat)
  PROVE  PassesOn(y, o, e, r, m, n, c)
<1>1. y \o o \in Seq(Nat) /\ y \o o \o e \in Seq(Nat) /\ y \o c \in Seq(Nat)
  BY Typed
<1>2. /\ Passed(y \o o \o e, r, c, m) /\ Passed(y \o o, e, c, r) /\ Passed(y, o, c, e)
      /\ Regroups(y, c, e)
  BY <1>1, Passing, Regroup
<1>3. y \o <<>> = y /\ <<>> \o o = o /\ o \o <<>> = o /\ (y \o c) \o <<>> = y \o c
  BY <1>1, ConcatEmptySeq
<1> QED BY <1>2, <1>3 DEF PassesOn, InTurn, Passed, Regroups

---------------------------------------------------------------------------
(* The account of every stream, action by action. *)
LEMMA PartsType ==
  ASSUME TypeOK, NEW t \in Streams
  PROVE  /\ yielded[t] \in Seq(Nat) /\ Own(t) \in Seq(Nat) /\ early[t] \in Seq(Aside)
         /\ Carried(t, ready, "enqueue") \in Seq(Nat) /\ Carried(t, ready, "reading") \in Seq(Nat)
         /\ Carried(t, mailbox, "reading") \in Seq(Nat)
         /\ emitted[t] \in Nat /\ ready \in Seq(Message) /\ mailbox \in Seq(Message)
<1>1. Honest \subseteq Message
  BY DEF Honest
<1>2. ready \in Seq(Message) /\ mailbox \in Seq(Message)
  BY <1>1 DEF TypeOK
<1>3. /\ Carried(t, ready, "enqueue") \in Seq(Nat) /\ Carried(t, ready, "reading") \in Seq(Nat)
      /\ Carried(t, mailbox, "reading") \in Seq(Nat)
  BY <1>2, CarriedType DEF Kinds
<1>4. yielded[t] \in Seq(Nat) /\ early[t] \in Seq(Aside) /\ emitted[t] \in Nat
  BY DEF TypeOK, Sources
<1> QED BY <1>2, <1>3, <1>4, OwnType

LEMMA SameAccount ==
  ASSUME NEW t, Accounted(t),
         task'[t].at \in {"new", "starting", "iterating"} => task'[t].at = task[t].at,
         yielded'[t] = yielded[t], early'[t] = early[t], emitted'[t] = emitted[t],
         Carried(t, ready', "enqueue") = Carried(t, ready, "enqueue"),
         Carried(t, ready', "reading") = Carried(t, ready, "reading"),
         Carried(t, mailbox', "reading") = Carried(t, mailbox, "reading")
  PROVE  Accounted(t)'
<1>1. Own(t)' = Own(t)
  BY DEF Own
<1> QED BY <1>1 DEF Accounted

LEMMA CallAccounts ==
  ASSUME NInv, RInv, NEW m \in Message, m.kind \in {"sample", "settle", "reading"}, CallPython(m)
  PROVE  /\ mailbox' \in Seq(FromNative) /\ ready' = ready
         /\ \A t : Carried(t, mailbox', "reading")
                     = Carried(t, mailbox, "reading") \o CarriedBy(m, t, "reading")
<1>1. m \in FromNative
  BY DEF FromNative
<1>2. mailbox \in Seq(Message) /\ mailbox \in Seq(FromNative) /\ mailbox' = Queued(m) /\ ready' = ready
  BY DEF NInv, TypeOK, RInv, CallPython, FromNative
<1>3. mailbox' \in Seq(FromNative)
  BY <1>1, <1>2, QueuedType
<1>4. "reading" \in Kinds
  BY DEF Kinds
<1> QED BY <1>2, <1>3, <1>4, QueuedCarries

LEMMA RInit == Init => RInv
<1> SUFFICES ASSUME Init PROVE RInv
  OBVIOUS
<1> USE DEF Init, MailboxInit, Task
<1>1. mailbox \in Seq(FromNative)
  OBVIOUS
<1>2. ASSUME NEW t \in Streams PROVE Accounted(t)
  <2>1. yielded[t] = <<>> /\ early[t] = <<>> /\ emitted[t] = 0
    OBVIOUS
  <2>2. \A kind \in Kinds : Carried(t, <<>>, kind) = <<>>
    <3>1. [i \in DOMAIN <<>> |-> i] = <<>> /\ FlattenSeq(<<>>) = <<>>
      BY DEF FlattenSeq
    <3>2. \A kind \in Kinds : [i \in DOMAIN <<>> |-> CarriedBy(<<>>[i], t, kind)] = <<>>
      OBVIOUS
    <3> QED BY <3>1, <3>2 DEF Carried
  <2>3. Own(t) = <<>>
    <3>1. FlattenSeq(<<>>) = <<>>
      BY DEF FlattenSeq
    <3>2. [i \in DOMAIN <<>> |-> Kept(<<>>[i], t)] = <<>>
      OBVIOUS
    <3> QED BY <2>1, <3>1, <3>2 DEF Own
  <2>4. InTurn(<<>>, <<>>, <<>>, <<>>, <<>>, 0)
    BY DEF InTurn
  <2> QED BY <2>1, <2>2, <2>3, <2>4 DEF Accounted, Kinds
<1> QED BY <1>1, <1>2 DEF RInv

LEMMA SampleAccounts ==
  ASSUME NInv, RInv, NEW v \in Views, Sample(v), Quiet
  PROVE  RInv'
<1> DEFINE m == [kind |-> "sample", view |-> v, n |-> sent'[v], open |-> v \notin Gestures]
<1>1. m \in Message /\ m.kind = "sample" /\ CallPython(m)
  BY DEF NInv, TypeOK, Sample, Message, Moments
<1> HIDE DEF m
<1>2. /\ mailbox' \in Seq(FromNative) /\ ready' = ready
      /\ \A t : Carried(t, mailbox', "reading")
                     = Carried(t, mailbox, "reading") \o CarriedBy(m, t, "reading")
  BY <1>1, CallAccounts
<1>3. ASSUME NEW t \in Streams PROVE Accounted(t)'
  <2>1. CarriedBy(m, t, "reading") = <<>>
    BY <1>1, CarriedByType DEF Kinds
  <2>2. Carried(t, mailbox', "reading") = Carried(t, mailbox, "reading")
    BY <1>2, <2>1, PartsType, ConcatEmptySeq DEF NInv
  <2> QED BY <1>2, <2>2, SameAccount DEF RInv, Quiet, native, python
<1> QED BY <1>2, <1>3 DEF RInv

LEMMA DrainAccounts ==
  ASSUME NInv, RInv, Drain, Quiet
  PROVE  RInv'
<1>1. CASE mailbox = <<>>
  <2>1. UNCHANGED <<mailbox, ready>>
    BY <1>1 DEF Drain
  <2>2. \A t \in Streams : Accounted(t)'
    BY <2>1, SameAccount DEF RInv, Quiet, native, python
  <2> QED BY <2>1, <2>2 DEF RInv
<1>2. CASE mailbox # <<>>
  <2> DEFINE m == Head(mailbox)
  <2>1. mailbox \in Seq(FromNative) /\ mailbox' = Tail(mailbox) /\ ready' = Posted(m)
    BY <1>2 DEF Drain, RInv
  <2>2. m \in FromNative /\ Tail(mailbox) \in Seq(FromNative)
    BY <1>2, <2>1
  <2>3. m \in Message /\ m.kind # "enqueue" /\ Tail(mailbox) \in Seq(Message) /\ mailbox \in Seq(Message)
        /\ ready \in Seq(Message)
    BY <2>1, <2>2 DEF FromNative, NInv, TypeOK, Honest
  <2>4. ASSUME NEW t \in Streams PROVE Accounted(t)'
    <3> DEFINE c == CarriedBy(m, t, "reading")
    <3>1. Carried(t, mailbox, "reading") = c \o Carried(t, mailbox', "reading")
      BY <1>2, <2>1, <2>3, CarriedTail DEF Kinds
    <3>2. Carried(t, ready', "reading") = Carried(t, ready, "reading") \o c
      BY <2>1, <2>3, PostedCarries DEF Kinds
    <3>3. Carried(t, ready', "enqueue") = Carried(t, ready, "enqueue")
      <4>1. CarriedBy(m, t, "enqueue") = <<>>
        BY <2>3, CarriedByType DEF Kinds
      <4>2. Carried(t, ready', "enqueue") = Carried(t, ready, "enqueue") \o CarriedBy(m, t, "enqueue")
        BY <2>1, <2>3, PostedCarries DEF Kinds
      <4> QED BY <4>1, <4>2, PartsType, ConcatEmptySeq DEF NInv
    <3>4. c \in Seq(Nat) /\ Carried(t, mailbox', "reading") \in Seq(Nat)
      BY <2>1, <2>3, CarriedByType, CarriedType DEF Kinds
    <3>5. Own(t)' = Own(t)
      BY DEF Own, Quiet, python
    <3> HIDE DEF m, c
    <3>6. ASSUME InTurn(yielded[t], Own(t), Carried(t, ready, "enqueue"),
                    Carried(t, ready, "reading"), Carried(t, mailbox, "reading"), emitted[t])
          PROVE  InTurn(yielded[t], Own(t), Carried(t, ready, "enqueue"),
                    Carried(t, ready', "reading"), Carried(t, mailbox', "reading"), emitted[t])
      <4>1. PassesOn(yielded[t], Own(t), Carried(t, ready, "enqueue"), Carried(t, ready, "reading"),
                     Carried(t, mailbox', "reading"), emitted[t], c)
        BY <3>4, PartsType, Passes DEF NInv
      <4> QED BY <3>1, <3>2, <3>6, <4>1 DEF PassesOn
    <3> QED BY <3>3, <3>5, <3>6 DEF Accounted, RInv, Quiet, native, python
  <2> QED BY <2>1, <2>2, <2>4 DEF RInv
<1> QED BY <1>1, <1>2

(* A callback that is no reading leaves the front, and no reading joins. *)
LEMMA FinishKeeps ==
  ASSUME NInv, RInv, NEW kind, Runs1(kind), kind \notin Kinds, NEW m \in Message, m.kind \notin Kinds,
         NEW more, more = <<>> \/ more = <<m>>, Finish(more), NEW t \in Streams
  PROVE  /\ \A k \in Kinds : Carried(t, ready', k) = Carried(t, ready, k)
         /\ mailbox' = mailbox
<1>1. mailbox' = mailbox
  BY DEF Finish
<1>2. ready \in Seq(Message) /\ ready # <<>> /\ Next1 \in Message /\ Next1.kind = kind
  BY NextHonest DEF NInv, TypeOK, Honest
<1>3. ASSUME NEW k \in Kinds PROVE Carried(t, ready', k) = Carried(t, ready, k)
  <2>1. CarriedBy(Next1, t, k) = <<>> /\ CarriedBy(m, t, k) = <<>>
    BY <1>2, CarriedByType
  <2>2. /\ Carried(t, Tail(ready), k) \in Seq(Nat)
        /\ Carried(t, ready, k) = CarriedBy(Next1, t, k) \o Carried(t, Tail(ready), k)
        /\ more = <<>> => Carried(t, ready', k) = Carried(t, Tail(ready), k)
        /\ more = <<m>> => Carried(t, ready', k) = Carried(t, Tail(ready), k) \o CarriedBy(m, t, k)
    BY <1>2, FinishCarries
  <2>3. /\ <<>> \o Carried(t, Tail(ready), k) = Carried(t, Tail(ready), k)
        /\ Carried(t, Tail(ready), k) \o <<>> = Carried(t, Tail(ready), k)
    BY <2>2, ConcatEmptySeq
  <2> QED BY <2>1, <2>2, <2>3
<1> QED BY <1>1, <1>3

LEMMA DeliverSampleAccounts ==
  ASSUME NInv, RInv, DeliverSample, Quiet
  PROVE  RInv'
<1>1. Runs1("sample") /\ Finish(<<>>) /\ Next1 \in Message /\ Next1.kind = "sample"
      /\ UNCHANGED <<native, python>>
  BY NextHonest DEF DeliverSample, Quiet, NInv, Honest
<1>2. ASSUME NEW t \in Streams PROVE Accounted(t)'
  <2>1. (\A k \in Kinds : Carried(t, ready', k) = Carried(t, ready, k)) /\ mailbox' = mailbox
    BY <1>1, FinishKeeps DEF Kinds
  <2> QED BY <1>1, <2>1, SameAccount DEF RInv, native, python, Kinds
<1> QED BY <1>1, <1>2 DEF RInv, Finish

LEMMA DispatchAnswerAccounts ==
  ASSUME NInv, RInv, DispatchAnswer
  PROVE  RInv'
<1> DEFINE m == Complete(Next1.stream, Next1.outcome)
           more == IF Next1.stream \in pending THEN <<m>> ELSE <<>>
<1>1. Runs1("settle") /\ Finish(more) /\ UNCHANGED <<input, native, task, listening, early, yielded>>
  BY DEF DispatchAnswer
<1>2. m \in Message /\ m.kind \notin Kinds
  BY <1>1, NextHonest, HonestKinds DEF Complete, Message, NInv, Kinds
<1> HIDE DEF m
<1>3. more = <<>> \/ more = <<m>>
  OBVIOUS
<1> HIDE DEF more
<1>4. ASSUME NEW t \in Streams PROVE Accounted(t)'
  <2>1. (\A k \in Kinds : Carried(t, ready', k) = Carried(t, ready, k)) /\ mailbox' = mailbox
    BY <1>1, <1>2, <1>3, FinishKeeps DEF Kinds
  <2> QED BY <1>1, <2>1, SameAccount DEF RInv, native, Kinds
<1> QED BY <1>1, <1>4 DEF RInv, Finish

LEMMA ResolveFutureAccounts ==
  ASSUME NInv, RInv, ResolveFuture
  PROVE  RInv'
<1> DEFINE m == Wake(Next1.stream)
           more == IF task[Next1.stream].future = "waiting" THEN <<m>> ELSE <<>>
<1>1. /\ Runs1("complete") /\ Finish(more) /\ UNCHANGED <<input, native, listening, early, yielded>>
      /\ task' = IF task[Next1.stream].future = "waiting"
                 THEN [task EXCEPT ![Next1.stream].future = Next1.outcome] ELSE task
  BY DEF ResolveFuture
<1>2. m \in Message /\ m.kind \notin Kinds
  BY <1>1, NextHonest, HonestKinds DEF Wake, Message, NInv, Kinds
<1>3. more = <<>> \/ more = <<m>>
  OBVIOUS
<1> HIDE DEF m, more
<1>4. \A t \in Streams : task'[t].at = task[t].at
  BY <1>1 DEF NInv, TypeOK, TaskType
<1>5. ASSUME NEW t \in Streams PROVE Accounted(t)'
  <2>1. (\A k \in Kinds : Carried(t, ready', k) = Carried(t, ready, k)) /\ mailbox' = mailbox
    BY <1>1, <1>2, <1>3, FinishKeeps DEF Kinds
  <2> QED BY <1>1, <1>4, <2>1, SameAccount DEF RInv, native, Kinds
<1> QED BY <1>1, <1>5 DEF RInv, Finish

(* A reading is delivered to its stream's listener, which is there. *)
LEMMA DispatchReadingAccounts ==
  ASSUME NInv, RInv, DispatchReading
  PROVE  RInv'
<1> DEFINE m == Enqueues
           more == IF listening = {} THEN <<>> ELSE <<m>>
<1>1. Runs1("reading") /\ Finish(more) /\ UNCHANGED <<input, native, python>>
  BY DEF DispatchReading, Enqueues
<1>2. /\ Next1 \in Honest /\ Next1 \in Message /\ Next1.kind = "reading" /\ ready # <<>>
      /\ ready \in Seq(Message) /\ Next1.stream \in Sources /\ Next1.n \in Nat
      /\ Next1.stream \in Streams => task[Next1.stream].at # "new"
  BY <1>1, NextHonest, HonestKinds DEF NInv, TypeOK, Honest
<1>3. /\ m \in Message /\ m.kind = "enqueue" /\ m.to = listening /\ m.stream = Next1.stream
      /\ m.n = Next1.n
  BY <1>2 DEF Enqueues, Message, NInv, TypeOK
<1> HIDE DEF m
<1>4. ASSUME NEW t \in Streams, task[t].at \in {"new", "starting", "iterating"} PROVE Accounted(t)'
  <2> DEFINE c == CarriedBy(Next1, t, "reading")
             rest == Carried(t, Tail(ready), "reading")
             e == Carried(t, ready, "enqueue")
  <2>1. /\ rest \in Seq(Nat) /\ Carried(t, ready, "reading") = c \o rest
        /\ Carried(t, ready', "reading") = rest
    <3>1. CarriedBy(m, t, "reading") = <<>>
      BY <1>3, CarriedByType DEF Kinds
    <3>2. /\ rest \in Seq(Nat) /\ Carried(t, ready, "reading") = c \o rest
          /\ more = <<>> => Carried(t, ready', "reading") = rest
          /\ more = <<m>> => Carried(t, ready', "reading") = rest \o CarriedBy(m, t, "reading")
      BY <1>1, <1>2, <1>3, FinishCarries DEF Kinds
    <3>3. rest \o <<>> = rest
      BY <3>2, ConcatEmptySeq
    <3> QED BY <3>1, <3>2, <3>3
  <2>2. Carried(t, ready', "enqueue") = e \o c
    <3> DEFINE others == Carried(t, Tail(ready), "enqueue")
    <3>1. CarriedBy(Next1, t, "enqueue") = <<>>
      BY <1>2, CarriedByType DEF Kinds
    <3>2. /\ others \in Seq(Nat) /\ e = CarriedBy(Next1, t, "enqueue") \o others
          /\ more = <<>> => Carried(t, ready', "enqueue") = others
          /\ more = <<m>> => Carried(t, ready', "enqueue") = others \o CarriedBy(m, t, "enqueue")
      BY <1>1, <1>2, <1>3, FinishCarries DEF Kinds
    <3>3. <<>> \o others = others /\ others \o <<>> = others
      BY <3>2, ConcatEmptySeq
    <3>4. t = Next1.stream => t \in listening
      BY <1>2, <1>4 DEF NInv, Stages, Stage
    <3>5. IF more = <<>> THEN c = <<>> ELSE CarriedBy(m, t, "enqueue") = c
      BY <1>2, <1>3, <3>4 DEF CarriedBy
    <3> QED BY <3>1, <3>2, <3>3, <3>5
  <2>3. c \in Seq(Nat)
    BY <1>2, CarriedByType DEF Kinds
  <2> HIDE DEF c, rest, e
  <2>4. PassesOn(yielded[t], Own(t), e, rest, Carried(t, mailbox, "reading"), emitted[t], c)
    <3>1. e \in Seq(Nat)
      BY PartsType DEF e, NInv
    <3> QED BY <2>1, <2>3, <3>1, PartsType, Passes DEF NInv
  <2>5. Own(t)' = Own(t) /\ mailbox' = mailbox
    BY <1>1 DEF Own, python, Finish
  <2>6. ASSUME InTurn(yielded[t], Own(t), e, Carried(t, ready, "reading"), Carried(t, mailbox, "reading"), emitted[t])
        PROVE  InTurn(yielded[t], Own(t), e \o c, rest, Carried(t, mailbox, "reading"), emitted[t])
    BY <2>1, <2>4, <2>6 DEF PassesOn
  <2> QED BY <1>1, <2>1, <2>2, <2>5, <2>6 DEF Accounted, RInv, native, python, e
<1>5. ASSUME NEW t \in Streams, task[t].at \notin {"new", "starting", "iterating"} PROVE Accounted(t)'
  BY <1>1, <1>5 DEF Accounted, python
<1> QED BY <1>1, <1>4, <1>5 DEF RInv, Finish

(* A reading joins those put aside, or those yielded. *)
LEMMA EnqueueAccounts ==
  ASSUME NInv, RInv, Enqueue
  PROVE  RInv'
<1>1. Runs1("enqueue") /\ Finish(<<>>) /\ UNCHANGED <<input, native, pending, task, listening>>
  BY DEF Enqueue
<1>2. /\ Next1 \in Honest /\ Next1 \in Message /\ Next1.kind = "enqueue" /\ ready # <<>>
      /\ ready \in Seq(Message) /\ Next1.stream \in Sources /\ Next1.n \in Nat
      /\ Next1.stream \in Streams => task[Next1.stream].at # "new"
  BY <1>1, NextHonest, HonestKinds DEF NInv, TypeOK, Honest
<1>3. ASSUME NEW t \in Streams, task[t].at \in {"new", "starting", "iterating"} PROVE Accounted(t)'
  <2> DEFINE c == CarriedBy(Next1, t, "enqueue")
             rest == Carried(t, Tail(ready), "enqueue")
             r == Carried(t, ready, "reading")
             a == [stream |-> Next1.stream, n |-> Next1.n]
  <2>1. /\ rest \in Seq(Nat) /\ Carried(t, ready, "enqueue") = c \o rest
        /\ Carried(t, ready', "enqueue") = rest
    BY <1>1, <1>2, FinishCarries DEF Kinds
  <2>2. Carried(t, ready', "reading") = r
    <3> DEFINE others == Carried(t, Tail(ready), "reading")
    <3>1. CarriedBy(Next1, t, "reading") = <<>>
      BY <1>2, CarriedByType DEF Kinds
    <3>2. /\ others \in Seq(Nat) /\ r = CarriedBy(Next1, t, "reading") \o others
          /\ Carried(t, ready', "reading") = others
      BY <1>1, <1>2, FinishCarries DEF Kinds
    <3>3. <<>> \o others = others
      BY <3>2, ConcatEmptySeq
    <3> QED BY <3>1, <3>2, <3>3
  <2>3. c \in Seq(Nat) /\ mailbox' = mailbox /\ emitted' = emitted /\ task' = task
    BY <1>1, <1>2, CarriedByType DEF Kinds, Finish, native
  <2>4. Accounted(t)
    BY DEF RInv
  <2>5. /\ a \in Aside /\ c = (IF Next1.stream = t /\ t \in Next1.to THEN <<Next1.n>> ELSE <<>>)
        /\ Kept(a, t) = (IF Next1.stream = t THEN <<Next1.n>> ELSE <<>>)
    BY <1>2 DEF Aside, CarriedBy, Kept
  <2>6. /\ early'[t] = IF t \in Next1.to /\ task[t].at = "starting" THEN Append(early[t], a) ELSE early[t]
        /\ yielded'[t] = IF t \in Next1.to /\ task[t].at = "iterating" /\ Next1.stream = t
                         THEN Append(yielded[t], Next1.n) ELSE yielded[t]
    BY DEF Enqueue
  <2>7. PassesOn(yielded[t], Own(t), rest, r, Carried(t, mailbox, "reading"), emitted[t], c)
    BY <2>1, <2>3, PartsType, Passes DEF NInv
  <2> HIDE DEF c, rest, r, a
  <2>8. CASE t \in Next1.to /\ task[t].at = "starting"
    <3>1. early'[t] = Append(early[t], a) /\ yielded'[t] = yielded[t] /\ Kept(a, t) = c
      BY <2>5, <2>6, <2>8
    <3>2. Own(t)' = Own(t) \o c
      BY <2>5, <3>1, OwnAppend, PartsType DEF Own, NInv
    <3> QED BY <2>1, <2>2, <2>3, <2>4, <2>7, <2>8, <3>1, <3>2 DEF Accounted, PassesOn, r
  <2>9. CASE t \in Next1.to /\ task[t].at = "iterating" /\ Next1.stream = t
    <3>1. early'[t] = early[t] /\ yielded'[t] = yielded[t] \o c
      <4>1. yielded[t] \in Seq(Nat) /\ c = <<Next1.n>> /\ Next1.n \in Nat
        BY <1>2, <2>5, <2>9, PartsType DEF NInv
      <4>2. \A q \in Seq(Nat) : q \o <<Next1.n>> = Append(q, Next1.n)
        BY <4>1
      <4> QED BY <2>6, <2>9, <4>1, <4>2
    <3>2. Own(t) = <<>> /\ Own(t)' = <<>>
      <4>1. early[t] = <<>>
        BY <2>4, <2>9 DEF Accounted
      <4>2. FlattenSeq(<<>>) = <<>>
        BY DEF FlattenSeq
      <4>3. [i \in DOMAIN <<>> |-> Kept(<<>>[i], t)] = <<>>
        OBVIOUS
      <4> QED BY <3>1, <4>1, <4>2, <4>3 DEF Own
    <3> QED BY <2>1, <2>2, <2>3, <2>4, <2>7, <2>9, <3>1, <3>2 DEF Accounted, PassesOn, r
  <2>10. CASE ~(t \in Next1.to /\ task[t].at = "starting")
              /\ ~(t \in Next1.to /\ task[t].at = "iterating" /\ Next1.stream = t)
    <3>1. early'[t] = early[t] /\ yielded'[t] = yielded[t]
      BY <2>6, <2>10
    <3>2. c = <<>>
      BY <1>2, <1>3, <2>5, <2>10
    <3>3. Carried(t, ready, "enqueue") = rest
      BY <2>1, <3>2, ConcatEmptySeq
    <3> QED BY <2>1, <2>2, <2>3, <2>4, <3>1, <3>3, SameAccount DEF r
  <2> QED BY <2>8, <2>9, <2>10
<1>4. ASSUME NEW t \in Streams, task[t].at \notin {"new", "starting", "iterating"} PROVE Accounted(t)'
  BY <1>1, <1>4 DEF Accounted
<1> QED BY <1>1, <1>3, <1>4 DEF RInv, Finish

(* The other streams keep what they have when one ends. *)
LEMMA EndAccounts ==
  ASSUME NInv, RInv, NEW t \in Streams, NEW how \in {"stopped", "failed", "cancelled"}, End(t, how),
         emitted' = emitted, mailbox' = mailbox,
         \A s \in Streams, k \in Kinds : Carried(s, ready', k) = Carried(s, ready, k)
  PROVE  RInv'
<1>1. /\ task' = [task EXCEPT ![t] = Task(how, "none")]
      /\ early' = [early EXCEPT ![t] = <<>>] /\ yielded' = [yielded EXCEPT ![t] = <<>>]
      /\ task \in [Streams -> TaskType] /\ early \in [Streams -> Seq(Aside)]
      /\ yielded \in [Streams -> Seq(Nat)]
  BY DEF End, NInv, TypeOK
<1>2. ASSUME NEW s \in Streams PROVE Accounted(s)'
  <2>1. CASE s = t
    <3>1. task'[s].at = how
      BY <1>1, <2>1 DEF Task
    <3> QED BY <3>1 DEF Accounted
  <2>2. CASE s # t
    <3>1. task'[s] = task[s] /\ early'[s] = early[s] /\ yielded'[s] = yielded[s]
      BY <1>1, <2>2
    <3> QED BY <3>1, SameAccount DEF RInv, Kinds
  <2> QED BY <2>1, <2>2
<1> QED BY <1>2 DEF RInv

LEMMA LeaveAccounts ==
  ASSUME NInv, RInv, NEW t \in Streams, Leave(t)
  PROVE  RInv'
BY EndAccounts DEF Leave, channel

(* What was put aside is taken over. *)
LEMMA ResumeAccounts ==
  ASSUME NInv, RInv, Resume
  PROVE  RInv'
<1>0. PICK t : t = Next1.stream
  OBVIOUS
<1>1. /\ Runs1("wake") /\ Finish(<<>>) /\ UNCHANGED input
      /\ (ResumeCancelled(t) \/ ResumeFailed(t) \/ ResumeStarted(t))
  BY <1>0 DEF Resume
<1>2. t \in Streams /\ Next1 \in Message /\ Next1.kind = "wake"
  BY <1>0, <1>1, NextHonest, HonestKinds DEF NInv, Honest
<1>3. /\ \A s \in Streams, k \in Kinds : Carried(s, ready', k) = Carried(s, ready, k)
      /\ mailbox' = mailbox
  BY <1>1, <1>2, FinishKeeps DEF Kinds, Finish
<1>4. CASE ResumeCancelled(t)
  BY <1>2, <1>3, <1>4, EndAccounts DEF ResumeCancelled
<1>5. CASE ResumeFailed(t)
  BY <1>2, <1>3, <1>5, EndAccounts DEF ResumeFailed, native
<1>6. CASE ResumeStarted(t)
  <2>1. /\ task' = [task EXCEPT ![t] = Task("iterating", "none")]
        /\ early' = [early EXCEPT ![t] = <<>>] /\ yielded' = [yielded EXCEPT ![t] = Own(t)]
        /\ emitted' = emitted /\ task[t].at = "starting"
        /\ task \in [Streams -> TaskType] /\ early \in [Streams -> Seq(Aside)]
        /\ yielded \in [Streams -> Seq(Nat)]
    BY <1>2, <1>6 DEF ResumeStarted, native, NInv, TypeOK, Stages, Stage
  <2>2. ASSUME NEW s \in Streams, s # t PROVE Accounted(s)'
    <3>1. task'[s] = task[s] /\ early'[s] = early[s] /\ yielded'[s] = yielded[s]
      BY <2>1, <2>2
    <3> QED BY <1>3, <2>1, <3>1, SameAccount DEF RInv, Kinds
  <2>3. Accounted(t)'
    <3>1. task'[t].at = "iterating" /\ early'[t] = <<>> /\ yielded'[t] = Own(t)
      BY <1>2, <2>1 DEF Task
    <3>2. Own(t)' = <<>>
      <4>1. FlattenSeq(<<>>) = <<>>
        BY DEF FlattenSeq
      <4>2. [i \in DOMAIN <<>> |-> Kept(<<>>[i], t)] = <<>>
        OBVIOUS
      <4> QED BY <3>1, <4>1, <4>2 DEF Own
    <3>3. InTurn(<<>>, Own(t), Carried(t, ready, "enqueue"), Carried(t, ready, "reading"),
                 Carried(t, mailbox, "reading"), emitted[t])
      BY <1>2, <2>1 DEF RInv, Accounted
    <3>4. PassesOn(<<>>, Own(t), Carried(t, ready, "enqueue"), Carried(t, ready, "reading"),
                   Carried(t, mailbox, "reading"), emitted[t], <<>>)
      <4>1. <<>> \in Seq(Nat)
        OBVIOUS
      <4> QED BY <1>2, <4>1, PartsType, Passes DEF NInv
    <3>5. InTurn(Own(t), <<>>, Carried(t, ready, "enqueue"), Carried(t, ready, "reading"),
                 Carried(t, mailbox, "reading"), emitted[t])
      BY <3>3, <3>4 DEF PassesOn
    <3> QED BY <1>3, <2>1, <3>1, <3>2, <3>5 DEF Accounted, Kinds
  <2> QED BY <1>3, <2>2, <2>3 DEF RInv
<1> QED BY <1>1, <1>4, <1>5, <1>6

LEMMA CancelAccounts ==
  ASSUME NInv, RInv, NEW t \in Streams, Cancel(t)
  PROVE  RInv'
<1>1. /\ UNCHANGED <<mailbox, native, early, yielded>>
      /\ (ready' = ready \/ ready' = Append(ready, Wake(t)))
      /\ \A s \in Streams : task'[s].at = task[s].at
  <2>1. task \in [Streams -> TaskType] /\ task[t] \in TaskType
    BY DEF NInv, TypeOK
  <2>2. /\ UNCHANGED <<mailbox, native, early, yielded>>
        /\ (ready' = ready \/ ready' = Append(ready, Wake(t)))
        /\ \/ task' = [task EXCEPT ![t].future = "cancelled"]
           \/ task' = [task EXCEPT ![t].cancel = TRUE]
    BY DEF Cancel
  <2>3. \A s \in Streams : task'[s].at = task[s].at
    BY <2>1, <2>2 DEF TaskType
  <2> QED BY <2>2, <2>3
<1>2. ASSUME NEW s \in Streams PROVE Accounted(s)'
  <2>1. \A k \in Kinds : Carried(s, ready', k) = Carried(s, ready, k)
    <3>1. Wake(t) \in Message /\ Wake(t).kind \notin Kinds
      BY DEF Wake, Message, Kinds
    <3>2. \A k \in Kinds : CarriedBy(Wake(t), s, k) = <<>>
      BY <3>1, CarriedByType
    <3>3. ready \in Seq(Message)
      BY PartsType DEF NInv
    <3>4. \A k \in Kinds : Carried(s, ready, k) \in Seq(Nat)
      BY <3>3, CarriedType
    <3>5. \A k \in Kinds : Carried(s, ready, k) \o <<>> = Carried(s, ready, k)
      BY <3>4, ConcatEmptySeq
    <3>6. \A k \in Kinds : Carried(s, Append(ready, Wake(t)), k) = Carried(s, ready, k) \o CarriedBy(Wake(t), s, k)
      BY <3>1, <3>3, CarriedAppend
    <3> QED BY <1>1, <3>2, <3>5, <3>6
  <2> QED BY <1>1, <2>1, SameAccount DEF RInv, native, Kinds
<1> QED BY <1>1, <1>2 DEF RInv

LEMMA OpenAccounts ==
  ASSUME NInv, RInv, NEW t \in Streams, Open(t)
  PROVE  RInv'
<1>1. /\ UNCHANGED <<mailbox, ready, emitted, early, yielded>> /\ task[t].at = "new"
      /\ \A s \in Streams : s # t => task'[s] = task[s]
  BY DEF Open, channel, NInv, TypeOK
<1>2. ASSUME NEW s \in Streams PROVE Accounted(s)'
  <2>1. CASE s # t
    BY <1>1, <2>1, SameAccount DEF RInv
  <2>2. CASE s = t
    <3>1. Own(s)' = Own(s) /\ Accounted(s)
      BY <1>1 DEF Own, RInv
    <3> QED BY <1>1, <2>2, <3>1 DEF Accounted
  <2> QED BY <2>1, <2>2
<1> QED BY <1>1, <1>2 DEF RInv

LEMMA SettleAccounts ==
  ASSUME NInv, RInv, NEW t \in Streams, NEW outcome \in Outcomes, Settle(t, outcome)
  PROVE  RInv'
<1>1. UNCHANGED <<input, emitted, python>>
  BY DEF Settle
<1>2. /\ mailbox' \in Seq(FromNative) /\ ready' = ready
      /\ \A s \in Streams : Carried(s, mailbox', "reading") = Carried(s, mailbox, "reading")
  <2>1. CASE CallPython(Answer(t, outcome))
    <3>1. Answer(t, outcome) \in Message /\ Answer(t, outcome).kind = "settle"
      BY DEF Answer, Message, NInv, TypeOK
    <3>2. /\ mailbox' \in Seq(FromNative) /\ ready' = ready
          /\ \A s : Carried(s, mailbox', "reading")
                     = Carried(s, mailbox, "reading") \o CarriedBy(Answer(t, outcome), s, "reading")
      BY <2>1, <3>1, CallAccounts
    <3>3. \A s \in Streams : CarriedBy(Answer(t, outcome), s, "reading") = <<>>
      BY <3>1, CarriedByType DEF Kinds
    <3>4. \A s \in Streams : Carried(s, mailbox, "reading") \o <<>> = Carried(s, mailbox, "reading")
      BY PartsType, ConcatEmptySeq DEF NInv
    <3> QED BY <3>2, <3>3, <3>4
  <2>2. CASE UNCHANGED channel
    BY <2>2 DEF channel, RInv
  <2> QED BY <2>1, <2>2 DEF Settle
<1>3. \A s \in Streams : Accounted(s)'
  BY <1>1, <1>2, SameAccount DEF RInv, python
<1> QED BY <1>2, <1>3 DEF RInv

LEMMA DeliverAccounts ==
  ASSUME NInv, RInv, Deliver
  PROVE  RInv'
<1> DEFINE m == Answer(Head(settling), promise[Head(settling)])
<1>1. UNCHANGED <<input, emitted, python>> /\ CallPython(m)
  BY DEF Deliver
<1>2. m \in Message /\ m.kind = "settle"
  <2>1. Head(settling) \in Settled
    BY DEF NInv, TypeOK, Deliver
  <2> QED BY <2>1 DEF Answer, Message, NInv, TypeOK, Settled
<1> HIDE DEF m
<1>3. /\ mailbox' \in Seq(FromNative) /\ ready' = ready
      /\ \A s : Carried(s, mailbox', "reading")
                  = Carried(s, mailbox, "reading") \o CarriedBy(m, s, "reading")
  BY <1>1, <1>2, CallAccounts
<1>4. ASSUME NEW s \in Streams PROVE Accounted(s)'
  <2>1. CarriedBy(m, s, "reading") = <<>>
    BY <1>2, CarriedByType DEF Kinds
  <2>2. Carried(s, mailbox, "reading") \o <<>> = Carried(s, mailbox, "reading")
    BY PartsType, ConcatEmptySeq DEF NInv
  <2> QED BY <1>1, <1>3, <2>1, <2>2, SameAccount DEF RInv, python
<1> QED BY <1>3, <1>4 DEF RInv

LEMMA EmitAccounts ==
  ASSUME NInv, RInv, NEW t \in Sources, Emit(t)
  PROVE  RInv'
<1> DEFINE m == Reading(t, emitted'[t])
<1>1. /\ emitted' = [emitted EXCEPT ![t] = @ + 1] /\ CallPython(m)
      /\ UNCHANGED python /\ emitted \in [Sources -> Nat]
  BY DEF Emit, NInv, TypeOK
<1>2. emitted'[t] = emitted[t] + 1 /\ emitted[t] \in Nat
  BY <1>1
<1>3. m \in Message /\ m.kind = "reading" /\ m.stream = t /\ m.n = emitted[t] + 1
  BY <1>2 DEF Reading, Message, NInv, TypeOK
<1> HIDE DEF m
<1>4. /\ mailbox' \in Seq(FromNative) /\ ready' = ready
      /\ \A s : Carried(s, mailbox', "reading")
                  = Carried(s, mailbox, "reading") \o CarriedBy(m, s, "reading")
  BY <1>1, <1>3, CallAccounts
<1>5. ASSUME NEW s \in Streams PROVE Accounted(s)'
  <2>1. CASE s # t
    <3>1. CarriedBy(m, s, "reading") = <<>> /\ emitted'[s] = emitted[s]
      BY <1>1, <1>3, <2>1 DEF CarriedBy, Sources
    <3>2. Carried(s, mailbox, "reading") \o <<>> = Carried(s, mailbox, "reading")
      BY PartsType, ConcatEmptySeq DEF NInv
    <3> QED BY <1>1, <1>4, <3>1, <3>2, SameAccount DEF RInv, python
  <2>2. CASE s = t
    <3>1. Carried(s, mailbox', "reading") = Carried(s, mailbox, "reading") \o <<emitted[s] + 1>>
      BY <1>3, <1>4, <2>2 DEF CarriedBy
    <3>2. Accounted(s) /\ Own(s)' = Own(s)
      BY <1>1 DEF RInv, Own, python
    <3>3. ASSUME InTurn(yielded[s], Own(s), Carried(s, ready, "enqueue"),
                        Carried(s, ready, "reading"), Carried(s, mailbox, "reading"), emitted[s])
          PROVE  InTurn(yielded[s], Own(s), Carried(s, ready, "enqueue"), Carried(s, ready, "reading"),
                        Carried(s, mailbox, "reading") \o <<emitted[s] + 1>>, emitted[s] + 1)
      BY <3>3, PartsType, Sends DEF NInv
    <3> QED BY <1>1, <1>2, <1>4, <2>2, <3>1, <3>2, <3>3 DEF Accounted, python
  <2> QED BY <2>1, <2>2
<1> QED BY <1>4, <1>5 DEF RInv

LEMMA RStep == NInv /\ RInv /\ [Next]_vars => RInv'
<1> SUFFICES ASSUME NInv, RInv, [Next]_vars PROVE RInv'
  OBVIOUS
<1>1. ASSUME Quiet, UNCHANGED <<mailbox, ready>> PROVE RInv'
  BY <1>1, SameAccount DEF RInv, Quiet, native, python
<1>2. CASE Next
  <2>1. CASE (Register \/ \E v \in Views : Sample(v)) /\ UNCHANGED <<native, python>>
    BY <1>1, <2>1, SampleAccounts DEF Quiet, Register
  <2>2. CASE Transport
    BY <1>1, <2>2, DrainAccounts DEF Transport, Quiet, ScheduleDrain
  <2>3. CASE LoopStep
    BY <2>3, DeliverSampleAccounts, DispatchAnswerAccounts, ResolveFutureAccounts,
       DispatchReadingAccounts, EnqueueAccounts, ResumeAccounts DEF LoopStep, Quiet
  <2>4. CASE \E t \in Streams \cup Others : Emit(t)
    BY <2>4, EmitAccounts DEF Sources
  <2>5. CASE \E t \in Streams :
               Open(t) \/ Cancel(t) \/ Leave(t) \/ \E outcome \in {"ok", "error"} : Settle(t, outcome)
    BY <2>5, OpenAccounts, CancelAccounts, LeaveAccounts, SettleAccounts DEF Outcomes
  <2> QED BY <1>2, <2>1, <2>2, <2>3, <2>4, <2>5, DeliverAccounts DEF Next
<1>3. CASE UNCHANGED vars
  BY <1>1, <1>3 DEF vars, Quiet, channel
<1> QED BY <1>2, <1>3

(* No reading of a stream's own subscription is lost, doubled or out of      *)
(* order, whenever the answer with its id arrives, and none of another is    *)
(* yielded.                                                                  *)
THEOREM ReadingsStayWhole == Spec => []ReadingsWhole
<1>1. RInv => ReadingsWhole
  BY DEF RInv, Accounted, InTurn, ReadingsWhole
<1>2. Spec => []RInv
  BY NInit, NStep, RInit, RStep, StagesInvariant, PTL DEF Spec
<1> QED BY <1>1, <1>2, PTL

---------------------------------------------------------------------------
(* How the order survives what the queues do. *)
LEMMA Kind ==
  ASSUME NEW m \in Message
  PROVE  /\ \A v : IsSample(m, v) => m.n \in Nat /\ ~IsDiscrete(m)
         /\ \A v, w : IsSample(m, v) /\ IsSample(m, w) => v = w
         /\ IsDiscrete(m) => m.at \in Moments
         /\ "at" \in DOMAIN m => IsDiscrete(m)
         /\ Open1(m) => m.view \in Views /\ IsSample(m, m.view)
BY DEF Message, IsSample, IsDiscrete, Open1

(* A message that joins the end. *)
Joins(m, v, hi, hi2) ==
    \/ IsSample(m, v) /\ hi2 = hi + 1 /\ m.n = hi2
    \/ ~IsSample(m, v) /\ hi2 = hi /\ (IsDiscrete(m) => m.at[v] = hi)

LEMMA OrderedAppend ==
  ASSUME NEW a \in Seq(Message), NEW v \in Views, NEW lo \in Nat, NEW hi \in Nat, NEW hi2 \in Nat,
         lo <= hi,
         Ordered(a, v, lo, hi), NEW m \in Message, Joins(m, v, hi, hi2)
  PROVE  Ordered(Append(a, m), v, lo, hi2)
<1> DEFINE b == Append(a, m)
           l == Len(a)
<1>1. /\ l \in Nat /\ DOMAIN a = 1..l /\ DOMAIN b = 1..l + 1 /\ b[l + 1] = m
      /\ \A i \in 1..l : b[i] = a[i] /\ a[i] \in Message
  OBVIOUS
<1>2. /\ \A w : IsSample(m, w) => m.n \in Nat /\ ~IsDiscrete(m)
      /\ \A i \in 1..l : \A w : IsSample(a[i], w) => a[i].n \in Nat /\ ~IsDiscrete(a[i])
  BY <1>1, Kind
<1> HIDE DEF b, l
<1>3. \A i \in DOMAIN b : IsSample(b[i], v) => lo < b[i].n /\ b[i].n <= hi2
  BY <1>1, <1>2 DEF Ordered, Joins
<1>4. \A i, j \in DOMAIN b : IsSample(b[i], v) /\ IsSample(b[j], v) /\ i < j => b[i].n < b[j].n
  BY <1>1, <1>2 DEF Ordered, Joins
<1>5. lo = hi2 \/ \E i \in DOMAIN b : IsSample(b[i], v) /\ b[i].n = hi2
  BY <1>1, <1>2 DEF Ordered, Joins
<1>6. ASSUME NEW p \in DOMAIN b, IsDiscrete(b[p]) PROVE Between(b, p, v, lo, hi2)
  <2>1. CASE p = l + 1
    <3>1. b[p] = m /\ ~IsSample(m, v) /\ hi2 = hi /\ m.at[v] = hi
      BY <1>1, <1>2, <1>6, <2>1 DEF Joins
    <3>2. \A i \in DOMAIN b : IsSample(b[i], v) => i < p /\ b[i].n <= hi
      BY <1>1, <1>2, <2>1, <3>1 DEF Ordered
    <3>3. lo = hi \/ \E i \in DOMAIN b : i < p /\ IsSample(b[i], v) /\ b[i].n = hi
      BY <1>1, <1>5, <3>1, <3>2
    <3> QED BY <3>1, <3>2, <3>3 DEF Between
  <2>2. CASE p # l + 1
    <3>1. p \in 1..l /\ b[p] = a[p] /\ Between(a, p, v, lo, hi)
      BY <1>1, <1>6, <2>2 DEF Ordered
    <3>2. a[p].at[v] \in Nat
      <4>1. a[p] \in Message /\ IsDiscrete(a[p])
        BY <1>1, <1>6, <3>1
      <4> QED BY <4>1, Kind DEF Moments
    <3>3. lo <= a[p].at[v] /\ a[p].at[v] <= hi /\ a[p].at[v] <= hi2
      BY <3>1, <3>2 DEF Between, Joins
    <3>4. ASSUME NEW i \in DOMAIN b, IsSample(b[i], v)
          PROVE  IF i < p THEN b[i].n <= a[p].at[v] ELSE a[p].at[v] < b[i].n
      <4>1. CASE i \in 1..l
        BY <1>1, <3>1, <3>4, <4>1 DEF Between
      <4>2. CASE i = l + 1
        BY <1>1, <1>2, <3>2, <3>3, <3>4, <4>2 DEF Joins
      <4> QED BY <1>1, <4>1, <4>2
    <3>5. a[p].at[v] = lo \/ \E i \in DOMAIN b : i < p /\ IsSample(b[i], v) /\ b[i].n = a[p].at[v]
      BY <1>1, <3>1 DEF Between
    <3> QED BY <3>1, <3>3, <3>4, <3>5 DEF Between
  <2> QED BY <2>1, <2>2
<1>7. Ordered(b, v, lo, hi2)
  BY <1>3, <1>4, <1>5, <1>6 DEF Ordered
<1> QED BY <1>7 DEF b

(* b has the messages of a that concern v in the same order, except samples  *)
(* that a newer one follows with no discrete message between; g says where   *)
(* each came from.                                                           *)
Concerns(m, v) == IsSample(m, v) \/ IsDiscrete(m)
Alike(m, o, v) ==
    /\ IsSample(m, v) <=> IsSample(o, v)
    /\ IsDiscrete(m) <=> IsDiscrete(o)
    /\ IsSample(m, v) => m.n = o.n
    /\ IsDiscrete(m) => m.at = o.at
Covered(i, b, v, g) == \E j \in DOMAIN b : Concerns(b[j], v) /\ g[j] = i
Follows(b, a, v, g) ==
    /\ \A j \in DOMAIN b : Concerns(b[j], v) => g[j] \in DOMAIN a /\ Alike(b[j], a[g[j]], v)
    /\ \A j, k \in DOMAIN b : Concerns(b[j], v) /\ Concerns(b[k], v) /\ j < k => g[j] < g[k]
    /\ \A i \in DOMAIN a : IsSample(a[i], v) =>
          \/ Covered(i, b, v, g)
          \/ \E k \in DOMAIN a : /\ i < k /\ IsSample(a[k], v) /\ Covered(k, b, v, g)
                                 /\ \A p \in DOMAIN a : i < p /\ p < k => ~IsDiscrete(a[p])

LEMMA OrderedFollows ==
  ASSUME NEW a \in Seq(Message), NEW b \in Seq(Message), NEW v \in Views, NEW lo \in Nat, NEW hi \in Nat,
         Ordered(a, v, lo, hi), NEW g, Follows(b, a, v, g)
  PROVE  Ordered(b, v, lo, hi)
<1>1. /\ \A i \in DOMAIN a : a[i] \in Message /\ i \in Nat
      /\ \A j \in DOMAIN b : b[j] \in Message /\ j \in Nat
  OBVIOUS
<1>2. /\ \A i \in DOMAIN a : IsSample(a[i], v) => a[i].n \in Nat /\ ~IsDiscrete(a[i])
      /\ \A i \in DOMAIN a : IsDiscrete(a[i]) => a[i].at[v] \in Nat
      /\ \A j \in DOMAIN b : IsSample(b[j], v) => b[j].n \in Nat /\ ~IsDiscrete(b[j])
  BY <1>1, Kind DEF Moments
<1>3. /\ \A j \in DOMAIN b : IsSample(b[j], v) =>
            g[j] \in DOMAIN a /\ IsSample(a[g[j]], v) /\ b[j].n = a[g[j]].n
      /\ \A j \in DOMAIN b : IsDiscrete(b[j]) =>
            g[j] \in DOMAIN a /\ IsDiscrete(a[g[j]]) /\ b[j].at = a[g[j]].at
      /\ \A j, k \in DOMAIN b : Concerns(b[j], v) /\ Concerns(b[k], v) /\ j < k => g[j] < g[k]
  BY DEF Follows, Alike, Concerns
<1>4. \A i \in DOMAIN a : IsSample(a[i], v) /\ Covered(i, b, v, g) =>
         \E j \in DOMAIN b : g[j] = i /\ IsSample(b[j], v) /\ b[j].n = a[i].n
  BY <1>2, <1>3 DEF Covered, Concerns
<1>5. \A j \in DOMAIN b : IsSample(b[j], v) => lo < b[j].n /\ b[j].n <= hi
  BY <1>3 DEF Ordered
<1>6. \A i, j \in DOMAIN b : IsSample(b[i], v) /\ IsSample(b[j], v) /\ i < j => b[i].n < b[j].n
  BY <1>3 DEF Ordered, Concerns
<1>7. lo = hi \/ \E i \in DOMAIN b : IsSample(b[i], v) /\ b[i].n = hi
  <2> SUFFICES ASSUME lo # hi PROVE \E i \in DOMAIN b : IsSample(b[i], v) /\ b[i].n = hi
    OBVIOUS
  <2>1. PICK i \in DOMAIN a : IsSample(a[i], v) /\ a[i].n = hi
    BY DEF Ordered
  <2>2. ASSUME NEW k \in DOMAIN a, i < k, IsSample(a[k], v) PROVE FALSE
    <3>1. a[i].n < a[k].n /\ a[k].n <= hi
      BY <2>1, <2>2 DEF Ordered
    <3> QED BY <1>2, <2>1, <2>2, <3>1
  <2>3. Covered(i, b, v, g)
    BY <2>1, <2>2 DEF Follows
  <2> QED BY <1>4, <2>1, <2>3
<1>8. ASSUME NEW p \in DOMAIN b, IsDiscrete(b[p]) PROVE Between(b, p, v, lo, hi)
  <2> DEFINE q == g[p]
             x == b[p].at[v]
  <2>1. q \in DOMAIN a /\ IsDiscrete(a[q]) /\ a[q].at[v] = x /\ x \in Nat
    BY <1>2, <1>3, <1>8
  <2>2. Between(a, q, v, lo, hi)
    BY <2>1 DEF Ordered
  <2>3. \A j \in DOMAIN b : Concerns(b[j], v) => (j < p => g[j] < q) /\ (p < j => q < g[j])
    BY <1>3, <1>8 DEF Concerns
  <2> HIDE DEF q, x
  <2>4. ASSUME NEW j \in DOMAIN b, IsSample(b[j], v) PROVE IF j < p THEN b[j].n <= x ELSE x < b[j].n
    <3>1. g[j] \in DOMAIN a /\ IsSample(a[g[j]], v) /\ b[j].n = a[g[j]].n /\ j # p
      BY <1>2, <1>3, <1>8, <2>4
    <3>2. IF g[j] < q THEN b[j].n <= x ELSE x < b[j].n
      BY <2>1, <2>2, <3>1 DEF Between
    <3>3. IF j < p THEN g[j] < q ELSE q < g[j]
      BY <1>1, <1>8, <2>3, <2>4, <3>1 DEF Concerns
    <3>4. g[j] \in Nat /\ q \in Nat
      BY <1>1, <2>1, <3>1
    <3> QED BY <3>2, <3>3, <3>4
  <2>5. x = lo \/ \E j \in DOMAIN b : j < p /\ IsSample(b[j], v) /\ b[j].n = x
    <3> SUFFICES ASSUME x # lo PROVE \E j \in DOMAIN b : j < p /\ IsSample(b[j], v) /\ b[j].n = x
      OBVIOUS
    <3>1. PICK i \in DOMAIN a : i < q /\ IsSample(a[i], v) /\ a[i].n = x
      BY <2>1, <2>2 DEF Between
    <3>2. ASSUME NEW k \in DOMAIN a, i < k, IsSample(a[k], v),
                 \A d \in DOMAIN a : i < d /\ d < k => ~IsDiscrete(a[d])
          PROVE  FALSE
      <4>1. k # q /\ ~(q < k) /\ k \in Nat /\ q \in Nat
        BY <1>1, <1>2, <2>1, <3>1, <3>2
      <4>2. a[k].n <= x
        BY <2>1, <2>2, <3>2, <4>1 DEF Between
      <4>3. a[i].n < a[k].n
        BY <3>1, <3>2 DEF Ordered
      <4> QED BY <1>2, <2>1, <3>1, <3>2, <4>2, <4>3
    <3>3. Covered(i, b, v, g)
      BY <3>1, <3>2 DEF Follows
    <3>4. PICK j \in DOMAIN b : g[j] = i /\ IsSample(b[j], v) /\ b[j].n = x
      BY <1>4, <3>1, <3>3
    <3>5. j < p
      <4>1. j # p
        BY <1>2, <1>8, <3>4
      <4>2. p < j => q < i
        BY <2>3, <3>4 DEF Concerns
      <4>3. i \in Nat /\ q \in Nat /\ j \in Nat /\ p \in Nat
        BY <1>1, <1>8, <2>1, <3>1
      <4> QED BY <3>1, <4>1, <4>2, <4>3
    <3> QED BY <3>4, <3>5
  <2>6. lo <= x /\ x <= hi
    BY <2>1, <2>2 DEF Between
  <2>7. \A j \in DOMAIN b : IsSample(b[j], v) => IF j < p THEN b[j].n <= x ELSE x < b[j].n
    BY <2>4
  <2> QED BY <2>5, <2>6, <2>7 DEF Between, x
<1> QED BY <1>5, <1>6, <1>7, <1>8 DEF Ordered

LEMMA OrderedTail ==
  ASSUME NEW a \in Seq(Message), a # <<>>, NEW v \in Views, NEW lo \in Nat, NEW hi \in Nat,
         Ordered(a, v, lo, hi)
  PROVE  Ordered(Tail(a), v, IF IsSample(Head(a), v) THEN Head(a).n ELSE lo, hi)
<1> DEFINE b == Tail(a)
           l == Len(a)
           new == IF IsSample(Head(a), v) THEN Head(a).n ELSE lo
<1>0. Len(a) \in Nat \ {0}
  BY EmptySeq
<1>1. /\ l \in Nat \ {0} /\ DOMAIN a = 1..l /\ DOMAIN b = 1..l - 1 /\ Head(a) = a[1]
      /\ \A i \in 1..l - 1 : b[i] = a[i + 1]
      /\ \A i \in 1..l : a[i] \in Message
  BY <1>0
<1>2. /\ \A i \in 1..l : IsSample(a[i], v) => a[i].n \in Nat /\ ~IsDiscrete(a[i])
      /\ \A i \in 1..l : IsDiscrete(a[i]) => a[i].at[v] \in Nat
  BY <1>1, Kind DEF Moments
<1> HIDE DEF b, l
<1>3. \A i \in DOMAIN b : i + 1 \in DOMAIN a /\ b[i] = a[i + 1]
  BY <1>1
<1>4. \A i \in DOMAIN a : i = 1 \/ (i - 1 \in DOMAIN b /\ b[i - 1] = a[i])
  BY <1>1
<1>5. \A i \in DOMAIN b : IsSample(b[i], v) => new < b[i].n /\ b[i].n <= hi
  BY <1>1, <1>3 DEF Ordered
<1>6. \A i, j \in DOMAIN b : IsSample(b[i], v) /\ IsSample(b[j], v) /\ i < j => b[i].n < b[j].n
  <2> SUFFICES ASSUME NEW i \in DOMAIN b, NEW j \in DOMAIN b,
                      IsSample(b[i], v), IsSample(b[j], v), i < j
               PROVE  b[i].n < b[j].n
    OBVIOUS
  <2>1. i + 1 \in DOMAIN a /\ j + 1 \in DOMAIN a /\ i + 1 < j + 1
    BY <1>1, <1>3
  <2>2. IsSample(a[i + 1], v) /\ IsSample(a[j + 1], v)
    BY <1>3
  <2>3. a[i + 1].n < a[j + 1].n
    BY <2>1, <2>2 DEF Ordered
  <2> QED BY <1>3, <2>3
<1>7. new = hi \/ \E i \in DOMAIN b : IsSample(b[i], v) /\ b[i].n = hi
  <2>1. CASE \E i \in DOMAIN a : IsSample(a[i], v) /\ a[i].n = hi
    <3>1. PICK i \in DOMAIN a : IsSample(a[i], v) /\ a[i].n = hi
      BY <2>1
    <3>2. i = 1 => new = hi
      BY <1>1, <3>1
    <3> QED BY <1>4, <3>1, <3>2
  <2>2. CASE lo = hi
    <3>1. 1 \in DOMAIN a
      BY <1>1
    <3>2. IsSample(a[1], v) => lo < a[1].n /\ a[1].n <= hi
      BY <3>1 DEF Ordered
    <3>3. ~IsSample(a[1], v)
      BY <1>1, <1>2, <2>2, <3>1, <3>2
    <3> QED BY <1>1, <2>2, <3>3
  <2> QED BY <2>1, <2>2 DEF Ordered
<1>8. ASSUME NEW p \in DOMAIN b, IsDiscrete(b[p]) PROVE Between(b, p, v, new, hi)
  <2> DEFINE x == b[p].at[v]
  <2>1. p \in 1..l - 1 /\ p + 1 \in DOMAIN a /\ b[p] = a[p + 1] /\ Between(a, p + 1, v, lo, hi) /\ x \in Nat
    BY <1>1, <1>2, <1>3, <1>8 DEF Ordered
  <2>2. lo <= x /\ x <= hi /\ x = a[p + 1].at[v]
    BY <2>1 DEF Between
  <2> HIDE DEF x
  <2>3. \A i \in DOMAIN a : IsSample(a[i], v) => IF i < p + 1 THEN a[i].n <= x ELSE x < a[i].n
    BY <2>1, <2>2 DEF Between
  <2>4. x = lo \/ \E i \in DOMAIN a : i < p + 1 /\ IsSample(a[i], v) /\ a[i].n = x
    BY <2>1, <2>2 DEF Between
  <2>5. \A i \in DOMAIN b : IsSample(b[i], v) => IF i < p THEN b[i].n <= x ELSE x < b[i].n
    BY <1>1, <1>3, <2>1, <2>3
  <2>6. new <= x
    BY <1>1, <2>1, <2>2, <2>3
  <2>7. x = new \/ \E i \in DOMAIN b : i < p /\ IsSample(b[i], v) /\ b[i].n = x
    <3>1. CASE x = lo
      <4>1. ~IsSample(a[1], v)
        <5>1. 1 \in DOMAIN a /\ 1 < p + 1
          BY <1>1, <2>1
        <5>2. IsSample(a[1], v) => lo < a[1].n /\ a[1].n <= x
          BY <2>3, <5>1 DEF Ordered
        <5> QED BY <1>1, <1>2, <3>1, <5>1, <5>2
      <4> QED BY <1>1, <3>1, <4>1
    <3>2. CASE x # lo
      <4>1. PICK i \in DOMAIN a : i < p + 1 /\ IsSample(a[i], v) /\ a[i].n = x
        BY <2>4, <3>2
      <4>2. CASE i = 1
        BY <1>1, <4>1, <4>2
      <4>3. CASE i # 1
        <5>1. i - 1 \in DOMAIN b /\ b[i - 1] = a[i] /\ i - 1 < p
          BY <1>1, <1>4, <2>1, <4>1, <4>3
        <5> QED BY <4>1, <5>1
      <4> QED BY <4>2, <4>3
    <3> QED BY <3>1, <3>2
  <2> QED BY <2>2, <2>5, <2>6, <2>7 DEF Between, x
<1>9. Ordered(b, v, new, hi)
  <2> HIDE DEF new
  <2> QED BY <1>5, <1>6, <1>7, <1>8 DEF Ordered
<1> QED BY <1>9 DEF b

(* c is q behind p. *)
Behind(c, p, q) ==
    /\ c \in Seq(Message) /\ Len(p) \in Nat /\ Len(q) \in Nat
    /\ DOMAIN c = 1..Len(p) + Len(q)
    /\ \A i \in 1..Len(p) : c[i] = p[i]
    /\ \A i \in Len(p) + 1..Len(p) + Len(q) : c[i] = q[i - Len(p)]
LEMMA Joined ==
  ASSUME NEW p \in Seq(Message), NEW q \in Seq(Message)
  PROVE  Behind(p \o q, p, q)
BY DEF Behind

(* A message that is neither a sample of v nor discrete joins in between. *)
LEMMA OrderedInsert ==
  ASSUME NEW p \in Seq(Message), NEW q \in Seq(Message), NEW x \in Message, NEW v \in Views,
         ~Concerns(x, v), NEW lo \in Nat, NEW hi \in Nat, Ordered(p \o q, v, lo, hi)
  PROVE  Ordered(Append(p, x) \o q, v, lo, hi)
<1> DEFINE a == p \o q
           b == Append(p, x) \o q
           k == Len(p)
           n == Len(q)
           g == [j \in 1..k + 1 + n |-> IF j <= k THEN j ELSE j - 1]
<1>1. /\ a \in Seq(Message) /\ k \in Nat /\ n \in Nat /\ DOMAIN a = 1..k + n
      /\ \A i \in 1..k : a[i] = p[i]
      /\ \A i \in k + 1..k + n : a[i] = q[i - k]
  BY Joined DEF Behind
<1>2. /\ b \in Seq(Message) /\ DOMAIN b = 1..k + 1 + n
      /\ \A i \in 1..k : b[i] = p[i]
      /\ b[k + 1] = x
      /\ \A i \in k + 2..k + 1 + n : b[i] = q[i - (k + 1)]
  <2> DEFINE r == Append(p, x)
  <2>1. r \in Seq(Message) /\ Len(r) = k + 1 /\ r[k + 1] = x /\ \A i \in 1..k : r[i] = p[i]
    OBVIOUS
  <2> HIDE DEF r
  <2>2. Behind(r \o q, r, q)
    BY <2>1, Joined
  <2>3. /\ r \o q \in Seq(Message) /\ DOMAIN (r \o q) = 1..k + 1 + n
        /\ \A i \in 1..k + 1 : (r \o q)[i] = r[i]
        /\ \A i \in k + 2..k + 1 + n : (r \o q)[i] = q[i - (k + 1)]
    BY <1>1, <2>1, <2>2 DEF Behind
  <2> QED BY <1>1, <2>1, <2>3 DEF r
<1>3. Follows(b, a, v, g)
  <2> HIDE DEF a, b, k, n
  <2>1. \A j \in 1..k : g[j] = j /\ b[j] = a[j]
    BY <1>1, <1>2
  <2>2. \A j \in k + 2..k + 1 + n : g[j] = j - 1 /\ b[j] = a[j - 1]
    BY <1>1, <1>2
  <2>3. \A j \in DOMAIN b : Concerns(b[j], v) => j # k + 1
    BY <1>2
  <2>4. \A j \in DOMAIN b : Concerns(b[j], v) => g[j] \in DOMAIN a /\ b[j] = a[g[j]]
    BY <1>1, <1>2, <2>1, <2>2, <2>3
  <2>5. ASSUME NEW j \in DOMAIN b, NEW l \in DOMAIN b, Concerns(b[j], v), Concerns(b[l], v), j < l
        PROVE  g[j] < g[l]
    <3>1. /\ k \in Nat /\ n \in Nat /\ j \in 1..k + 1 + n /\ l \in 1..k + 1 + n
          /\ j # k + 1 /\ l # k + 1 /\ j < l
      BY <1>1, <1>2, <2>3, <2>5
    <3> QED BY <3>1
  <2>6. ASSUME NEW i \in DOMAIN a, IsSample(a[i], v) PROVE Covered(i, b, v, g)
    <3>1. CASE i <= k
      <4>1. i \in 1..k /\ i \in DOMAIN b
        BY <1>1, <1>2, <2>6, <3>1
      <4>2. g[i] = i /\ b[i] = a[i]
        BY <2>1, <4>1
      <4> QED BY <2>6, <4>1, <4>2 DEF Covered, Concerns
    <3>2. CASE i > k
      <4>1. PICK l : l = i + 1 /\ i = l - 1
        BY <1>1, <1>2, <2>6
      <4>2. l \in k + 2..k + 1 + n /\ l \in DOMAIN b
        <5>1. k \in Nat /\ n \in Nat /\ i \in 1..k + n /\ DOMAIN b = 1..k + 1 + n
          BY <1>1, <1>2, <2>6
        <5> QED BY <3>2, <4>1, <5>1
      <4> HIDE DEF g
      <4>3. g[l] = i /\ b[l] = a[i]
        BY <2>2, <4>1, <4>2
      <4> QED BY <2>6, <4>2, <4>3 DEF Covered, Concerns
    <3> QED BY <1>1, <3>1, <3>2
  <2> QED BY <2>4, <2>5, <2>6 DEF Follows, Alike
<1>4. Ordered(a, v, lo, hi)
  OBVIOUS
<1> HIDE DEF a, b, g
<1>5. Ordered(b, v, lo, hi)
  BY <1>1, <1>2, <1>3, <1>4, OrderedFollows
<1> QED BY <1>5 DEF b

(* Messages are replaced by ones that say the same. *)
LEMMA OrderedAlike ==
  ASSUME NEW p \in Seq(Message), NEW r \in Seq(Message), NEW q \in Seq(Message), NEW v \in Views,
         Len(r) = Len(p), \A i \in 1..Len(p) : Alike(r[i], p[i], v),
         NEW lo \in Nat, NEW hi \in Nat, Ordered(p \o q, v, lo, hi)
  PROVE  Ordered(r \o q, v, lo, hi)
<1> DEFINE a == p \o q
           b == r \o q
           g == [j \in DOMAIN a |-> j]
<1>1. /\ a \in Seq(Message) /\ DOMAIN a = 1..Len(p) + Len(q) /\ Len(p) \in Nat /\ Len(q) \in Nat
      /\ \A i \in 1..Len(p) : a[i] = p[i]
      /\ \A i \in Len(p) + 1..Len(p) + Len(q) : a[i] = q[i - Len(p)]
  BY Joined DEF Behind
<1>2. /\ b \in Seq(Message) /\ DOMAIN b = DOMAIN a
      /\ \A i \in 1..Len(p) : b[i] = r[i]
      /\ \A i \in Len(p) + 1..Len(p) + Len(q) : b[i] = q[i - Len(p)]
  <2>1. Behind(b, r, q)
    BY Joined
  <2> HIDE DEF a, b
  <2> QED BY <1>1, <2>1 DEF Behind
<1>3. Ordered(a, v, lo, hi)
  OBVIOUS
<1> HIDE DEF a, b
<1>4. \A i \in DOMAIN a : Alike(b[i], a[i], v)
  <2>1. \A m : Alike(m, m, v)
    BY DEF Alike
  <2>2. ASSUME NEW i \in DOMAIN a PROVE Alike(b[i], a[i], v)
    <3>1. CASE i \in 1..Len(p)
      BY <1>1, <1>2, <3>1
    <3>2. CASE i \in Len(p) + 1..Len(p) + Len(q)
      BY <1>1, <1>2, <2>1, <3>2
    <3> QED BY <1>1, <3>1, <3>2
  <2> QED BY <2>2
<1>5. Follows(b, a, v, g)
  BY <1>2, <1>4 DEF Follows, Covered, Alike, Concerns
<1> HIDE DEF g
<1>6. Ordered(b, v, lo, hi)
  BY <1>1, <1>2, <1>3, <1>5, OrderedFollows
<1> QED BY <1>6 DEF b

(* A sample leaves for a newer one right behind it. *)
LEMMA OrderedReplace ==
  ASSUME NEW a \in Seq(Message), NEW old \in Message, NEW m \in Message, NEW w,
         IsSample(old, w), IsSample(m, w),
         NEW v \in Views, NEW lo \in Nat, NEW hi \in Nat,
         Ordered(Append(Append(a, old), m), v, lo, hi)
  PROVE  Ordered(Append(a, m), v, lo, hi)
<1> DEFINE c == Append(Append(a, old), m)
           b == Append(a, m)
           k == Len(a)
           g == [j \in 1..k + 1 |-> IF j <= k THEN j ELSE k + 2]
<1>1. /\ c \in Seq(Message) /\ k \in Nat /\ DOMAIN c = 1..k + 2 /\ c[k + 1] = old /\ c[k + 2] = m
      /\ \A i \in 1..k : c[i] = a[i]
  OBVIOUS
<1>2. /\ b \in Seq(Message) /\ DOMAIN b = 1..k + 1 /\ b[k + 1] = m
      /\ \A i \in 1..k : b[i] = a[i]
  OBVIOUS
<1>3. Ordered(c, v, lo, hi)
  OBVIOUS
<1> HIDE DEF b, c, k
<1>4. /\ \A j \in 1..k : g[j] = j /\ b[j] = c[j]
      /\ g[k + 1] = k + 2 /\ b[k + 1] = c[k + 2]
  BY <1>1, <1>2
<1> HIDE DEF g
<1>5. Follows(b, c, v, g)
  <2>1. \A j \in DOMAIN b : g[j] \in DOMAIN c /\ b[j] = c[g[j]]
    BY <1>1, <1>2, <1>4
  <2>2. \A j, l \in DOMAIN b : j < l => g[j] < g[l]
    BY <1>1, <1>2, <1>4
  <2>3. \A i \in 1..k : IsSample(c[i], v) => Covered(i, b, v, g)
    BY <1>1, <1>2, <1>4 DEF Covered, Concerns
  <2>4. IsSample(c[k + 2], v) => Covered(k + 2, b, v, g)
    BY <1>1, <1>2, <1>4 DEF Covered, Concerns
  <2>5. IsSample(c[k + 1], v) => IsSample(c[k + 2], v)
    BY <1>1, Kind
  <2>6. /\ k + 2 \in DOMAIN c /\ k + 1 < k + 2
        /\ \A p \in DOMAIN c : ~(k + 1 < p /\ p < k + 2)
    BY <1>1
  <2>7. ASSUME NEW i \in DOMAIN c, IsSample(c[i], v)
        PROVE  \/ Covered(i, b, v, g)
               \/ \E l \in DOMAIN c : /\ i < l /\ IsSample(c[l], v) /\ Covered(l, b, v, g)
                                      /\ \A p \in DOMAIN c : i < p /\ p < l => ~IsDiscrete(c[p])
    <3>1. CASE i = k + 1
      BY <2>4, <2>5, <2>6, <2>7, <3>1
    <3>2. CASE i # k + 1
      <4>1. i \in 1..k \/ i = k + 2
        BY <1>1, <3>2
      <4> QED BY <2>3, <2>4, <2>7, <4>1
    <3> QED BY <3>1, <3>2
  <2> QED BY <2>1, <2>2, <2>7 DEF Follows, Alike
<1>6. Ordered(b, v, lo, hi)
  BY <1>1, <1>2, <1>3, <1>5, OrderedFollows
<1> QED BY <1>6 DEF b

(* The first sample of q takes the place of an open slot of its view in r. *)
LEMMA OrderedMerge ==
  ASSUME NEW r \in Seq(Message), NEW q \in Seq(Message), q # <<>>, NEW x \in 1..Len(r), NEW w,
         IsSample(Head(q), w), IsSample(r[x], w),
         \A j \in 1..Len(r) : x < j => ~IsDiscrete(r[j]) /\ ~IsSample(r[j], w),
         NEW u \in Seq(Message), Len(u) = Len(r), u[x] = Head(q),
         \A j \in 1..Len(r) : j # x => u[j] = r[j],
         NEW v \in Views, NEW lo \in Nat, NEW hi \in Nat, Ordered(r \o q, v, lo, hi)
  PROVE  Ordered(u \o Tail(q), v, lo, hi)
<1> DEFINE a == r \o q
           b == u \o Tail(q)
           k == Len(r)
           n == Len(q)
           g == [j \in 1..k + n - 1 |-> IF j = x THEN k + 1 ELSE IF j <= k THEN j ELSE j + 1]
<1>1. n \in Nat \ {0} /\ k \in Nat /\ Tail(q) \in Seq(Message) /\ Len(Tail(q)) = n - 1 /\ Head(q) = q[1]
      /\ \A i \in 1..n - 1 : Tail(q)[i] = q[i + 1]
  <2>1. n \in Nat \ {0}
    BY EmptySeq
  <2> QED BY <2>1
<1>2. /\ a \in Seq(Message) /\ DOMAIN a = 1..k + n
      /\ \A i \in 1..k : a[i] = r[i]
      /\ \A i \in k + 1..k + n : a[i] = q[i - k]
  BY Joined DEF Behind
<1>3. /\ b \in Seq(Message) /\ DOMAIN b = 1..k + n - 1
      /\ \A i \in 1..k : b[i] = u[i]
      /\ \A i \in k + 1..k + n - 1 : b[i] = q[i - k + 1]
  <2>1. Behind(b, u, Tail(q))
    BY <1>1, Joined
  <2> DEFINE t == Tail(q)
  <2>2. Len(t) = n - 1 /\ \A i \in 1..n - 1 : t[i] = q[i + 1]
    BY <1>1
  <2>3. Behind(b, u, t)
    BY <2>1
  <2> HIDE DEF a, b, k, n, t
  <2>4. Len(u) = k
    BY DEF k
  <2>5. b \in Seq(Message) /\ DOMAIN b = 1..k + n - 1 /\ \A i \in 1..k : b[i] = u[i]
    BY <1>1, <2>2, <2>3, <2>4 DEF Behind
  <2>6. \A i \in k + 1..k + n - 1 : b[i] = t[i - k] /\ i - k \in 1..n - 1
    BY <1>1, <2>2, <2>3, <2>4 DEF Behind
  <2> QED BY <1>1, <2>2, <2>5, <2>6
<1>4. Ordered(a, v, lo, hi)
  OBVIOUS
<1>5. x \in 1..k /\ \A j \in 1..k : x < j => ~IsDiscrete(r[j]) /\ ~IsSample(r[j], w)
  OBVIOUS
<1>6. u[x] = q[1] /\ (\A j \in 1..k : j # x => u[j] = r[j]) /\ IsSample(q[1], w)
  BY <1>1
<1> HIDE DEF a, b, k, n
<1>7. /\ g[x] = k + 1 /\ b[x] = a[k + 1] /\ x \in DOMAIN b /\ k + 1 \in DOMAIN a
      /\ \A j \in 1..k : j # x => g[j] = j /\ b[j] = a[j]
      /\ \A j \in k + 1..k + n - 1 : g[j] = j + 1 /\ b[j] = a[j + 1]
  <2>1. x \in DOMAIN b /\ k + 1 \in DOMAIN a /\ g[x] = k + 1
    <3>1. k \in Nat /\ n \in Nat \ {0} /\ DOMAIN b = 1..k + n - 1 /\ DOMAIN a = 1..k + n /\ x \in 1..k
      BY <1>1, <1>2, <1>3, <1>5
    <3>2. x \in 1..k + n - 1 /\ k + 1 \in 1..k + n
      BY <3>1
    <3>3. g[x] = k + 1
      BY <3>2
    <3> QED BY <3>1, <3>2, <3>3
  <2>2. b[x] = a[k + 1]
    BY <1>1, <1>2, <1>3, <1>5, <1>6
  <2>3. \A j \in 1..k : j # x => g[j] = j /\ b[j] = a[j]
    BY <1>1, <1>2, <1>3, <1>5, <1>6
  <2>4. \A j \in k + 1..k + n - 1 : g[j] = j + 1 /\ b[j] = a[j + 1]
    BY <1>1, <1>2, <1>3, <1>5
  <2> QED BY <2>1, <2>2, <2>3, <2>4
<1> HIDE DEF g
<1>8. /\ a[x] = r[x] /\ \A j \in 1..k : x < j => ~IsDiscrete(a[j]) /\ ~IsSample(a[j], w)
      /\ IsSample(a[k + 1], w) /\ IsSample(a[x], w) /\ ~IsDiscrete(a[k + 1]) /\ ~IsDiscrete(a[x])
      /\ \A i \in DOMAIN a : IsSample(a[i], v) /\ IsSample(a[i], w) => v = w
  <2>1. a[x] = r[x] /\ a[k + 1] = q[1] /\ x \in DOMAIN a /\ \A i \in DOMAIN a : a[i] \in Message
    BY <1>1, <1>2, <1>5
  <2>2. \A j \in 1..k : x < j => ~IsDiscrete(a[j]) /\ ~IsSample(a[j], w)
    BY <1>2, <1>5
  <2> QED BY <1>6, <1>7, <2>1, <2>2, Kind
<1>9. Follows(b, a, v, g)
  <2>0. /\ DOMAIN b = 1..k + n - 1 /\ DOMAIN a = 1..k + n /\ k \in Nat /\ n \in Nat \ {0} /\ x \in 1..k
    BY <1>1, <1>2, <1>3, <1>5
  <2>1. ASSUME NEW j \in DOMAIN b PROVE g[j] \in DOMAIN a /\ b[j] = a[g[j]]
    <3>1. CASE j = x
      BY <1>7, <3>1
    <3>2. CASE j # x /\ j \in 1..k
      BY <1>7, <2>0, <3>2
    <3>3. CASE j \in k + 1..k + n - 1
      BY <1>7, <2>0, <3>3
    <3> QED BY <2>0, <3>1, <3>2, <3>3
  <2>2. ASSUME NEW j \in DOMAIN b, NEW l \in DOMAIN b, Concerns(b[j], v), Concerns(b[l], v), j < l
        PROVE  g[j] < g[l]
    <3>1. CASE j # x
      <4>1. IF j <= k THEN g[j] = j ELSE g[j] = j + 1
        BY <1>7, <2>0, <3>1
      <4>2. CASE l = x
        BY <1>7, <2>0, <2>2, <4>1, <4>2
      <4>3. CASE l # x
        <5>1. IF l <= k THEN g[l] = l ELSE g[l] = l + 1
          BY <1>7, <2>0, <4>3
        <5> QED BY <2>0, <2>2, <4>1, <5>1
      <4> QED BY <4>2, <4>3
    <3>2. CASE j = x
      <4>1. IsSample(b[j], v) /\ v = w
        BY <1>7, <1>8, <2>2, <3>2 DEF Concerns
      <4>2. l > k
        <5>1. l \in 1..k => b[l] = a[l] /\ x < l
          BY <1>7, <2>2, <3>2
        <5> QED BY <1>1, <1>3, <1>8, <2>2, <4>1, <5>1 DEF Concerns
      <4>3. l \in k + 1..k + n - 1
        BY <2>0, <2>2, <4>2
      <4>4. g[j] = k + 1 /\ g[l] = l + 1
        BY <1>7, <3>2, <4>3
      <4> QED BY <2>0, <4>3, <4>4
    <3> QED BY <3>1, <3>2
  <2>3. IsSample(a[k + 1], v) => Covered(k + 1, b, v, g)
    BY <1>7 DEF Covered, Concerns
  <2>4. ASSUME NEW i \in DOMAIN a, IsSample(a[i], v)
        PROVE  \/ Covered(i, b, v, g)
               \/ \E l \in DOMAIN a : /\ i < l /\ IsSample(a[l], v) /\ Covered(l, b, v, g)
                                      /\ \A p \in DOMAIN a : i < p /\ p < l => ~IsDiscrete(a[p])
    <3>1. CASE i = x
      <4>1. v = w /\ IsSample(a[k + 1], v)
        BY <1>8, <2>4, <3>1
      <4>2. i < k + 1 /\ \A p \in DOMAIN a : i < p /\ p < k + 1 => ~IsDiscrete(a[p])
        <5>1. \A p \in DOMAIN a : p < k + 1 => p \in 1..k
          BY <2>0
        <5> QED BY <1>8, <2>0, <3>1, <5>1
      <4> QED BY <1>7, <2>3, <4>1, <4>2
    <3>2. CASE i # x /\ i <= k
      <4>1. i \in DOMAIN b /\ g[i] = i /\ b[i] = a[i]
        BY <1>1, <1>2, <1>3, <1>7, <3>2
      <4> QED BY <2>4, <4>1 DEF Covered, Concerns
    <3>3. CASE i = k + 1
      BY <2>3, <2>4, <3>3
    <3>4. CASE i > k + 1
      <4> DEFINE l == i - 1
      <4>1. i = l + 1 /\ l \in k + 1..k + n - 1
        <5>1. i \in 1..k + n
          BY <2>0
        <5> QED BY SMTT(30), <2>0, <3>4, <5>1
      <4> HIDE DEF l
      <4>2. l \in k + 1..k + n - 1 /\ l \in DOMAIN b
        BY <2>0, <4>1
      <4>3. g[l] = i /\ b[l] = a[i]
        BY SMTT(30), <1>7, <4>1, <4>2
      <4>4. Concerns(b[l], v)
        BY <2>4, <4>3 DEF Concerns
      <4>5. Covered(i, b, v, g)
        BY <4>2, <4>3, <4>4 DEF Covered
      <4> QED BY <4>5
    <3>5. i \in 1..k + n
      BY <2>0
    <3>6. i <= k \/ i = k + 1 \/ i > k + 1
      <4>1. i \in Int /\ k \in Int
        BY <2>0, <3>5
      <4> QED BY <4>1
    <3> QED BY Zenon, <3>1, <3>2, <3>3, <3>4, <3>6
  <2> QED BY <2>1, <2>2, <2>4 DEF Follows, Alike
<1>10. Ordered(b, v, lo, hi)
  BY <1>2, <1>3, <1>4, <1>9, OrderedFollows
<1> QED BY <1>10 DEF b

---------------------------------------------------------------------------
(* The order along the way, action by action. *)
LEMMA OrderedBound ==
  ASSUME NEW a \in Seq(Message), NEW v, NEW lo \in Nat, NEW hi \in Nat, Ordered(a, v, lo, hi)
  PROVE  lo <= hi
<1>1. \A i \in DOMAIN a : IsSample(a[i], v) => a[i].n \in Nat
  BY Kind
<1> QED BY <1>1 DEF Ordered

LEMMA WayType ==
  ASSUME NInv
  PROVE  /\ ready \in Seq(Message) /\ mailbox \in Seq(Message) /\ ready \o mailbox \in Seq(Message)
         /\ \A v \in Views : shown[v] \in Nat /\ sent[v] \in Nat
         /\ shown \in Moments /\ sent \in Moments
<1>1. ready \in Seq(Message) /\ mailbox \in Seq(Message)
  BY DEF NInv, TypeOK, Honest
<1>2. ready \o mailbox \in Seq(Message)
  BY <1>1
<1> QED BY <1>1, <1>2 DEF NInv, TypeOK, Moments

AppendsBehind(p, q, m) == p \o Append(q, m) = Append(p \o q, m)
LEMMA AppendBehind ==
  ASSUME NEW S, NEW p \in Seq(S), NEW q \in Seq(S), NEW m \in S
  PROVE  AppendsBehind(p, q, m)
<1>1. p \o Append(q, m) \in Seq(S) /\ Append(p \o q, m) \in Seq(S)
  OBVIOUS
<1>2. Len(p \o Append(q, m)) = Len(Append(p \o q, m))
  OBVIOUS
<1>3. \A i \in 1..Len(p \o Append(q, m)) : (p \o Append(q, m))[i] = Append(p \o q, m)[i]
  OBVIOUS
<1> QED BY <1>1, <1>2, <1>3, SeqEqual DEF AppendsBehind

LEMMA CallOrder ==
  ASSUME NInv, OInv, NEW m \in Message, CallPython(m), shown' = shown, sent' \in Moments,
         \A v \in Views : Joins(m, v, sent[v], sent'[v])
  PROVE  OInv'
<1>1. /\ ready' = ready /\ mailbox' = Queued(m)
      /\ ready \in Seq(Message) /\ mailbox \in Seq(Message) /\ ready \o mailbox \in Seq(Message)
  BY WayType DEF CallPython
<1>2. SlotsLast(ready)'
  BY <1>1 DEF OInv, SlotsLast
<1>3. ASSUME NEW v \in Views PROVE Ordered(Append(ready \o mailbox, m), v, shown[v], sent'[v])
  <2> DEFINE a == ready \o mailbox
             lo == shown[v]
             hi == sent[v]
             hi2 == sent'[v]
  <2>1. a \in Seq(Message) /\ lo \in Nat /\ hi \in Nat /\ hi2 \in Nat /\ Ordered(a, v, lo, hi)
        /\ Joins(m, v, hi, hi2)
    BY WayType DEF OInv, Moments
  <2> HIDE DEF a, lo, hi, hi2
  <2>2. lo <= hi
    BY <2>1, OrderedBound
  <2>3. Ordered(Append(a, m), v, lo, hi2)
    BY <2>1, <2>2, OrderedAppend
  <2> QED BY <2>3 DEF a, lo, hi2
<1>4. ASSUME NEW v \in Views PROVE Ordered(ready \o Queued(m), v, shown[v], sent'[v])
  <2>1. CASE Queued(m) = Append(mailbox, m)
    <3>1. AppendsBehind(ready, mailbox, m)
      BY <1>1, AppendBehind
    <3> QED BY <1>3, <2>1, <3>1 DEF AppendsBehind
  <2>2. CASE /\ Queued(m) = Append(Front(mailbox), m) /\ mailbox # <<>>
             /\ Continuous(m) /\ Continuous(Last(mailbox)) /\ Last(mailbox).view = m.view
    <3> DEFINE f == Front(mailbox)
               old == Last(mailbox)
               lo == shown[v]
               hi2 == sent'[v]
               a == ready \o f
    <3>1. /\ f \in Seq(Message) /\ Len(f) = Len(mailbox) - 1
          /\ \A i \in 1..Len(mailbox) - 1 : f[i] = mailbox[i]
          /\ old = mailbox[Len(mailbox)] /\ Len(mailbox) \in Nat \ {0} /\ old \in Message
      BY <1>1, <2>2, FrontLast
    <3>2. IsSample(old, m.view) /\ IsSample(m, m.view) /\ lo \in Nat /\ hi2 \in Nat
      BY <2>2, WayType DEF Continuous, IsSample, Moments
    <3>3. Queued(m) = Append(f, m)
      BY <2>2
    <3> HIDE DEF f, old, lo, hi2
    <3>4. mailbox = Append(f, old)
      <4>1. \A i \in 1..Len(f) : mailbox[i] = f[i]
        BY <3>1
      <4>2. Len(mailbox) = Len(f) + 1 /\ mailbox[Len(f) + 1] = old
        BY <3>1
      <4> QED BY <1>1, <3>1, <4>1, <4>2, IsAppend
    <3>5. a \in Seq(Message) /\ AppendsBehind(ready, f, old) /\ AppendsBehind(ready, f, m)
      BY <1>1, <3>1, AppendBehind
    <3> HIDE DEF a
    <3>6. Ordered(Append(Append(a, old), m), v, lo, hi2)
      BY <1>3, <3>4, <3>5 DEF AppendsBehind, a, lo, hi2
    <3>7. Ordered(Append(a, m), v, lo, hi2)
      BY <3>1, <3>2, <3>5, <3>6, OrderedReplace
    <3> QED BY <3>3, <3>5, <3>7 DEF AppendsBehind, a, lo, hi2
  <2> QED BY <2>1, <2>2 DEF Queued
<1> QED BY <1>1, <1>2, <1>4 DEF OInv

LEMMA SlotsTail ==
  ASSUME NEW q \in Seq(Message), q # <<>>, SlotsLast(q)
  PROVE  SlotsLast(Tail(q))
<1> DEFINE b == Tail(q)
           l == Len(q)
<1>1. /\ l \in Nat \ {0} /\ DOMAIN q = 1..l /\ DOMAIN b = 1..l - 1
      /\ \A i \in 1..l - 1 : b[i] = q[i + 1]
  <2>1. l \in Nat \ {0}
    BY EmptySeq
  <2> QED BY <2>1
<1> HIDE DEF b, l
<1>2. ASSUME NEW i \in DOMAIN b, NEW j \in DOMAIN b, Open1(b[i]), i < j
      PROVE  ~IsDiscrete(b[j]) /\ ~IsSample(b[j], b[i].view)
  <2>1. i + 1 \in DOMAIN q /\ j + 1 \in DOMAIN q /\ i + 1 < j + 1 /\ b[i] = q[i + 1] /\ b[j] = q[j + 1]
    BY <1>1, <1>2
  <2> QED BY <1>2, <2>1 DEF SlotsLast
<1>3. SlotsLast(b)
  BY <1>2 DEF SlotsLast
<1> QED BY <1>3 DEF b

LEMMA SlotsAppend ==
  ASSUME NEW q \in Seq(Message), SlotsLast(q), NEW m \in Message, ~IsDiscrete(m),
         \A i \in 1..Len(q) : Open1(q[i]) => ~IsSample(m, q[i].view)
  PROVE  SlotsLast(Append(q, m))
<1> DEFINE b == Append(q, m)
           l == Len(q)
<1>1. /\ l \in Nat /\ DOMAIN q = 1..l /\ DOMAIN b = 1..l + 1 /\ b[l + 1] = m
      /\ \A i \in 1..l : b[i] = q[i]
  OBVIOUS
<1> HIDE DEF b
<1>2. ASSUME NEW i \in DOMAIN b, NEW j \in DOMAIN b, Open1(b[i]), i < j
      PROVE  ~IsDiscrete(b[j]) /\ ~IsSample(b[j], b[i].view)
  <2>1. i \in 1..l /\ b[i] = q[i]
    BY <1>1, <1>2
  <2>2. CASE j = l + 1
    BY <1>1, <1>2, <2>1, <2>2
  <2>3. CASE j # l + 1
    BY <1>1, <1>2, <2>1, <2>3 DEF SlotsLast
  <2> QED BY <2>2, <2>3
<1>3. SlotsLast(b)
  BY <1>2 DEF SlotsLast
<1> QED BY <1>3 DEF b

(* The next callback runs; one that concerns no view's order may join. *)
Aloof(m) == m \in Message /\ ~IsDiscrete(m) /\ \A v : ~IsSample(m, v)
Adds(more) == more = <<>> \/ \E m : Aloof(m) /\ more = <<m>>
LEMMA FinishOrder ==
  ASSUME NInv, OInv, ready # <<>>, NEW more, Adds(more), Finish(more), sent' = sent,
         \A v \in Views : shown'[v] = IF IsSample(Next1, v) THEN Next1.n ELSE shown[v]
  PROVE  OInv'
<1> PICK m : more = <<>> \/ (Aloof(m) /\ more = <<m>>)
  <2>1. CASE more = <<>>
    <3>1. more = <<>> \/ (Aloof(0) /\ more = <<0>>)
      BY <2>1
    <3> QED BY <3>1, Zenon
  <2>2. CASE \E m : Aloof(m) /\ more = <<m>>
    BY <2>2, Zenon
  <2> QED BY <2>1, <2>2 DEF Adds
<1>1. /\ ready \in Seq(Message) /\ mailbox \in Seq(Message) /\ ready \o mailbox \in Seq(Message)
      /\ mailbox' = mailbox /\ Next1 = Head(ready)
  BY WayType DEF Finish, Next1
<1>2. ready' = Tail(ready) \/ (Aloof(m) /\ ready' = Append(Tail(ready), m))
  <2>1. CASE more = <<>>
    BY <1>1, <2>1, FinishNothing
  <2>2. CASE Aloof(m) /\ more = <<m>>
    <3>1. Tail(ready) \in Seq(Message) /\ m \in Message
      BY <1>1, <2>2 DEF Aloof
    <3>2. \A q \in Seq(Message) : q \o <<m>> = Append(q, m)
      OBVIOUS
    <3> QED BY <2>2, <3>1, <3>2 DEF Finish
  <2> QED BY <2>1, <2>2
<1>3. /\ Tail(ready) \in Seq(Message) /\ Head(ready) \in Message
      /\ ready \o mailbox # <<>> /\ Head(ready \o mailbox) = Head(ready)
      /\ Tail(ready \o mailbox) = Tail(ready) \o mailbox
  <2>1. Len(ready) \in Nat \ {0}
    BY <1>1, EmptySeq
  <2> DEFINE a == ready \o mailbox
             b == Tail(ready)
  <2>2. a \in Seq(Message) /\ Len(a) = Len(ready) + Len(mailbox) /\ b \in Seq(Message)
        /\ Len(b) = Len(ready) - 1 /\ Len(mailbox) \in Nat
        /\ Head(ready) \in Message
    BY <1>1, <2>1
  <2>3. a # <<>> /\ Head(a) = Head(ready)
    BY <1>1, <2>1
  <2>4. Tail(a) = b \o mailbox
    <3>1. Tail(a) \in Seq(Message) /\ Len(Tail(a)) = Len(a) - 1
      BY <2>2, <2>3
    <3>2. b \o mailbox \in Seq(Message) /\ Len(b \o mailbox) = Len(a) - 1
      BY <1>1, <2>1, <2>2
    <3>3. \A i \in 1..Len(a) - 1 : Tail(a)[i] = (b \o mailbox)[i]
      BY <1>1, <2>1, <2>2
    <3> QED BY <3>1, <3>2, <3>3, SeqEqual
  <2> QED BY <2>2, <2>3, <2>4
<1>4. SlotsLast(ready')
  <2>1. SlotsLast(Tail(ready))
    BY <1>1, SlotsTail DEF OInv
  <2>2. Aloof(m) => SlotsLast(Append(Tail(ready), m))
    BY <1>3, <2>1, SlotsAppend DEF Aloof
  <2> QED BY <1>2, <2>1, <2>2
<1>5. ASSUME NEW v \in Views PROVE Ordered(ready' \o mailbox, v, shown'[v], sent[v])
  <2> DEFINE lo == shown[v]
             hi == sent[v]
             lo2 == shown'[v]
             a == ready \o mailbox
             b == Tail(ready)
  <2>1. lo \in Nat /\ hi \in Nat /\ a \in Seq(Message) /\ a # <<>> /\ Ordered(a, v, lo, hi)
    BY <1>3, WayType DEF OInv
  <2>2. lo2 = (IF IsSample(Head(a), v) THEN Head(a).n ELSE lo) /\ Tail(a) = b \o mailbox
    BY <1>1, <1>3
  <2>3. b \in Seq(Message) /\ Head(a) \in Message
    BY <1>3
  <2> HIDE DEF a, b, lo, hi, lo2
  <2>4. Ordered(b \o mailbox, v, lo2, hi)
    BY <2>1, <2>2, OrderedTail
  <2>5. lo2 \in Nat
    BY <2>1, <2>2, <2>3, Kind
  <2>6. Aloof(m) => Ordered(Append(b, m) \o mailbox, v, lo2, hi)
    BY <1>1, <2>1, <2>3, <2>4, <2>5, OrderedInsert DEF Concerns, Aloof
  <2> QED BY <1>2, <2>4, <2>6 DEF b, lo2, hi
<1> QED BY <1>1, <1>4, <1>5 DEF OInv

MovesOver(p, q) == Append(p, Head(q)) \o Tail(q) = p \o q
LEMMA MoveOver ==
  ASSUME NEW S, NEW p \in Seq(S), NEW q \in Seq(S), q # <<>>
  PROVE  MovesOver(p, q)
<1>1. Len(q) \in Nat \ {0}
  BY EmptySeq
<1> DEFINE b == Tail(q)
           r == Append(p, Head(q))
<1>2. /\ b \in Seq(S) /\ Len(b) = Len(q) - 1 /\ \A i \in 1..Len(q) - 1 : b[i] = q[i + 1]
      /\ r \in Seq(S) /\ Len(r) = Len(p) + 1 /\ r[Len(p) + 1] = q[1] /\ \A i \in 1..Len(p) : r[i] = p[i]
      /\ Len(p) \in Nat
  BY <1>1
<1> HIDE DEF b, r
<1>3. r \o b \in Seq(S) /\ p \o q \in Seq(S) /\ Len(r \o b) = Len(p) + Len(q) /\ Len(p \o q) = Len(p) + Len(q)
  <2>1. r \o b \in Seq(S) /\ Len(r \o b) = Len(r) + Len(b)
    <3>1. r \in Seq(S) /\ b \in Seq(S)
      BY <1>2
    <3> QED BY <3>1
  <2>2. p \o q \in Seq(S) /\ Len(p \o q) = Len(p) + Len(q)
    OBVIOUS
  <2> QED BY <1>1, <1>2, <2>1, <2>2
<1>4. ASSUME NEW i \in 1..Len(p) + Len(q) PROVE (r \o b)[i] = (p \o q)[i]
  <2>1. CASE i <= Len(p)
    BY <1>1, <1>2, <2>1
  <2>2. CASE i = Len(p) + 1
    BY <1>1, <1>2, <2>2
  <2>3. CASE i > Len(p) + 1
    <3>1. (r \o b)[i] = b[i - (Len(p) + 1)] /\ i - (Len(p) + 1) \in 1..Len(q) - 1
      BY <1>1, <1>2, <2>3
    <3>2. (p \o q)[i] = q[i - Len(p)]
      BY <1>1, <1>2, <2>3
    <3>3. i - (Len(p) + 1) + 1 = i - Len(p)
      BY <1>2
    <3> QED BY <1>2, <3>1, <3>2, <3>3
  <2> QED BY <1>2, <2>1, <2>2, <2>3
<1>5. r \o b = p \o q
  BY <1>3, <1>4, SeqEqual
<1> QED BY <1>5 DEF MovesOver, b, r

(* A message goes from the mailbox to the loop. *)
LEMMA DrainOrder ==
  ASSUME NInv, OInv, Drain, mailbox # <<>>
  PROVE  OInv'
<1>1. PICK m : m = Head(mailbox)
  OBVIOUS
<1>2. /\ ready \in Seq(Message) /\ mailbox \in Seq(Message) /\ m \in Message
      /\ Tail(mailbox) \in Seq(Message) /\ mailbox' = Tail(mailbox) /\ ready' = Posted(m)
      /\ sent' = sent /\ shown' = shown
  BY <1>1, WayType DEF Drain, input
<1>3. \A i \in 1..Len(ready) : ready[i] \in Message
  BY <1>2
<1>4. ASSUME SlotsLast(ready'),
             \A v \in Views : Ordered(ready' \o Tail(mailbox), v, shown[v], sent[v])
      PROVE  OInv'
  BY <1>2, <1>4 DEF OInv
<1>5. MovesOver(ready, mailbox)
  BY <1>2, MoveOver
<1>6. CASE Continuous(m) /\ m.open /\ OpenSlots(m.view) = {}
  <2>1. ready' = Append(ready, m)
    BY <1>2, <1>6 DEF Posted
  <2>2. ~IsDiscrete(m)
    BY <1>6 DEF Continuous, IsDiscrete
  <2>3. ASSUME NEW i \in 1..Len(ready), Open1(ready[i]) PROVE ~IsSample(m, ready[i].view)
    BY <1>2, <1>6, <2>3 DEF Open1, IsSample, OpenSlots, Continuous
  <2>4. SlotsLast(ready')
    BY <1>2, <2>1, <2>2, <2>3, SlotsAppend DEF OInv
  <2>5. ready' \o Tail(mailbox) = ready \o mailbox
    BY <1>1, <1>5, <2>1 DEF MovesOver
  <2> QED BY <1>4, <2>4, <2>5 DEF OInv
<1>7. CASE ~(Continuous(m) /\ m.open)
  <2> DEFINE c == Closed(ready)
             x(i) == IF Continuous(ready[i]) THEN [ready[i] EXCEPT !.open = FALSE] ELSE ready[i]
  <2>1. ready' = Append(c, m)
    BY <1>2, <1>7 DEF Posted
  <2>2. \A i \in 1..Len(ready) : x(i) \in Message
    BY <1>3, MessageClosed
  <2>3. ASSUME NEW i \in 1..Len(ready)
        PROVE  ~Open1(x(i)) /\ \A v : Alike(x(i), ready[i], v)
    <3>1. CASE Continuous(ready[i])
      <4>1. ready[i] \in [kind : {"sample"}, view : Views, n : Nat, open : BOOLEAN]
        BY <1>3, <3>1 DEF Message, Continuous
      <4> QED BY <3>1, <4>1 DEF Open1, Alike, IsSample, IsDiscrete
    <3>2. CASE ~Continuous(ready[i])
      BY <3>2 DEF Continuous, Open1, Alike
    <3> QED BY <3>1, <3>2
  <2>4. c = [i \in 1..Len(ready) |-> x(i)] /\ Len(ready) \in Nat
    BY <1>2 DEF Closed
  <2> HIDE DEF c, x
  <2>5. /\ c \in Seq(Message) /\ Len(c) = Len(ready)
        /\ \A i \in 1..Len(ready) : ~Open1(c[i]) /\ \A v : Alike(c[i], ready[i], v)
    BY <2>2, <2>3, <2>4
  <2>6. SlotsLast(ready')
    <3>1. Len(ready') = Len(ready) + 1 /\ \A i \in 1..Len(ready) : ready'[i] = c[i]
      BY <1>2, <2>1, <2>4, <2>5
    <3>2. DOMAIN ready' = 1..Len(ready) + 1
      BY <1>2, <2>1, <2>4, <2>5
    <3> QED BY <2>4, <2>5, <3>1, <3>2 DEF SlotsLast
  <2>7. MovesOver(c, mailbox)
    BY <1>2, <2>5, MoveOver
  <2>8. ready' \o Tail(mailbox) = c \o mailbox
    BY <1>1, <2>1, <2>7 DEF MovesOver
  <2>9. ASSUME NEW v \in Views PROVE Ordered(c \o mailbox, v, shown[v], sent[v])
    <3> DEFINE lo == shown[v]
               hi == sent[v]
    <3>1. lo \in Nat /\ hi \in Nat /\ Ordered(ready \o mailbox, v, lo, hi)
      BY WayType DEF OInv
    <3> HIDE DEF lo, hi
    <3>2. Ordered(c \o mailbox, v, lo, hi)
      BY <1>2, <2>5, <3>1, OrderedAlike
    <3> QED BY <3>2 DEF lo, hi
  <2> QED BY <1>4, <2>6, <2>8, <2>9
<1>8. CASE Continuous(m) /\ m.open /\ OpenSlots(m.view) # {}
  <2>1. PICK k \in OpenSlots(m.view) : TRUE
    BY <1>8
  <2>2. PICK w : w = m.view
    OBVIOUS
  <2>3. /\ k \in 1..Len(ready) /\ DOMAIN ready = 1..Len(ready) /\ Len(ready) \in Nat
        /\ Open1(ready[k]) /\ IsSample(ready[k], w) /\ IsSample(m, w) /\ Open1(m)
        /\ ready[k].view = w
    BY <1>2, <1>8, <2>1, <2>2 DEF OpenSlots, Continuous, Open1, IsSample
  <2>4. \A j \in 1..Len(ready) : k < j => ~IsDiscrete(ready[j]) /\ ~IsSample(ready[j], w)
    BY <2>3 DEF OInv, SlotsLast
  <2>5. ASSUME NEW i \in OpenSlots(m.view) PROVE i = k
    <3>1. i \in 1..Len(ready) /\ Open1(ready[i]) /\ IsSample(ready[i], w) /\ ready[i].view = w
      BY <1>2, <2>2 DEF OpenSlots, Continuous, Open1, IsSample
    <3>2. i < k => ~IsSample(ready[k], ready[i].view)
      BY <2>3, <3>1 DEF OInv, SlotsLast
    <3> QED BY <2>3, <2>4, <3>1, <3>2
  <2>6. ready' = [i \in 1..Len(ready) |-> IF i = k THEN m ELSE ready[i]]
    BY <1>2, <1>8, <2>1, <2>3, <2>5 DEF Posted
  <2>7. /\ ready' \in Seq(Message) /\ Len(ready') = Len(ready) /\ ready'[k] = m
        /\ DOMAIN ready' = 1..Len(ready)
        /\ \A j \in 1..Len(ready) : j # k => ready'[j] = ready[j]
    BY <1>2, <1>3, <2>3, <2>6
  <2>8. SlotsLast(ready')
    <3>1. ASSUME NEW i \in 1..Len(ready), NEW j \in 1..Len(ready), Open1(ready'[i]), i < j
          PROVE  ~IsDiscrete(ready'[j]) /\ ~IsSample(ready'[j], ready'[i].view)
      <4>1. CASE i = k
        <5>1. ready'[j] = ready[j] /\ ready'[i].view = w
          BY <2>2, <2>7, <3>1, <4>1
        <5> QED BY <2>4, <3>1, <4>1, <5>1
      <4>2. CASE i # k
        <5>1. ready'[i] = ready[i] /\ ~IsDiscrete(ready[j]) /\ ~IsSample(ready[j], ready[i].view)
          BY <2>3, <2>7, <3>1, <4>2 DEF OInv, SlotsLast
        <5>2. CASE j = k
          <6>1. ~IsDiscrete(m) /\ m.view = w
            BY <1>2, <2>2, <2>3, Kind
          <6>2. ready[i].view # w
            BY <2>3, <5>1, <5>2
          <6>3. ~IsSample(m, ready[i].view)
            BY <6>1, <6>2 DEF IsSample
          <6> QED BY <2>7, <5>1, <5>2, <6>1, <6>3
        <5>3. CASE j # k
          BY <2>7, <5>1, <5>3
        <5> QED BY <5>2, <5>3
      <4> QED BY <4>1, <4>2
    <3> QED BY <2>7, <3>1 DEF SlotsLast
  <2>9. ASSUME NEW v \in Views PROVE Ordered(ready' \o Tail(mailbox), v, shown[v], sent[v])
    <3> DEFINE lo == shown[v]
               hi == sent[v]
    <3>1. lo \in Nat /\ hi \in Nat /\ Ordered(ready \o mailbox, v, lo, hi)
      BY WayType DEF OInv
    <3>2. IsSample(Head(mailbox), w) /\ ready'[k] = Head(mailbox)
      BY <1>1, <2>3, <2>7
    <3> HIDE DEF lo, hi
    <3>3. Ordered(ready' \o Tail(mailbox), v, lo, hi)
      BY <1>2, <2>3, <2>4, <2>7, <3>1, <3>2, OrderedMerge
    <3> QED BY <3>3 DEF lo, hi
  <2> QED BY <1>4, <2>8, <2>9
<1> QED BY <1>6, <1>7, <1>8
LEMMA OInit == Init => OInv
<1> SUFFICES ASSUME Init PROVE OInv
  OBVIOUS
<1>1. ready = <<>> /\ mailbox = <<>> /\ \A v \in Views : shown[v] = sent[v]
  BY DEF Init, MailboxInit
<1>2. ready \o mailbox = <<>> /\ DOMAIN <<>> = {}
  BY <1>1
<1> QED BY <1>1, <1>2 DEF OInv, SlotsLast, Ordered

(* Nothing happens on the way. *)
LEMMA SameOrder ==
  ASSUME OInv, UNCHANGED <<ready, mailbox, sent, shown>>
  PROVE  OInv'
BY DEF OInv

LEMMA SampleOrder ==
  ASSUME NInv, OInv, NEW v \in Views, Sample(v)
  PROVE  OInv'
<1> DEFINE m == [kind |-> "sample", view |-> v, n |-> sent'[v], open |-> v \notin Gestures]
<1>1. /\ sent \in Moments /\ sent' = [sent EXCEPT ![v] = sent[v] + 1] /\ shown' = shown
      /\ CallPython(m)
  BY WayType DEF Sample
<1>2. sent' \in Moments /\ sent'[v] = sent[v] + 1 /\ sent'[v] \in Nat
  BY <1>1 DEF Moments
<1>3. m \in Message /\ m.kind = "sample" /\ m.view = v /\ m.n = sent'[v]
  BY <1>2 DEF Message
<1> HIDE DEF m
<1>4. ASSUME NEW w \in Views PROVE Joins(m, w, sent[w], sent'[w])
  <2>1. CASE w = v
    BY <1>2, <1>3, <2>1 DEF Joins, IsSample
  <2>2. CASE w # v
    <3>1. sent'[w] = sent[w]
      BY <1>1, <2>2 DEF Moments
    <3> QED BY <1>3, <2>2, <3>1 DEF Joins, IsSample, IsDiscrete
  <2> QED BY <2>1, <2>2
<1> QED BY <1>1, <1>2, <1>3, <1>4, CallOrder

(* A discrete message joins behind the samples sent before it. *)
LEMMA DiscreteOrder ==
  ASSUME NInv, OInv, NEW m \in Message, IsDiscrete(m), m.at = sent, CallPython(m),
         UNCHANGED <<sent, shown>>
  PROVE  OInv'
<1>1. sent' \in Moments /\ \A v : ~IsSample(m, v)
  BY WayType, Kind
<1>2. \A v \in Views : Joins(m, v, sent[v], sent'[v])
  BY <1>1 DEF Joins
<1> QED BY <1>1, <1>2, CallOrder

LEMMA AnswerMessage ==
  ASSUME NInv, NEW t \in Streams, NEW outcome \in Outcomes
  PROVE  /\ Answer(t, outcome) \in Message /\ IsDiscrete(Answer(t, outcome))
         /\ Answer(t, outcome).at = sent
BY WayType DEF Answer, Message, IsDiscrete

LEMMA SettleOrder ==
  ASSUME NInv, OInv, NEW t \in Streams, NEW outcome \in Outcomes, Settle(t, outcome)
  PROVE  OInv'
<1>1. UNCHANGED <<sent, shown>>
  BY DEF Settle, input
<1>2. CASE CallPython(Answer(t, outcome))
  BY <1>1, <1>2, AnswerMessage, DiscreteOrder
<1>3. CASE UNCHANGED channel
  BY <1>1, <1>3, SameOrder DEF channel
<1> QED BY <1>2, <1>3 DEF Settle

LEMMA DeliverOrder ==
  ASSUME NInv, OInv, Deliver
  PROVE  OInv'
<1> DEFINE t == Head(settling)
<1>1. t \in Streams /\ promise[t] \in Outcomes
  BY DEF Deliver, NInv, TypeOK, Settled
<1>2. UNCHANGED <<sent, shown>> /\ CallPython(Answer(t, promise[t]))
  BY DEF Deliver, input
<1> HIDE DEF t
<1> QED BY <1>1, <1>2, AnswerMessage, DiscreteOrder

LEMMA EmitOrder ==
  ASSUME NInv, OInv, NEW t \in Sources, Emit(t)
  PROVE  OInv'
<1> DEFINE m == Reading(t, emitted'[t])
<1>1. emitted'[t] \in Nat
  BY DEF NInv, TypeOK, Emit
<1>2. m \in Message /\ IsDiscrete(m) /\ m.at = sent
  BY <1>1, WayType DEF Reading, Message, IsDiscrete
<1>3. CallPython(m) /\ UNCHANGED <<sent, shown>>
  BY DEF Emit
<1> HIDE DEF m
<1> QED BY <1>2, <1>3, DiscreteOrder

LEMMA DeliverSampleOrder ==
  ASSUME NInv, OInv, DeliverSample
  PROVE  OInv'
<1>1. /\ ready # <<>> /\ Finish(<<>>) /\ sent' = sent /\ Next1 \in Honest /\ Next1.kind = "sample"
      /\ shown' = [shown EXCEPT ![Next1.view] = Next1.n] /\ shown \in Moments
  BY NextHonest, WayType DEF DeliverSample, NInv
<1>2. \A v \in Views : shown'[v] = IF IsSample(Next1, v) THEN Next1.n ELSE shown[v]
  BY <1>1 DEF IsSample, Moments
<1>3. Adds(<<>>)
  BY DEF Adds
<1> QED BY <1>1, <1>2, <1>3, FinishOrder

(* A callback that is no sample. *)
LEMMA CallbackOrder ==
  ASSUME NInv, OInv, NEW kind, kind # "sample", Runs1(kind), UNCHANGED input,
         NEW more, Adds(more), Finish(more)
  PROVE  OInv'
<1>1. \A v \in Views : shown'[v] = IF IsSample(Next1, v) THEN Next1.n ELSE shown[v]
  BY DEF Runs1, IsSample, input
<1> QED BY <1>1, FinishOrder DEF Runs1, input

LEMMA CallbacksOrder ==
  ASSUME NInv, OInv, DispatchAnswer \/ ResolveFuture \/ DispatchReading \/ Enqueue \/ Resume
  PROVE  OInv'
<1>1. CASE DispatchAnswer
  <2> DEFINE m == Complete(Next1.stream, Next1.outcome)
             more == IF Next1.stream \in pending THEN <<m>> ELSE <<>>
  <2>1. Runs1("settle") /\ Finish(more) /\ UNCHANGED input
    BY <1>1 DEF DispatchAnswer
  <2>2. Next1.stream \in Streams /\ Next1.outcome \in Outcomes
    BY <2>1, NextHonest, HonestKinds DEF NInv
  <2>3. Aloof(m)
    BY <2>2 DEF Aloof, Complete, Message, IsSample, IsDiscrete
  <2>4. Adds(<<m>>) /\ Adds(<<>>)
    BY <2>3 DEF Adds
  <2> HIDE DEF m
  <2>5. Adds(more)
    BY <2>4
  <2> HIDE DEF more
  <2> QED BY <2>1, <2>5, CallbackOrder
<1>2. CASE ResolveFuture
  <2> DEFINE m == Wake(Next1.stream)
             more == IF task[Next1.stream].future = "waiting" THEN <<m>> ELSE <<>>
  <2>1. Runs1("complete") /\ Finish(more) /\ UNCHANGED input
    BY <1>2 DEF ResolveFuture
  <2>2. Next1.stream \in Streams
    BY <2>1, NextHonest, HonestKinds DEF NInv
  <2>3. Aloof(m)
    BY <2>2 DEF Aloof, Wake, Message, IsSample, IsDiscrete
  <2>4. Adds(<<m>>) /\ Adds(<<>>)
    BY <2>3 DEF Adds
  <2> HIDE DEF m
  <2>5. Adds(more)
    BY <2>4
  <2> HIDE DEF more
  <2> QED BY <2>1, <2>5, CallbackOrder
<1>3. CASE DispatchReading
  <2> DEFINE m == Enqueues
             more == IF listening = {} THEN <<>> ELSE <<m>>
  <2>1. Runs1("reading") /\ Finish(more) /\ UNCHANGED input
    BY <1>3 DEF DispatchReading, Enqueues
  <2>2. Next1.stream \in Sources /\ Next1.n \in Nat /\ listening \subseteq Streams
    BY <2>1, NextHonest, HonestKinds DEF NInv, TypeOK
  <2>3. Aloof(m)
    BY <2>2 DEF Aloof, Enqueues, Message, IsSample, IsDiscrete
  <2>4. Adds(<<m>>) /\ Adds(<<>>)
    BY <2>3 DEF Adds
  <2> HIDE DEF m
  <2>5. Adds(more)
    BY <2>4
  <2> HIDE DEF more
  <2> QED BY <2>1, <2>5, CallbackOrder
<1>4. CASE Enqueue
  <2>1. Adds(<<>>)
    BY DEF Adds
  <2> QED BY <1>4, <2>1, CallbackOrder DEF Enqueue
<1>5. CASE Resume
  <2>1. Adds(<<>>)
    BY DEF Adds
  <2> QED BY <1>5, <2>1, CallbackOrder DEF Resume
<1> QED BY <1>1, <1>2, <1>3, <1>4, <1>5

LEMMA CancelOrder ==
  ASSUME NInv, OInv, NEW t \in Streams, Cancel(t)
  PROVE  OInv'
<1>1. /\ UNCHANGED <<mailbox, sent, shown>>
      /\ ready' = ready \/ ready' = Append(ready, Wake(t))
  BY DEF Cancel, input
<1>2. CASE ready' = ready
  BY <1>1, <1>2, SameOrder
<1>3. CASE ready' = Append(ready, Wake(t))
  <2> DEFINE m == Wake(t)
  <2>1. m \in Message /\ ~IsDiscrete(m) /\ \A v : ~IsSample(m, v)
    BY DEF Wake, Message, IsDiscrete, IsSample
  <2> HIDE DEF m
  <2>2. ready \in Seq(Message) /\ mailbox \in Seq(Message) /\ ready' = Append(ready, m)
    BY <1>3, WayType DEF m
  <2>3. SlotsLast(ready')
    BY <2>1, <2>2, SlotsAppend DEF OInv
  <2>4. ASSUME NEW v \in Views PROVE Ordered(ready' \o mailbox, v, shown[v], sent[v])
    <3> DEFINE lo == shown[v]
               hi == sent[v]
    <3>1. lo \in Nat /\ hi \in Nat /\ Ordered(ready \o mailbox, v, lo, hi)
      BY WayType DEF OInv
    <3> HIDE DEF lo, hi
    <3>2. Ordered(Append(ready, m) \o mailbox, v, lo, hi)
      BY <2>1, <2>2, <3>1, OrderedInsert DEF Concerns
    <3> QED BY <2>2, <3>2 DEF lo, hi
  <2> QED BY <1>1, <2>3, <2>4 DEF OInv
<1> QED BY <1>1, <1>2, <1>3

LEMMA OStep == NInv /\ OInv /\ [Next]_vars => OInv'
<1> SUFFICES ASSUME NInv, OInv, [Next]_vars PROVE OInv'
  OBVIOUS
<1>1. CASE Next
  <2>1. CASE (Register \/ \E v \in Views : Sample(v)) /\ UNCHANGED <<native, python>>
    BY <2>1, SampleOrder, SameOrder DEF Register, input
  <2>2. CASE Transport
    <3>1. CASE Drain /\ mailbox # <<>>
      BY <3>1, DrainOrder
    <3>2. CASE Drain /\ mailbox = <<>>
      BY <3>2, SameOrder DEF Drain, input
    <3>3. CASE \E thread \in {"ui", "python"} : ScheduleDrain(thread)
      BY <3>3, SameOrder DEF ScheduleDrain, input
    <3> QED BY <2>2, <3>1, <3>2, <3>3 DEF Transport
  <2>3. CASE LoopStep
    BY <2>3, DeliverSampleOrder, CallbacksOrder DEF LoopStep
  <2>4. CASE \E t \in Streams \cup Others : Emit(t)
    BY <2>4, EmitOrder DEF Sources
  <2>5. CASE \E t \in Streams : Open(t) \/ Leave(t)
    BY <2>5, SameOrder DEF Open, Leave, channel, input
  <2>6. CASE \E t \in Streams : Cancel(t) \/ \E outcome \in {"ok", "error"} : Settle(t, outcome)
    BY <2>6, CancelOrder, SettleOrder DEF Outcomes
  <2> QED BY <1>1, <2>1, <2>2, <2>3, <2>4, <2>5, <2>6, DeliverOrder DEF Next
<1>2. CASE UNCHANGED vars
  BY <1>2, SameOrder DEF vars, channel, input
<1> QED BY <1>1, <1>2

LEMMA OrderedSuffices == NInv /\ OInv => InputInOrder
<1> SUFFICES ASSUME NInv, OInv PROVE InputInOrder
  OBVIOUS
<1> DEFINE way == ready \o mailbox
<1>1. /\ way \in Seq(Message) /\ DOMAIN way = 1..Len(way) /\ shown \in Moments
      /\ \A v \in Views : Ordered(way, v, shown[v], sent[v])
  BY WayType DEF OInv
<1>2. ready # <<>> => way # <<>> /\ Next1 = way[1] /\ 1 \in DOMAIN way /\ Next1 \in Message
  <2>1. ASSUME ready # <<>> PROVE Len(ready) \in Nat \ {0} /\ Len(mailbox) \in Nat
    BY <2>1, WayType, EmptySeq
  <2> QED BY <2>1, WayType DEF Next1
<1> HIDE DEF way
<1>3. ASSUME NEW v \in Views PROVE Growing(way, v) /\ EndsWithLatest(way, v)
  <2>1. \A i : i \in Samples(way, v) <=> i \in DOMAIN way /\ IsSample(way[i], v)
    BY DEF Samples, IsSample, Continuous
  <2>2. Growing(way, v)
    BY <1>1, <2>1 DEF Growing, Ordered
  <2>3. shown[v] \in Nat /\ sent[v] \in Nat /\ \A i \in DOMAIN way : IsSample(way[i], v) => way[i].n \in Nat
    BY <1>1, WayType, Kind
  <2>4. EndsWithLatest(way, v)
    BY <1>1, <2>1, <2>3 DEF EndsWithLatest, Ordered
  <2> QED BY <2>2, <2>4
<1>4. ASSUME ready # <<>>, "at" \in DOMAIN Next1 PROVE shown = Next1.at
  <2>1. IsDiscrete(way[1]) /\ way[1].at \in Moments /\ way[1] = Next1
    BY <1>2, <1>4, Kind
  <2>2. ASSUME NEW v \in Views PROVE way[1].at[v] = shown[v]
    <3>1. Between(way, 1, v, shown[v], sent[v])
      BY <1>1, <1>2, <1>4, <2>1 DEF Ordered
    <3>2. \A i \in DOMAIN way : ~(i < 1)
      BY <1>1
    <3> QED BY <3>1, <3>2 DEF Between
  <2> QED BY <1>1, <2>1, <2>2 DEF Moments
<1> QED BY <1>3, <1>4 DEF InputInOrder, way

(* Coalescing never drops the latest sample of a view and never shows an     *)
(* older one after a newer, and a discrete message meets its handler when    *)
(* every view has shown exactly the samples sent before it: through the      *)
(* mailbox's merge, the slots and the cancellations in between.              *)
THEOREM InputStaysInOrder == Spec => []InputInOrder
<1>1. Spec => []OInv
  BY NInit, NStep, OInit, OStep, StagesInvariant, PTL DEF Spec
<1> QED BY <1>1, StagesInvariant, OrderedSuffices, PTL
=============================================================================
