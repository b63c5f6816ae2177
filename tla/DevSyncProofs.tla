---------------------------- MODULE DevSyncProofs ----------------------------
(***************************************************************************)
(* The proof that a connected client at rest has the project's files       *)
(* (InSync) and runs them (RunsTheSavedCode).                              *)
(*                                                                         *)
(* What is on its way to the client is one sequence of messages, whichever *)
(* thread holds them: the one being applied, those in the connection, and  *)
(* those posted to the server's loop (Line).  A client that has connected  *)
(* and not been answered gets the answer before them, so only the          *)
(* broadcasts posted since count.  For each file, the last of these        *)
(* messages that writes it decides what the client will have, and that     *)
(* content must fit what the watcher has seen (Fits); where no message     *)
(* writes it, the file on the device must fit.  Until the watcher thread   *)
(* has announced a change (Due), neither need hold.                        *)
(*                                                                         *)
(* A message carries the bytes of the moment it is made and not those the  *)
(* watcher saw, so a message may carry too old or too new a content.  Such *)
(* a content fits, since a file that was saved again differs from what the *)
(* watcher has seen, and the next poll reports it.                         *)
(***************************************************************************)
EXTENDS DevSync, SequencesExt, SequenceTheorems, WellFoundedInduction, TLAPS

(* Concatenation is associative; named, so that it is instantiated where it  *)
(* is meant to be.                                                           *)
Regroups(a, b, c) == (a \o b) \o c = a \o (b \o c)
LEMMA Regroup ==
  ASSUME NEW S, NEW a \in Seq(S), NEW b \in Seq(S), NEW c \in Seq(S)
  PROVE  Regroups(a, b, c)
BY ConcatAssociative DEF Regroups

(* Induction over the natural numbers, for a set of them. *)
LEMMA NatSetInduction ==
  ASSUME NEW T \in SUBSET Nat, 0 \in T, \A n \in T : n + 1 \in T
  PROVE  Nat \subseteq T
<1> DEFINE U == Nat \ T
<1> SUFFICES ASSUME U # {} PROVE FALSE
  OBVIOUS
<1>1. \E x \in U : \A y \in U : <<y, x>> \notin OpToRel(<, Nat)
  <2>1. U \subseteq Nat
    OBVIOUS
  <2> HIDE DEF U
  <2> QED BY <2>1, NatLessThanWellFounded, WFMin
<1>2. PICK x \in U : \A y \in U : ~(y < x)
  BY <1>1 DEF OpToRel
<1>3. x # 0 /\ x - 1 \in Nat /\ x - 1 \notin U
  BY <1>2
<1>4. x - 1 + 1 \in T
  BY <1>3
<1> QED BY <1>4

---------------------------------------------------------------------------

(* What a save writes; only the files of the device can be torn, and the     *)
(* entry module is never removed.                                            *)
Content == [n : Nat \ {0}, needs : SUBSET (Modules \X (Nat \ {0}))]
Parts == Modules \ {Entry}
Saved == {files \in [Modules -> Content \cup {NoFile}] : files[Entry] # NoFile}
Files == [Modules -> Content \cup {NoFile, TornFile}]
Messages == [version : Saved, files : Seq(Modules \X Content), removed : Seq(Parts)]

TypeOK ==
    /\ disk \in Saved
    /\ watcher \in [seen : Saved, at : {"idle", "changed", "published"},
                    changed : SUBSET Modules, removed : SUBSET Parts]
    /\ snapshot \in Saved
    /\ posted \in Seq(Messages)
    /\ sessions \in Seq([server : {"open", "synced", "gone"}, hello : Files \cup {NoVersion},
                         after : Nat, down : Seq(Messages)])
    /\ net \in [session : Nat, applying : Nat, message : Messages \cup {None}]
    /\ overlay \in Files
    /\ version \in Saved \cup {NoVersion}
    /\ used \in [saves : Nat \ {0}, crashes : Nat]

(* The connection the client has, if any. *)
Connected == net.session # None
Here == sessions[net.session]
NetOK ==
    /\ Connected => net.session \in 1..Len(sessions) /\ Here.server # "gone"
    /\ Connected /\ Here.server = "open" =>
           Idle /\ Here.down = <<>> /\ Here.hello = overlay /\ Here.after \in 0..Len(posted)
    /\ ~Idle => /\ Connected
                /\ net.message \in Messages
                /\ net.applying \in 1..(Len(net.message.files) + 1)

(* Contents are numbered by the saves. *)
Fresh == \A f \in Modules : watcher.seen[f].n <= used.saves /\ disk[f].n <= used.saves

WatcherOK ==
    \A f \in Modules :
        /\ f \in watcher.changed => watcher.seen[f] # NoFile
        /\ f \in watcher.removed => watcher.seen[f] = NoFile
Due(f) == watcher.at # "idle" /\ f \in watcher.changed \cup watcher.removed
SnapshotOK ==
    /\ watcher.at # "changed" => snapshot = watcher.seen
    /\ \A f \in Modules : ~Due(f) => snapshot[f] = watcher.seen[f]

(* The message m leaves the content c in the file f. *)
Leaves(m, f, c) == \/ \E i \in 1..Len(m.files) : m.files[i] = <<f, c>>
                   \/ c = NoFile /\ \E i \in 1..Len(m.removed) : m.removed[i] = f
Touches(m, f) == \E c : Leaves(m, f, c)

(* The content c of f is what the watcher has seen, or the disk has another  *)
(* that it will see.                                                         *)
Fits(f, c) == IF watcher.seen[f] = NoFile THEN c = NoFile
              ELSE disk[f] = watcher.seen[f] => c = watcher.seen[f]

(* What is on its way to the client. *)
Applying == IF Idle THEN <<>> ELSE <<net.message>>
Line == IF Here.server = "synced" THEN (Applying \o Here.down) \o posted
        ELSE SubSeq(posted, Here.after + 1, Len(posted))
LastIn(q, f, i) == /\ i \in 1..Len(q) /\ Touches(q[i], f)
                   /\ \A j \in (i + 1)..Len(q) : ~Touches(q[j], f)
Ends(q, f) == \A i \in 1..Len(q) : \A c : LastIn(q, f, i) /\ Leaves(q[i], f, c) => Fits(f, c)
Silent(q, f) == \A i \in 1..Len(q) : ~Touches(q[i], f)

Arriving == Connected => \A f \in Modules : Due(f) \/ Ends(Line, f)
Arrived == Connected /\ Here.server = "synced" =>
               \A f \in Modules : Due(f) \/ (Silent(Line, f) => Fits(f, overlay[f]))
Applied == ~Idle => \A i \in 1..(net.applying - 1) :
               Leaves(net.message, net.message.files[i][1], overlay[net.message.files[i][1]])
Versions ==
    Connected /\ watcher.at = "idle" =>
        /\ Line # <<>> => Line[Len(Line)].version = watcher.seen
        /\ Line = <<>> /\ Here.server = "synced" => version = watcher.seen

IInv == /\ TypeOK /\ NetOK /\ Fresh /\ WatcherOK /\ SnapshotOK
        /\ Arriving /\ Arrived /\ Applied /\ Versions

---------------------------------------------------------------------------
(* Those keeps the elements of a set, all of them and in its sequence.       *)

ThoseRow(f, seq, A, i) == IF i = 0 THEN <<>>
                          ELSE IF seq[i] \in A THEN Append(f[i - 1], seq[i])
                          ELSE f[i - 1]
ThoseTable(f, seq, A, n) == f = [i \in 0..n |-> ThoseRow(f, seq, A, i)]
LEMMA ThoseTableExists ==
  ASSUME NEW seq, NEW A, NEW n \in Nat
  PROVE  \E f : ThoseTable(f, seq, A, n)
<1> DEFINE T == {k \in Nat : \E f : ThoseTable(f, seq, A, k)}
<1>1. 0 \in T
  <2> DEFINE f == [i \in 0..0 |-> <<>>]
  <2>1. f = [i \in 0..0 |-> ThoseRow(f, seq, A, i)]
    BY DEF ThoseRow
  <2> HIDE DEF f
  <2> QED BY <2>1 DEF ThoseTable
<1>2. ASSUME NEW k \in T PROVE k + 1 \in T
  <2> PICK f : ThoseTable(f, seq, A, k)
    BY <1>2
  <2> DEFINE g == [i \in 0..k + 1 |-> ThoseRow(f, seq, A, i)]
  <2>1. \A i \in 0..k : f[i] = ThoseRow(f, seq, A, i)
    BY DEF ThoseTable
  <2>2. ASSUME NEW i \in 0..k + 1 PROVE g[i] = ThoseRow(g, seq, A, i)
    <3>1. i # 0 => i - 1 \in 0..k /\ g[i - 1] = f[i - 1]
      BY <2>1
    <3>2. g[i] = ThoseRow(f, seq, A, i)
      OBVIOUS
    <3> HIDE DEF g
    <3> QED BY <3>1, <3>2 DEF ThoseRow
  <2>3. g = [i \in 0..k + 1 |-> ThoseRow(g, seq, A, i)]
    <3>1. g = [i \in 0..k + 1 |-> g[i]]
      OBVIOUS
    <3> HIDE DEF g
    <3> QED BY <2>2, <3>1
  <2> HIDE DEF g
  <2>4. \E h : ThoseTable(h, seq, A, k + 1)
    BY <2>3 DEF ThoseTable
  <2> QED BY <2>4
<1> HIDE DEF T
<1>3. n \in T
  BY <1>1, <1>2, NatSetInduction DEF T
<1> QED BY <1>3 DEF T

(* x is one of the first n elements of the sequence. *)
Among(x, seq, n) == \E i \in 1..n : seq[i] = x
LEMMA AmongAppend ==
  ASSUME NEW S, NEW seq \in Seq(S), NEW y \in S, NEW x
  PROVE  Among(x, Append(seq, y), Len(Append(seq, y))) <=> Among(x, seq, Len(seq)) \/ x = y
<1>1. Len(Append(seq, y)) = Len(seq) + 1 /\ Append(seq, y)[Len(seq) + 1] = y
      /\ \A i \in 1..Len(seq) : Append(seq, y)[i] = seq[i]
  BY AppendProperties
<1> QED BY <1>1 DEF Among

LEMMA ThoseAre ==
  ASSUME NEW S, NEW seq \in Seq(S), NEW A
  PROVE  /\ Those(seq, A) \in Seq(S)
         /\ \A x : Among(x, Those(seq, A), Len(Those(seq, A))) <=> x \in A /\ Among(x, seq, Len(seq))
<1> DEFINE f == CHOOSE f : ThoseTable(f, seq, A, Len(seq))
           Right(k) == /\ f[k] \in Seq(S)
                       /\ \A x : Among(x, f[k], Len(f[k])) <=> x \in A /\ Among(x, seq, k)
           T == {k \in Nat : k <= Len(seq) => Right(k)}
<1>1. ThoseTable(f, seq, A, Len(seq)) /\ Those(seq, A) = f[Len(seq)]
  <2>1. ThoseTable(f, seq, A, Len(seq))
    BY ThoseTableExists
  <2>2. Those(seq, A) = f[Len(seq)]
    BY DEF Those, ThoseTable, ThoseRow
  <2> QED BY <2>1, <2>2
<1> HIDE DEF f
<1>2. \A i \in 0..Len(seq) : f[i] = ThoseRow(f, seq, A, i)
  BY <1>1 DEF ThoseTable
<1>3. 0 \in T
  <2>1. f[0] = <<>>
    BY <1>2 DEF ThoseRow
  <2>2. f[0] \in Seq(S) /\ Len(f[0]) = 0
    BY <2>1
  <2>3. \A x : ~Among(x, f[0], 0) /\ ~Among(x, seq, 0)
    BY DEF Among
  <2> QED BY <2>2, <2>3
<1>4. ASSUME NEW k \in T PROVE k + 1 \in T
  <2> SUFFICES ASSUME k + 1 <= Len(seq) PROVE Right(k + 1)
    OBVIOUS
  <2>1. Right(k) /\ k \in Nat /\ k + 1 \in 1..Len(seq) /\ seq[k + 1] \in S
    OBVIOUS
  <2>2. f[k + 1] = IF seq[k + 1] \in A THEN Append(f[k], seq[k + 1]) ELSE f[k]
    BY <1>2, <2>1 DEF ThoseRow
  <2>3. \A x : Among(x, seq, k + 1) <=> Among(x, seq, k) \/ x = seq[k + 1]
    BY <2>1 DEF Among
  <2>4. CASE seq[k + 1] \in A
    <3>1. f[k + 1] = Append(f[k], seq[k + 1]) /\ f[k + 1] \in Seq(S)
      BY <2>1, <2>2, <2>4
    <3>2. \A x : Among(x, f[k + 1], Len(f[k + 1])) <=> Among(x, f[k], Len(f[k])) \/ x = seq[k + 1]
      BY <2>1, <3>1, AmongAppend
    <3> QED BY <2>1, <2>3, <2>4, <3>1, <3>2
  <2>5. CASE seq[k + 1] \notin A
    BY <2>1, <2>2, <2>3, <2>5
  <2> QED BY <2>4, <2>5
<1>5. Len(seq) \in T
  <2> HIDE DEF T
  <2>1. T \in SUBSET Nat
    BY DEF T
  <2> QED BY <1>3, <1>4, <2>1, NatSetInduction
<1> QED BY <1>1, <1>5
---------------------------------------------------------------------------
(* What a message says of a file, and what the last message that touches a   *)
(* file says when messages are added or taken at an end of the line.         *)

Says(m, changed, removed) ==
    \A f \in Modules : \A c :
        Leaves(m, f, c) <=> \/ f \in changed /\ disk[f] # NoFile /\ c = disk[f]
                            \/ f \in removed /\ c = NoFile
LEMMA MessageSays ==
  ASSUME TypeOK, NEW snap \in Saved, NEW changed \in SUBSET Modules, NEW removed \in SUBSET Parts
  PROVE  LET m == Message(snap, changed, removed)
         IN  m \in Messages /\ m.version = snap /\ Says(m, changed, removed)
<1> DEFINE kept == {f \in changed : disk[f] # NoFile}
           names == Those(Order, kept)
           gone == Those(Order, removed)
           files == [i \in DOMAIN names |-> <<names[i], disk[names[i]]>>]
           m == [version |-> snap, files |-> files, removed |-> gone]
<1>1. Message(snap, changed, removed) = m
  BY DEF Message
<1>2. Order \in Seq(Modules) /\ Modules = {Order[i] : i \in 1..Len(Order)}
  BY OrderAssumption DEF Modules, ToSet
<1>3. \A f \in Modules : Among(f, Order, Len(Order))
  BY <1>2 DEF Among
<1>4. names \in Seq(Modules) /\ \A f \in Modules : Among(f, names, Len(names)) <=> f \in kept
  <2> HIDE DEF kept
  <2> QED BY <1>2, <1>3, ThoseAre
<1>5. gone \in Seq(Parts) /\ \A f \in Modules : Among(f, gone, Len(gone)) <=> f \in removed
  <2>1. gone \in Seq(Modules) /\ \A f : Among(f, gone, Len(gone)) <=> f \in removed /\ Among(f, Order, Len(Order))
    BY <1>2, ThoseAre
  <2> HIDE DEF gone
  <2>2. \A i \in 1..Len(gone) : gone[i] \in Parts
    BY <2>1 DEF Among
  <2>3. gone \in Seq(Parts)
    BY <2>1, <2>2
  <2> QED BY <1>3, <2>1, <2>3
<1> HIDE DEF names, gone
<1>6. Len(names) \in Nat /\ DOMAIN names = 1..Len(names)
      /\ \A i \in 1..Len(names) : names[i] \in Modules /\ disk[names[i]] \in Content
  <2>1. \A i \in 1..Len(names) : names[i] \in Modules /\ names[i] \in kept
    BY <1>4 DEF Among
  <2> QED BY <1>4, <2>1 DEF TypeOK, Saved
<1>7. files \in Seq(Modules \X Content) /\ Len(files) = Len(names)
      /\ \A i \in 1..Len(names) : files[i] = <<names[i], disk[names[i]]>>
  BY <1>6
<1> HIDE DEF files
<1>8. m \in Messages /\ m.version = snap
  BY <1>5, <1>7 DEF Messages
<1>9. ASSUME NEW f \in Modules, NEW c
      PROVE  Leaves(m, f, c) <=> \/ f \in changed /\ disk[f] # NoFile /\ c = disk[f]
                                 \/ f \in removed /\ c = NoFile
  <2>1. (\E i \in 1..Len(files) : files[i] = <<f, c>>) <=> Among(f, names, Len(names)) /\ c = disk[f]
    BY <1>6, <1>7 DEF Among
  <2>2. (\E i \in 1..Len(gone) : gone[i] = f) <=> f \in removed
    BY <1>5 DEF Among
  <2>3. Leaves(m, f, c) <=> \/ \E i \in 1..Len(files) : files[i] = <<f, c>>
                            \/ c = NoFile /\ \E i \in 1..Len(gone) : gone[i] = f
    BY DEF Leaves
  <2> QED BY <1>4, <2>1, <2>2, <2>3
<1> HIDE DEF m
<1> QED BY <1>1, <1>8, <1>9 DEF Says

LEMMA EndsAppend ==
  ASSUME NEW q \in Seq(Messages), NEW m \in Messages, NEW f, Ends(q, f),
         \A c : Leaves(m, f, c) => Fits(f, c)
  PROVE  Ends(Append(q, m), f)
<1> DEFINE r == Append(q, m)
           n == Len(q)
<1>1. n \in Nat /\ Len(r) = n + 1 /\ r[n + 1] = m /\ \A i \in 1..n : r[i] = q[i]
  BY AppendProperties
<1> HIDE DEF r
<1> SUFFICES ASSUME NEW i \in 1..n + 1, NEW c, LastIn(r, f, i), Leaves(r[i], f, c)
             PROVE  Fits(f, c)
  BY <1>1 DEF Ends, r
<1>2. CASE i = n + 1
  BY <1>1, <1>2
<1>3. CASE i \in 1..n
  <2>1. r[i] = q[i] /\ \A j \in (i + 1)..n : j \in (i + 1)..(n + 1) /\ r[j] = q[j]
    BY <1>1, <1>3
  <2>2. LastIn(q, f, i)
    BY <1>1, <1>3, <2>1 DEF LastIn
  <2> QED BY <1>3, <2>1, <2>2 DEF Ends
<1> QED BY <1>1, <1>2, <1>3

LEMMA SilentAppend ==
  ASSUME NEW q \in Seq(Messages), NEW m \in Messages, NEW f, Silent(Append(q, m), f)
  PROVE  Silent(q, f) /\ ~Touches(m, f)
<1>1. Len(q) \in Nat /\ Len(Append(q, m)) = Len(q) + 1 /\ Append(q, m)[Len(q) + 1] = m
      /\ \A i \in 1..Len(q) : Append(q, m)[i] = q[i]
  BY AppendProperties
<1> QED BY <1>1 DEF Silent

(* q is r after its first message m. *)
Follows(r, m, q) == /\ Len(r) = Len(q) + 1 /\ r[1] = m
                    /\ \A i \in 1..Len(q) : r[i + 1] = q[i]
LEMMA EndsAfter ==
  ASSUME NEW q \in Seq(Messages), NEW m, NEW r, NEW f, Follows(r, m, q), Ends(r, f)
  PROVE  Ends(q, f)
<1> SUFFICES ASSUME NEW i \in 1..Len(q), NEW c, LastIn(q, f, i), Leaves(q[i], f, c)
             PROVE  Fits(f, c)
  BY DEF Ends
<1>1. Len(q) \in Nat /\ i + 1 \in 1..Len(r) /\ r[i + 1] = q[i]
  BY DEF Follows
<1>2. ASSUME NEW j \in (i + 1 + 1)..Len(r) PROVE ~Touches(r[j], f)
  <2>1. j - 1 \in (i + 1)..Len(q) /\ j - 1 \in 1..Len(q) /\ j - 1 + 1 = j
    BY <1>1 DEF Follows
  <2> QED BY <2>1 DEF LastIn, Follows
<1>3. LastIn(r, f, i + 1)
  BY <1>1, <1>2 DEF LastIn
<1> QED BY <1>1, <1>3 DEF Ends

LEMMA SilentBefore ==
  ASSUME NEW q \in Seq(Messages), NEW m, NEW r, NEW f, Follows(r, m, q)
  PROVE  Silent(r, f) <=> Silent(q, f) /\ ~Touches(m, f)
<1>1. ASSUME Silent(r, f) PROVE Silent(q, f) /\ ~Touches(m, f)
  BY <1>1 DEF Silent, Follows
<1>2. ASSUME Silent(q, f), ~Touches(m, f), NEW i \in 1..Len(r) PROVE ~Touches(r[i], f)
  <2>1. i # 1 => i - 1 \in 1..Len(q) /\ r[i] = q[i - 1]
    BY DEF Follows
  <2> QED BY <1>2, <2>1 DEF Silent, Follows
<1> QED BY <1>1, <1>2 DEF Silent

LEMMA EndsBefore ==
  ASSUME NEW q \in Seq(Messages), NEW m, NEW r, NEW f, Follows(r, m, q), Ends(q, f),
         Silent(q, f) => \A c : Leaves(m, f, c) => Fits(f, c)
  PROVE  Ends(r, f)
<1> SUFFICES ASSUME NEW i \in 1..Len(r), NEW c, LastIn(r, f, i), Leaves(r[i], f, c)
             PROVE  Fits(f, c)
  BY DEF Ends
<1>1. Len(q) \in Nat /\ Len(r) = Len(q) + 1
  BY DEF Follows
<1>2. CASE i = 1
  <2>1. \A j \in 1..Len(q) : j + 1 \in (i + 1)..Len(r) /\ r[j + 1] = q[j]
    BY <1>1, <1>2 DEF Follows
  <2>2. Silent(q, f)
    BY <2>1 DEF Silent, LastIn
  <2> QED BY <1>2, <2>2 DEF Follows
<1>3. CASE i # 1
  <2>1. i - 1 \in 1..Len(q) /\ r[i] = q[i - 1]
    BY <1>1, <1>3 DEF Follows
  <2>2. ASSUME NEW j \in (i - 1 + 1)..Len(q) PROVE ~Touches(q[j], f)
    <3>1. j + 1 \in (i + 1)..Len(r) /\ j \in 1..Len(q) /\ r[j + 1] = q[j]
      BY <1>1, <2>1 DEF Follows
    <3> QED BY <3>1 DEF LastIn
  <2>3. LastIn(q, f, i - 1)
    BY <2>1, <2>2 DEF LastIn
  <2> QED BY <2>1, <2>3 DEF Ends
<1> QED BY <1>2, <1>3
---------------------------------------------------------------------------
(* Every step keeps the types. *)

Session == [server : {"open", "synced", "gone"}, hello : Files \cup {NoVersion},
            after : Nat, down : Seq(Messages)]
LEMMA EntryIn == Entry \in Modules
BY OrderAssumption DEF Entry, Modules, ToSet, Last
LEMMA ContentN ==
  /\ NoFile.n = 0 /\ TornFile.n = -1 /\ NoFile # TornFile
  /\ \A c \in Content : c.n \in Nat \ {0} /\ c # NoFile /\ c # TornFile
BY DEF NoFile, TornFile, Content
LEMMA SavedFiles == Saved \subseteq Files
BY DEF Saved, Files
LEMMA FirstType == First \in Saved /\ \A f \in Modules : First[f].n = 1
<1>1. [n : {1}, needs : SUBSET ((Modules \ {Entry}) \X {1})] \subseteq Content
  BY DEF Content
<1>2. /\ First \in [Modules -> Content]
      /\ \A f \in Modules : First[f].n = 1
  BY <1>1, DevSyncAssumption
<1> QED BY <1>2, EntryIn, ContentN DEF Saved

LEMMA InitType == Init => TypeOK /\ NetOK
<1> SUFFICES ASSUME Init PROVE TypeOK /\ NetOK
  OBVIOUS
<1>1. TypeOK
  BY FirstType, SavedFiles DEF Init, TypeOK, None
<1>2. NetOK
  BY DEF Init, NetOK, Connected, Idle, None
<1> QED BY <1>1, <1>2

LEMMA MessageType ==
  ASSUME TypeOK, NEW snap \in Saved, NEW changed \in SUBSET Modules, NEW removed \in SUBSET Parts
  PROVE  Message(snap, changed, removed) \in Messages
BY MessageSays

LEMMA DeveloperType ==
  ASSUME TypeOK, NEW f \in Modules, Save(f) \/ RemoveFile(f)
  PROVE  TypeOK' /\ used'.saves = used.saves + 1
<1>1. used \in [saves : Nat \ {0}, crashes : Nat] /\ used' = [used EXCEPT !.saves = @ + 1]
  BY DEF TypeOK, Save, RemoveFile, Spend
<1>2. used' \in [saves : Nat \ {0}, crashes : Nat] /\ used'.saves = used.saves + 1
  BY <1>1
<1>3. disk' \in Saved
  <2>1. CASE Save(f)
    <3>1. PICK needs \in Imports(f) : disk' = [disk EXCEPT ![f] = [n |-> used.saves + 1, needs |-> needs]]
      BY <2>1 DEF Save
    <3>2. needs \in SUBSET (Modules \X (Nat \ {0}))
      <4>1. disk[f].needs \in SUBSET (Modules \X (Nat \ {0}))
        <5>1. disk[f] \in Content \cup {NoFile}
          BY DEF TypeOK, Saved
        <5>2. CASE disk[f] \in Content
          BY <5>2 DEF Content
        <5>3. CASE disk[f] = NoFile
          BY <5>3 DEF NoFile
        <5> QED BY <5>1, <5>2, <5>3
      <4>2. {used.saves, used.saves + 2} \subseteq Nat \ {0}
        BY <1>1
      <4>3. needs \in {disk[f].needs, {}} \/ \E g \in Modules, k \in Nat \ {0} : needs = {<<g, k>>}
        BY <3>1, <4>2 DEF Imports
      <4> QED BY <4>1, <4>3
    <3>3. [n |-> used.saves + 1, needs |-> needs] \in Content
      BY <1>1, <3>2 DEF Content
    <3> QED BY <3>1, <3>3, EntryIn, ContentN DEF TypeOK, Saved
  <2>2. CASE RemoveFile(f)
    BY <2>2, EntryIn DEF RemoveFile, TypeOK, Saved
  <2> QED BY <2>1, <2>2
<1>4. UNCHANGED <<watcher, snapshot, posted, sessions, net, overlay, version>>
  BY DEF Save, RemoveFile
<1> QED BY <1>2, <1>3, <1>4 DEF TypeOK

LEMMA WatchType ==
  ASSUME TypeOK, Watch
  PROVE  TypeOK'
<1>1. CASE Poll
  <2>1. watcher' \in [seen : Saved, at : {"idle", "changed", "published"},
                      changed : SUBSET Modules, removed : SUBSET Parts]
    BY <1>1 DEF Poll, Differing, Vanished, TypeOK, Saved, Parts
  <2>2. UNCHANGED <<disk, snapshot, posted, sessions, net, overlay, version, used>>
    BY <1>1 DEF Poll
  <2> QED BY <2>1, <2>2 DEF TypeOK
<1>2. CASE Publish
  BY <1>2 DEF Publish, TypeOK
<1>3. CASE Announce
  <2>1. watcher' \in [seen : Saved, at : {"idle", "changed", "published"},
                      changed : SUBSET Modules, removed : SUBSET Parts]
    BY <1>3 DEF Announce, TypeOK
  <2>2. Message(watcher.seen, watcher.changed, watcher.removed) \in Messages
    BY MessageType DEF TypeOK
  <2>3. posted' \in Seq(Messages)
    <3> DEFINE m == Message(watcher.seen, watcher.changed, watcher.removed)
    <3>1. posted' = Append(posted, m) \/ posted' = posted
      BY <1>3 DEF Announce
    <3>2. m \in Messages /\ posted \in Seq(Messages)
      BY <2>2 DEF TypeOK
    <3> HIDE DEF m
    <3> QED BY <3>1, <3>2
  <2>4. UNCHANGED <<disk, snapshot, sessions, net, overlay, version, used>>
    BY <1>3 DEF Announce
  <2> QED BY <2>1, <2>3, <2>4 DEF TypeOK
<1> QED BY <1>1, <1>2, <1>3 DEF Watch

(* A session may be exchanged for another. *)
LEMMA SessionsType ==
  ASSUME sessions \in Seq(Session), NEW s \in DOMAIN sessions, NEW x \in Session
  PROVE  [sessions EXCEPT ![s] = x] \in Seq(Session)
OBVIOUS

LEMMA SessionGets ==
  ASSUME NEW y \in Session, NEW m \in Messages
  PROVE  /\ [y EXCEPT !.down = Append(@, m)] \in Session
         /\ [y EXCEPT !.server = "synced", !.hello = NoVersion, !.down = Append(@, m)] \in Session
<1>1. y.down \in Seq(Messages) /\ y.server \in {"open", "synced", "gone"} /\ y.after \in Nat
      /\ y.hello \in Files \cup {NoVersion}
  BY DEF Session
<1>2. Append(y.down, m) \in Seq(Messages)
  BY <1>1
<1> DEFINE q == Append(y.down, m)
<1> HIDE DEF q
<1>3. [y EXCEPT !.down = q] \in Session
  BY <1>2 DEF Session, q
<1>4. [y EXCEPT !.server = "synced", !.hello = NoVersion, !.down = q] \in Session
  BY <1>2 DEF Session, q
<1> QED BY <1>3, <1>4 DEF q

LEMMA ServeType ==
  ASSUME TypeOK, Serve
  PROVE  TypeOK'
<1>1. sessions \in Seq(Session) /\ DOMAIN sessions = 1..Len(sessions) /\ Len(sessions) \in Nat
  BY DEF TypeOK, Session
<1>2. ASSUME Broadcast PROVE sessions' \in Seq(Session) /\ posted' \in Seq(Messages)
  <2>1. posted \in Seq(Messages) /\ posted # <<>> /\ posted' = Tail(posted)
    BY <1>2 DEF Broadcast, TypeOK
  <2>2. Head(posted) \in Messages /\ posted' \in Seq(Messages)
    BY <2>1
  <2> DEFINE next(s) == IF sessions[s].server = "synced"
                        THEN [sessions[s] EXCEPT !.down = Append(@, Head(posted))]
                        ELSE [sessions[s] EXCEPT !.after = IF @ > 0 THEN @ - 1 ELSE @]
  <2>3. sessions' = [s \in 1..Len(sessions) |-> next(s)]
    BY <1>1, <1>2 DEF Broadcast
  <2>4. ASSUME NEW s \in 1..Len(sessions) PROVE next(s) \in Session
    <3>1. sessions[s] \in Session
      BY <1>1
    <3> DEFINE x == sessions[s]
    <3>2. x \in Session
      BY <3>1
    <3> HIDE DEF x
    <3>3. [x EXCEPT !.down = Append(@, Head(posted))] \in Session
      BY <2>2, <3>2, SessionGets
    <3>4. [x EXCEPT !.after = IF @ > 0 THEN @ - 1 ELSE @] \in Session
      BY <3>2 DEF Session
    <3> QED BY <3>3, <3>4 DEF x
  <2> HIDE DEF next
  <2> QED BY <1>1, <2>2, <2>3, <2>4
<1>3. ASSUME NEW s \in DOMAIN sessions, Hello(s) PROVE sessions' \in Seq(Session)
  <2> DEFINE m == Message(snapshot, Differing(snapshot, sessions[s].hello), Vanished(snapshot, sessions[s].hello))
             x == [sessions[s] EXCEPT !.server = "synced", !.hello = NoVersion, !.down = Append(@, m)]
  <2>1. m \in Messages
    BY MessageType DEF TypeOK, Differing, Vanished, Saved, Parts
  <2>2. sessions[s] \in Session
    BY <1>1, <1>3
  <2>3. x \in Session
    <3> DEFINE y == sessions[s]
    <3> HIDE DEF m
    <3>1. y \in Session
      BY <2>2
    <3> HIDE DEF y
    <3>2. [y EXCEPT !.server = "synced", !.hello = NoVersion, !.down = Append(@, m)] \in Session
      BY <2>1, <3>1, SessionGets
    <3> QED BY <3>2 DEF y
  <2>4. sessions' = [sessions EXCEPT ![s] = x]
    BY <1>3 DEF Hello
  <2> HIDE DEF x
  <2> QED BY <1>1, <1>3, <2>3, <2>4, SessionsType
<1>4. ASSUME NEW s \in DOMAIN sessions, DropClient(s) PROVE sessions' \in Seq(Session)
  <2>1. [server |-> "gone", hello |-> NoVersion, after |-> 0, down |-> <<>>] \in Session
    BY DEF Session
  <2> QED BY <1>1, <1>4, <2>1, SessionsType DEF DropClient
<1>5. sessions' \in Seq(Session) /\ posted' \in Seq(Messages)
  <2>1. \A s \in DOMAIN sessions : Hello(s) \/ DropClient(s) => posted' = posted
    BY DEF Hello, DropClient
  <2> QED BY <1>2, <1>3, <1>4, <2>1 DEF Serve, TypeOK
<1>6. UNCHANGED <<disk, watcher, snapshot, net, overlay, version, used>>
  BY DEF Serve, Broadcast, Hello, DropClient
<1> QED BY <1>5, <1>6 DEF TypeOK, Session
LEMMA NetType ==
  ASSUME TypeOK
  PROVE  /\ net.session \in Nat /\ net.applying \in Nat /\ net.message \in Messages \cup {None}
         /\ net = [session |-> net.session, applying |-> net.applying, message |-> net.message]
         /\ Idle <=> net.applying = 0
BY DEF TypeOK, Idle, None

LEMMA MessageFields ==
  ASSUME NEW m \in Messages
  PROVE  /\ m.version \in Saved
         /\ m.files \in Seq(Modules \X Content) /\ Len(m.files) \in Nat
         /\ m.removed \in Seq(Parts) /\ Len(m.removed) \in Nat
         /\ \A i \in 1..Len(m.files) : m.files[i][1] \in Modules /\ m.files[i][2] \in Content
                                       /\ m.files[i] = <<m.files[i][1], m.files[i][2]>>
<1>1. m.version \in Saved /\ m.files \in Seq(Modules \X Content) /\ m.removed \in Seq(Parts)
  BY DEF Messages
<1>2. \A i \in 1..Len(m.files) : m.files[i] \in Modules \X Content
  BY <1>1
<1> QED BY <1>1, <1>2

LEMMA ConnectType ==
  ASSUME TypeOK, Connect
  PROVE  /\ TypeOK'
         /\ net'.session = Len(sessions) + 1 /\ net'.applying = 0
         /\ sessions'[Len(sessions) + 1] = [server |-> "open", hello |-> overlay, after |-> Len(posted),
                                            down |-> <<>>]
         /\ Len(sessions') = Len(sessions) + 1
<1> DEFINE x == [server |-> "open", hello |-> overlay, after |-> Len(posted), down |-> <<>>]
<1>1. sessions \in Seq(Session) /\ x \in Session /\ sessions' = Append(sessions, x)
  BY DEF TypeOK, Session, Connect
<1>2. sessions' \in Seq(Session) /\ Len(sessions) \in Nat
      /\ sessions'[Len(sessions) + 1] = x /\ Len(sessions') = Len(sessions) + 1
  <2> HIDE DEF x
  <2> QED BY <1>1
<1>3. net' = [net EXCEPT !.session = Len(sessions) + 1] /\ Idle
  BY DEF Connect
<1>4. net' \in [session : Nat, applying : Nat, message : Messages \cup {None}]
      /\ net'.session = Len(sessions) + 1 /\ net'.applying = 0
  <2> DEFINE n == Len(sessions) + 1
  <2>1. n \in Nat /\ net' = [net EXCEPT !.session = n] /\ Idle
    BY <1>2, <1>3
  <2> HIDE DEF n
  <2>2. net' \in [session : Nat, applying : Nat, message : Messages \cup {None}]
        /\ net'.session = n /\ net'.applying = 0
    BY <2>1, NetType
  <2> QED BY <2>2 DEF n
<1>5. UNCHANGED <<disk, watcher, snapshot, posted, overlay, version, used>>
  BY DEF Connect
<1>6. TypeOK'
  BY <1>2, <1>4, <1>5 DEF TypeOK, Session
<1> QED BY <1>2, <1>4, <1>6

LEMMA LoseType ==
  ASSUME TypeOK, Lose
  PROVE  TypeOK' /\ net'.session = 0 /\ net'.applying = 0
<1>1. net' = [net EXCEPT !.session = None] /\ Idle
  BY DEF Lose
<1>2. net' \in [session : Nat, applying : Nat, message : Messages \cup {None}]
      /\ net'.session = 0 /\ net'.applying = 0
  BY <1>1, NetType DEF TypeOK, None
<1> QED BY <1>2 DEF TypeOK, Lose

LEMMA ReceiveType ==
  ASSUME TypeOK, NetOK, Receive
  PROVE  /\ TypeOK'
         /\ net'.session = net.session /\ net'.applying = 1 /\ net'.message = Head(Here.down)
         /\ Len(sessions') = Len(sessions)
         /\ Here.down \in Seq(Messages) /\ Here.down # <<>> /\ Idle
         /\ sessions'[net.session] = [Here EXCEPT !.down = Tail(@)]
<1>1. sessions \in Seq(Session) /\ net.session \in 1..Len(sessions) /\ Here \in Session
  <2>1. sessions \in Seq(Session)
    BY DEF TypeOK, Session
  <2>2. net.session \in 1..Len(sessions)
    BY DEF NetOK, Connected, Receive
  <2> QED BY <2>1, <2>2 DEF Here
<1>2. Here.down \in Seq(Messages) /\ Here.down # <<>> /\ Idle
  BY <1>1 DEF Receive, Here, Session
<1>3. Head(Here.down) \in Messages /\ Tail(Here.down) \in Seq(Messages)
  BY <1>2
<1> DEFINE x == [Here EXCEPT !.down = Tail(@)]
<1>4. x \in Session
  <2> DEFINE y == Here
             q == Tail(y.down)
  <2>1. y \in Session /\ q \in Seq(Messages)
    BY <1>1, <1>3
  <2> HIDE DEF y, q
  <2>2. [y EXCEPT !.down = q] \in Session
    BY <2>1 DEF Session
  <2> QED BY <2>2 DEF y, q
<1>5. sessions' = [sessions EXCEPT ![net.session] = x]
  BY DEF Receive, Here
<1>6. sessions' \in Seq(Session) /\ Len(sessions') = Len(sessions) /\ sessions'[net.session] = x
  <2> HIDE DEF x
  <2> QED BY <1>1, <1>4, <1>5
<1>7. net' = [net EXCEPT !.applying = 1, !.message = Head(Here.down)]
  BY DEF Receive, Here
<1>8. net' \in [session : Nat, applying : Nat, message : Messages \cup {None}]
      /\ net'.session = net.session /\ net'.applying = 1 /\ net'.message = Head(Here.down)
  <2> DEFINE h == Head(Here.down)
  <2>1. h \in Messages /\ net' = [net EXCEPT !.applying = 1, !.message = h]
    BY <1>3, <1>7
  <2> HIDE DEF h
  <2>2. net' \in [session : Nat, applying : Nat, message : Messages \cup {None}]
        /\ net'.session = net.session /\ net'.applying = 1 /\ net'.message = h
    BY <2>1, NetType
  <2> QED BY <2>2 DEF h
<1>9. TypeOK'
  BY <1>6, <1>8 DEF TypeOK, Session, Receive
<1> QED BY <1>2, <1>6, <1>8, <1>9

LEMMA WriteFileType ==
  ASSUME TypeOK, NetOK, WriteFile
  PROVE  /\ TypeOK'
         /\ net'.session = net.session /\ net'.applying = net.applying + 1
         /\ net'.message = net.message
         /\ net.applying \in 1..Len(net.message.files) /\ net.message \in Messages
<1>1. net.message \in Messages /\ net.applying \in 1..Len(net.message.files)
  BY NetType, MessageFields DEF NetOK, WriteFile
<1>2. net' = [net EXCEPT !.applying = @ + 1]
  BY DEF WriteFile
<1>3. net' \in [session : Nat, applying : Nat, message : Messages \cup {None}]
      /\ net'.session = net.session /\ net'.applying = net.applying + 1 /\ net'.message = net.message
  BY <1>2, NetType
<1>4. overlay' \in Files
  <2> DEFINE file == net.message.files[net.applying]
  <2>1. file[1] \in Modules /\ file[2] \in Content
    BY <1>1, MessageFields
  <2>2. overlay' = [overlay EXCEPT ![file[1]] = file[2]]
    BY DEF WriteFile
  <2> HIDE DEF file
  <2> QED BY <2>1, <2>2 DEF TypeOK, Files
<1>5. TypeOK'
  BY <1>3, <1>4 DEF TypeOK, WriteFile
<1> QED BY <1>1, <1>3, <1>5

LEMMA FinishType ==
  ASSUME TypeOK, NetOK, FinishSync
  PROVE  /\ TypeOK'
         /\ net'.session = net.session /\ net'.applying = 0
         /\ net.applying = Len(net.message.files) + 1 /\ net.message \in Messages
         /\ version' = net.message.version
<1>1. net.message \in Messages /\ net.applying = Len(net.message.files) + 1
  BY NetType, MessageFields DEF NetOK, FinishSync
<1>2. net' = [net EXCEPT !.applying = None, !.message = None]
  BY DEF FinishSync
<1>3. net' \in [session : Nat, applying : Nat, message : Messages \cup {None}]
      /\ net'.session = net.session /\ net'.applying = 0
  BY <1>2, NetType DEF None
<1>4. overlay' \in Files
  BY DEF TypeOK, Files, FinishSync
<1>5. version' \in Saved \cup {NoVersion} /\ version' = net.message.version
  BY <1>1, MessageFields DEF FinishSync
<1>6. UNCHANGED <<disk, watcher, snapshot, posted, sessions, used>>
  BY DEF FinishSync
<1>7. TypeOK'
  BY <1>3, <1>4, <1>5, <1>6 DEF TypeOK
<1> QED BY <1>1, <1>3, <1>5, <1>7

LEMMA CrashType ==
  ASSUME TypeOK, NetOK, Crash
  PROVE  TypeOK' /\ net'.session = 0 /\ net'.applying = 0 /\ used'.saves = used.saves
<1>1. net' \in [session : Nat, applying : Nat, message : Messages \cup {None}]
      /\ net'.session = 0 /\ net'.applying = 0
  BY DEF Crash, None
<1>2. used' \in [saves : Nat \ {0}, crashes : Nat] /\ used'.saves = used.saves
  <2>1. used \in [saves : Nat \ {0}, crashes : Nat] /\ used' = [used EXCEPT !.crashes = @ + 1]
    BY DEF Crash, Spend, TypeOK
  <2> QED BY <2>1
<1>3. overlay' \in Files
  <2>1. CASE overlay' = overlay
    BY <2>1 DEF TypeOK
  <2>2. CASE /\ ~Idle /\ net.applying <= Len(net.message.files)
             /\ overlay' = [overlay EXCEPT ![net.message.files[net.applying][1]] = TornFile]
    <3>1. net.message \in Messages /\ net.applying \in 1..Len(net.message.files)
      BY <2>2, NetType, MessageFields DEF NetOK
    <3>2. net.message.files[net.applying][1] \in Modules
      BY <3>1, MessageFields
    <3> QED BY <2>2, <3>2 DEF TypeOK, Files
  <2> QED BY <2>1, <2>2 DEF Crash
<1>4. UNCHANGED <<disk, watcher, snapshot, posted, sessions>> /\ version' = NoVersion
  BY DEF Crash
<1>5. TypeOK'
  BY <1>1, <1>2, <1>3, <1>4 DEF TypeOK
<1> QED BY <1>1, <1>2, <1>5
---------------------------------------------------------------------------
(* Steps of the developer and of the watcher thread. *)

LEMMA HereType ==
  ASSUME TypeOK, NetOK, Connected
  PROVE  /\ sessions \in Seq(Session) /\ net.session \in 1..Len(sessions)
         /\ Here \in Session /\ Here.server \in {"open", "synced"}
         /\ Here.down \in Seq(Messages) /\ Here.after \in Nat
<1>1. sessions \in Seq(Session)
  BY DEF TypeOK, Session
<1>2. net.session \in 1..Len(sessions) /\ Here.server # "gone"
  BY DEF NetOK
<1>3. Here \in Session
  BY <1>1, <1>2 DEF Here
<1> QED BY <1>1, <1>2, <1>3 DEF Session

LEMMA ApplyingType ==
  ASSUME TypeOK, NetOK
  PROVE  Applying \in Seq(Messages)
BY DEF NetOK, Applying

LEMMA LineType ==
  ASSUME TypeOK, NetOK, Connected
  PROVE  Line \in Seq(Messages)
<1>1. Here.server \in {"open", "synced"} /\ Here.down \in Seq(Messages) /\ Here.after \in Nat
  BY HereType
<1>2. posted \in Seq(Messages) /\ Applying \in Seq(Messages)
  BY ApplyingType DEF TypeOK
<1>3. CASE Here.server = "synced"
  <2>1. (Applying \o Here.down) \o posted \in Seq(Messages)
    BY <1>1, <1>2
  <2> QED BY <1>3, <2>1 DEF Line
<1>4. CASE Here.server = "open"
  <2>1. Here.after + 1 \in 1..(Len(posted) + 1)
    BY <1>4 DEF NetOK
  <2> DEFINE a == Here.after + 1
  <2>2. a \in 1..(Len(posted) + 1) /\ Line = SubSeq(posted, a, Len(posted))
    BY <1>4, <2>1 DEF Line
  <2> HIDE DEF a
  <2> QED BY <1>2, <2>2
<1> QED BY <1>1, <1>3, <1>4

(* Steps that touch neither the connection nor what is on its way.           *)
LEMMA LineStays ==
  ASSUME IInv, UNCHANGED <<net, sessions, posted, overlay>>,
         \A f \in Modules : Due(f) => Due(f)',
         \A f \in Modules : Due(f)' \/ \A c : Fits(f, c) => Fits(f, c)'
  PROVE  NetOK' /\ Arriving' /\ Arrived' /\ Applied'
<1>1. NetOK' /\ Applied'
  BY DEF IInv, NetOK, Applied, Connected, Here, Idle
<1>2. Line' = Line /\ Connected' = Connected /\ Here' = Here
  BY DEF Line, Connected, Here, Applying, Idle
<1>3. ASSUME NEW f \in Modules, ~Due(f)', NEW q, Ends(q, f)
      PROVE  \A i \in 1..Len(q) : \A c : LastIn(q, f, i) /\ Leaves(q[i], f, c) => Fits(f, c)'
  BY <1>3 DEF Ends
<1>4. Arriving'
  <2> SUFFICES ASSUME Connected', NEW f \in Modules, ~Due(f)' PROVE Ends(Line, f)'
    BY DEF Arriving
  <2>1. Ends(Line, f)
    BY <1>2 DEF IInv, Arriving
  <2> DEFINE q == Line
  <2>2. q' = q /\ Ends(q, f)
    BY <1>2, <2>1
  <2> HIDE DEF q
  <2>3. Ends(q, f)'
    BY <1>3, <2>2 DEF Ends
  <2> QED BY <2>3 DEF q
<1>5. Arrived'
  <2> SUFFICES ASSUME Connected', Here'.server = "synced", NEW f \in Modules, ~Due(f)', Silent(Line, f)'
               PROVE  Fits(f, overlay[f])'
    BY DEF Arrived
  <2>1. Silent(Line, f)
    BY <1>2 DEF Silent
  <2>2. Fits(f, overlay[f])
    BY <1>2, <2>1 DEF IInv, Arrived
  <2> QED BY <2>2 DEF Fits
<1> QED BY <1>1, <1>4, <1>5

LEMMA DeveloperKeeps ==
  ASSUME IInv, NEW g \in Modules, Save(g) \/ RemoveFile(g)
  PROVE  IInv'
<1>1. TypeOK' /\ used'.saves = used.saves + 1
  BY DeveloperType DEF IInv
<1>2. UNCHANGED <<watcher, snapshot, posted, sessions, net, overlay, version>>
  BY DEF Save, RemoveFile
<1>3. Fresh' /\ WatcherOK' /\ SnapshotOK'
  <2>1. \A f \in Modules : watcher.seen[f].n \in Int /\ used.saves \in Nat
    BY ContentN DEF IInv, TypeOK, Saved
  <2>2. Fresh'
    <3>1. \A f \in Modules : disk[f].n \in Int /\ disk[f].n <= used.saves
      BY ContentN DEF IInv, Fresh, TypeOK, Saved
    <3>2. ASSUME NEW f \in Modules PROVE disk'[f] = disk[f] \/ disk'[f].n \in {0, used.saves + 1}
      BY DEF Save, RemoveFile, NoFile, IInv, TypeOK, Saved
    <3>3. \A f \in Modules : disk'[f].n <= used.saves + 1
      BY <2>1, <3>1, <3>2
    <3> QED BY <1>1, <1>2, <2>1, <3>3 DEF IInv, Fresh
  <2> QED BY <1>2, <2>2 DEF IInv, WatcherOK, SnapshotOK, Due
<1>4. ASSUME NEW f \in Modules, NEW c, Fits(f, c) PROVE Fits(f, c)'
  <2>1. CASE f # g
    <3>1. disk'[f] = disk[f]
      BY <2>1 DEF Save, RemoveFile, IInv, TypeOK, Saved
    <3> QED BY <1>2, <1>4, <3>1 DEF Fits
  <2>2. CASE f = g /\ Save(g)
    <3>1. disk'[f].n = used.saves + 1
      BY <2>2 DEF Save, IInv, TypeOK, Saved
    <3>2. watcher.seen[f].n <= used.saves /\ watcher.seen[f].n \in Int /\ used.saves \in Nat
      BY ContentN DEF IInv, Fresh, TypeOK, Saved
    <3>3. disk'[f] # watcher.seen[f]
      BY <3>1, <3>2
    <3> QED BY <1>2, <1>4, <3>3 DEF Fits
  <2>3. CASE f = g /\ RemoveFile(g)
    <3>1. disk'[f] = NoFile
      BY <2>3 DEF RemoveFile, IInv, TypeOK, Saved
    <3> QED BY <1>2, <1>4, <3>1 DEF Fits
  <2> QED BY <2>1, <2>2, <2>3
<1>5. \A f \in Modules : Due(f)' = Due(f)
  BY <1>2 DEF Due
<1>6. NetOK' /\ Arriving' /\ Arrived' /\ Applied'
  BY SMTT(40), <1>2, <1>4, <1>5, LineStays
<1>7. Versions'
  BY <1>2 DEF IInv, Versions, Connected, Line, Here, Applying, Idle
<1> QED BY <1>1, <1>3, <1>6, <1>7 DEF IInv

LEMMA PollKeeps ==
  ASSUME IInv, Poll
  PROVE  IInv'
<1>1. TypeOK'
  BY WatchType DEF IInv, Watch
<1>2. UNCHANGED <<disk, snapshot, posted, sessions, net, overlay, version, used>>
      /\ watcher.at = "idle" /\ watcher'.at = "changed" /\ watcher'.seen = disk
      /\ watcher'.changed = Differing(disk, watcher.seen) /\ watcher'.removed = Vanished(disk, watcher.seen)
  BY DEF Poll
<1>3. \A f \in Modules : Due(f)' <=> disk[f] # watcher.seen[f]
  BY <1>2 DEF Due, Differing, Vanished
<1>4. WatcherOK'
  BY <1>2 DEF WatcherOK, Differing, Vanished
<1>5. SnapshotOK'
  BY <1>2, <1>3 DEF IInv, SnapshotOK
<1>6. \A f \in Modules : ~Due(f)
  BY <1>2 DEF Due
<1>7. \A f \in Modules : Due(f)' \/ \A c : Fits(f, c) => Fits(f, c)'
  BY <1>2, <1>3 DEF Fits
<1>8. NetOK' /\ Arriving' /\ Arrived' /\ Applied'
  BY <1>2, <1>6, <1>7, LineStays
<1>9. Versions'
  BY <1>2 DEF Versions
<1> QED BY <1>1, <1>2, <1>4, <1>5, <1>8, <1>9 DEF IInv, Fresh
LEMMA PublishKeeps ==
  ASSUME IInv, Publish
  PROVE  IInv'
<1>1. TypeOK'
  BY WatchType DEF IInv, Watch
<1>2. UNCHANGED <<disk, posted, sessions, net, overlay, version, used>>
      /\ watcher.at = "changed" /\ snapshot' = watcher.seen
      /\ watcher'.at = "published" /\ watcher'.seen = watcher.seen
      /\ watcher'.changed = watcher.changed /\ watcher'.removed = watcher.removed
  BY DEF IInv, TypeOK, Publish
<1>3. \A f \in Modules : Due(f)' = Due(f)
  BY <1>2 DEF Due
<1>4. \A f \in Modules : \A c : Fits(f, c) => Fits(f, c)'
  BY <1>2 DEF Fits
<1>5. NetOK' /\ Arriving' /\ Arrived' /\ Applied'
  BY <1>2, <1>3, <1>4, LineStays
<1>6. Fresh' /\ WatcherOK' /\ SnapshotOK' /\ Versions'
  BY <1>2 DEF IInv, Fresh, WatcherOK, SnapshotOK, Versions
<1> QED BY <1>1, <1>5, <1>6 DEF IInv

LEMMA LineGrows ==
  ASSUME TypeOK, NetOK, Connected, NEW m \in Messages, posted' = Append(posted, m),
         UNCHANGED <<net, sessions>>
  PROVE  Line' = Append(Line, m)
<1>1. Here.server \in {"open", "synced"} /\ Here.down \in Seq(Messages) /\ Here.after \in Nat
  BY HereType
<1>2. posted \in Seq(Messages) /\ Applying \in Seq(Messages)
  BY ApplyingType DEF TypeOK
<1>3. Here' = Here /\ Applying' = Applying
  BY DEF Here, Applying, Idle
<1>4. CASE Here.server = "synced"
  <2> DEFINE p == Applying \o Here.down
  <2>1. p \in Seq(Messages)
    BY <1>1, <1>2
  <2>2. Line = p \o posted /\ Line' = p \o Append(posted, m)
    BY <1>3, <1>4 DEF Line
  <2> HIDE DEF p
  <2> QED BY <1>2, <2>1, <2>2
<1>5. CASE Here.server = "open"
  <2>1. Here.after \in 0..Len(posted)
    BY <1>5 DEF NetOK
  <2> DEFINE a == Here.after + 1
             n == Len(posted)
  <2>2. Line = SubSeq(posted, a, n) /\ Line' = SubSeq(posted', a, Len(posted'))
    BY <1>3, <1>5 DEF Line
  <2>3. a \in 1..(n + 1) /\ n \in Nat
    BY <1>2, <2>1
  <2> HIDE DEF a
  <2>4. Len(posted') = n + 1 /\ posted'[n + 1] = m /\ \A i \in 1..n : posted'[i] = posted[i]
    BY <1>2, AppendProperties
  <2>5. posted' \in Seq(Messages)
    BY <1>2
  <2>6. SubSeq(posted', a, n + 1) = Append(SubSeq(posted, a, n), m)
    BY <1>2, <2>3, <2>4, <2>5
  <2> QED BY <2>2, <2>4, <2>6
<1> QED BY <1>1, <1>4, <1>5

LEMMA AnnounceKeeps ==
  ASSUME IInv, Announce
  PROVE  IInv'
<1> DEFINE m == Message(watcher.seen, watcher.changed, watcher.removed)
<1>1. TypeOK /\ NetOK /\ TypeOK'
  BY WatchType DEF IInv, Watch
<1>2. UNCHANGED <<disk, snapshot, sessions, net, overlay, version, used>>
      /\ watcher.at = "published" /\ watcher'.at = "idle" /\ watcher'.seen = watcher.seen
      /\ watcher'.changed = {} /\ watcher'.removed = {}
  BY DEF IInv, TypeOK, Announce
<1>3. watcher.seen \in Saved /\ watcher.changed \in SUBSET Modules /\ watcher.removed \in SUBSET Parts
  BY <1>1 DEF TypeOK
<1>4. m \in Messages /\ m.version = watcher.seen
      /\ \A f \in Modules : \A c : Leaves(m, f, c) <=> \/ f \in watcher.changed /\ disk[f] # NoFile /\ c = disk[f]
                                                       \/ f \in watcher.removed /\ c = NoFile
  <2>1. m \in Messages /\ m.version = watcher.seen /\ Says(m, watcher.changed, watcher.removed)
    BY <1>1, <1>3, MessageSays
  <2> HIDE DEF m
  <2> QED BY <2>1 DEF Says
<1>5. posted' = Append(posted, m) \/ (posted' = posted /\ ~Connected)
  <2>1. Connected => \E s \in DOMAIN sessions : sessions[s].server # "gone"
    BY <1>1, HereType DEF NetOK, Here
  <2> QED BY <2>1 DEF Announce
<1> HIDE DEF m
<1>6. Connected' = Connected /\ Here' = Here /\ Idle' = Idle
  BY <1>2 DEF Connected, Here, Idle
<1>7. NetOK' /\ Applied'
  <2>1. Applied'
    BY <1>2, <1>6 DEF IInv, Applied
  <2>2. Len(posted) \in Nat /\ (Connected => Len(posted') = Len(posted) + 1)
    BY <1>1, <1>4, <1>5 DEF TypeOK
  <2>3. Connected /\ Here.server = "open" => Here.after \in 0..Len(posted')
    BY <1>1, <2>2 DEF NetOK
  <2>4. NetOK'
    BY <1>1, <1>2, <1>6, <2>3 DEF NetOK
  <2> QED BY <2>1, <2>4
<1>8. Connected => Line' = Append(Line, m) /\ Line \in Seq(Messages)
  BY <1>1, <1>2, <1>4, <1>5, LineGrows, LineType
<1>9. \A f, c : Fits(f, c)' = Fits(f, c)
  BY <1>2 DEF Fits
<1>10. ASSUME NEW f \in Modules, NEW c, Leaves(m, f, c) PROVE Fits(f, c)
  <2>1. watcher.seen[f] # NoFile \/ c = NoFile
    BY <1>4, <1>10 DEF IInv, WatcherOK
  <2>2. disk[f] = watcher.seen[f] /\ watcher.seen[f] # NoFile => c = watcher.seen[f]
    BY <1>4, <1>10 DEF IInv, WatcherOK
  <2> QED BY <2>1, <2>2 DEF Fits
<1>11. ASSUME NEW f \in Modules, Due(f), ~Touches(m, f) PROVE \A c : Fits(f, c)
  <2>1. f \in watcher.changed /\ disk[f] = NoFile
    BY <1>4, <1>11 DEF Due, Touches
  <2>2. watcher.seen[f] # NoFile
    BY <2>1 DEF IInv, WatcherOK
  <2> QED BY <2>1, <2>2 DEF Fits
<1>12. ASSUME Connected, NEW f \in Modules PROVE Ends(Line', f)
  <2> DEFINE q == Line
  <2>1. q \in Seq(Messages) /\ Line' = Append(q, m) /\ (Due(f) \/ Ends(q, f))
    BY <1>8, <1>12 DEF IInv, Arriving
  <2> HIDE DEF q
  <2>2. CASE Ends(q, f)
    BY <1>4, <1>10, <2>1, <2>2, EndsAppend
  <2>3. CASE Due(f) /\ ~Touches(m, f)
    BY <1>11, <2>3 DEF Ends
  <2>4. CASE Touches(m, f)
    <3> DEFINE n == Len(q)
               r == Append(q, m)
    <3>1. n \in Nat /\ Len(r) = n + 1 /\ r[n + 1] = m
      BY <1>4, <2>1, AppendProperties
    <3> HIDE DEF r, n
    <3>2. ASSUME NEW i \in 1..Len(r), NEW c, LastIn(r, f, i), Leaves(r[i], f, c) PROVE Fits(f, c)
      <4>1. i = n + 1
        <5> SUFFICES ASSUME i # n + 1 PROVE FALSE
          OBVIOUS
        <5>1. n + 1 \in (i + 1)..Len(r)
          BY <3>1
        <5> QED BY <2>4, <3>1, <3>2, <5>1 DEF LastIn
      <4> QED BY <1>10, <3>1, <3>2, <4>1
    <3>3. Ends(r, f)
      BY <3>2 DEF Ends
    <3> QED BY <2>1, <3>3 DEF r
  <2> QED BY <2>1, <2>2, <2>3, <2>4
<1>13. Arriving'
  <2> SUFFICES ASSUME Connected', NEW f \in Modules PROVE Ends(Line, f)'
    BY DEF Arriving
  <2>1. Ends(Line', f)
    BY <1>6, <1>12
  <2> QED BY <1>9, <2>1 DEF Ends
<1>14. Arrived'
  <2> SUFFICES ASSUME Connected', Here'.server = "synced", NEW f \in Modules, Silent(Line, f)'
               PROVE  Fits(f, overlay[f])'
    BY DEF Arrived
  <2>1. Silent(Line', f) /\ Connected /\ Here.server = "synced"
    BY <1>6 DEF Silent
  <2>2. Silent(Line, f) /\ ~Touches(m, f)
    <3> DEFINE q == Line
    <3>1. q \in Seq(Messages) /\ Silent(Append(q, m), f)
      BY <1>8, <2>1
    <3> HIDE DEF q
    <3>2. Silent(q, f) /\ ~Touches(m, f)
      BY <1>4, <3>1, SilentAppend
    <3> QED BY <3>2 DEF q
  <2>3. Due(f) \/ Fits(f, overlay[f])
    BY <2>1, <2>2 DEF IInv, Arrived
  <2>4. Fits(f, overlay[f])
    BY <1>11, <2>2, <2>3
  <2> QED BY <1>2, <2>4 DEF Fits
<1>15. Versions'
  <2> SUFFICES ASSUME Connected PROVE Line' # <<>> /\ Line'[Len(Line')].version = watcher.seen
    BY <1>2, <1>6 DEF Versions
  <2>1. Line' = Append(Line, m) /\ Line \in Seq(Messages)
    BY <1>8
  <2> DEFINE q == Line
  <2>2. q \in Seq(Messages) /\ Line' = Append(q, m)
    BY <2>1
  <2> HIDE DEF q
  <2>3. Len(Append(q, m)) = Len(q) + 1 /\ Append(q, m)[Len(q) + 1] = m /\ Len(q) \in Nat
    BY <1>4, <2>2, AppendProperties
  <2> QED BY <1>4, <2>2, <2>3
<1>16. Fresh' /\ WatcherOK' /\ SnapshotOK'
  BY <1>2 DEF IInv, Fresh, WatcherOK, SnapshotOK
<1> QED BY <1>1, <1>7, <1>13, <1>14, <1>15, <1>16 DEF IInv
---------------------------------------------------------------------------
(* Steps of the server's loop. *)

(* An element that goes from one part of the line to the part before it.     *)
Together(a, d, p) == (a \o d) \o p
LEMMA MovesOn ==
  ASSUME NEW S, NEW a \in Seq(S), NEW d \in Seq(S), NEW p \in Seq(S), p # <<>>
  PROVE  Together(a, Append(d, Head(p)), Tail(p)) = Together(a, d, p)
<1> DEFINE h == Head(p)
           t == Tail(p)
<1>1. h \in S /\ t \in Seq(S) /\ p = <<h>> \o t /\ <<h>> \in Seq(S)
  BY HeadTailProperties
<1> HIDE DEF h, t
<1>2. Append(d, h) = d \o <<h>>
  BY <1>1
<1>3. d \o <<h>> \in Seq(S)
  BY <1>1
<1>4. Regroups(a, d, <<h>>) /\ Regroups(a \o d, <<h>>, t)
  <2> DEFINE o == <<h>>
             b == a \o d
  <2>1. o \in Seq(S) /\ b \in Seq(S)
    BY <1>1
  <2> HIDE DEF o, b
  <2>2. Regroups(a, d, o)
    BY <2>1, Regroup
  <2>3. Regroups(b, o, t)
    BY <1>1, <2>1, Regroup
  <2> QED BY <2>2, <2>3 DEF o, b
<1> QED BY <1>1, <1>2, <1>4 DEF Regroups, Together, h, t

(* The first of the posted broadcasts is taken while the client waits for    *)
(* its answer.                                                               *)
LEMMA SkipsOne ==
  ASSUME NEW p \in Seq(Messages), p # <<>>, NEW k \in 0..Len(p)
  PROVE  /\ k > 0 => SubSeq(Tail(p), k, Len(Tail(p))) = SubSeq(p, k + 1, Len(p))
         /\ k = 0 => /\ SubSeq(Tail(p), 1, Len(Tail(p))) = Tail(p)
                     /\ SubSeq(p, 1, Len(p)) = p
<1>1. Tail(p) \in Seq(Messages) /\ Len(p) \in Nat /\ Len(Tail(p)) = Len(p) - 1 /\ Len(p) > 0
      /\ \A i \in 1..Len(Tail(p)) : Tail(p)[i] = p[i + 1]
  BY HeadTailProperties
<1>2. ASSUME NEW q \in Seq(Messages) PROVE SubSeq(q, 1, Len(q)) = q
  BY <1>2
<1>3. ASSUME k > 0 PROVE SubSeq(Tail(p), k, Len(Tail(p))) = SubSeq(p, k + 1, Len(p))
  <2> DEFINE t == Tail(p)
             n == Len(p)
  <2>1. t \in Seq(Messages) /\ n \in Nat /\ Len(t) = n - 1 /\ \A i \in 1..(n - 1) : t[i] = p[i + 1]
    BY <1>1
  <2>2. k \in 1..n
    BY <1>3
  <2> HIDE DEF t, n
  <2>3. SubSeq(t, k, n - 1) = SubSeq(p, k + 1, n)
    BY <2>1, <2>2 DEF n
  <2> QED BY <2>1, <2>3 DEF t, n
<1> QED BY <1>1, <1>2, <1>3

LEMMA BroadcastLine ==
  ASSUME TypeOK, NetOK, Broadcast, Connected
  PROVE  /\ Here'.server = Here.server /\ Here'.hello = Here.hello
         /\ Here.server = "synced" => Line' = Line
         /\ Here.server = "open" =>
              /\ Here'.down = Here.down /\ Here'.after \in 0..Len(posted')
              /\ Line' = Line \/ Follows(Line, Head(posted), Line')
         /\ Line' \in Seq(Messages)
<1>1. posted \in Seq(Messages) /\ posted # <<>> /\ posted' = Tail(posted)
      /\ net' = net /\ Len(posted) \in Nat /\ Applying \in Seq(Messages)
  BY ApplyingType DEF TypeOK, Broadcast
<1>2. Head(posted) \in Messages /\ posted' \in Seq(Messages) /\ Len(posted') = Len(posted) - 1
  BY <1>1
<1>3. sessions \in Seq(Session) /\ net.session \in 1..Len(sessions)
      /\ Here \in Session /\ Here.down \in Seq(Messages) /\ Here.after \in Nat
  BY HereType
<1>4. Here' = IF Here.server = "synced" THEN [Here EXCEPT !.down = Append(@, Head(posted))]
              ELSE [Here EXCEPT !.after = IF @ > 0 THEN @ - 1 ELSE @]
  <2> DEFINE next(s) == IF sessions[s].server = "synced"
                        THEN [sessions[s] EXCEPT !.down = Append(@, Head(posted))]
                        ELSE [sessions[s] EXCEPT !.after = IF @ > 0 THEN @ - 1 ELSE @]
  <2>1. sessions' = [s \in DOMAIN sessions |-> next(s)]
    BY DEF Broadcast
  <2>2. net.session \in DOMAIN sessions
    BY <1>3
  <2> HIDE DEF next
  <2>3. sessions'[net.session] = next(net.session)
    BY <2>1, <2>2
  <2>4. Here' = next(net.session)
    BY <1>1, <2>3 DEF Here
  <2> QED BY <2>4 DEF next, Here
<1>5. Applying' = Applying
  BY <1>1 DEF Applying, Idle
<1> DEFINE y == Here
           h == Head(posted)
<1>6. y \in Session /\ Here' = IF y.server = "synced" THEN [y EXCEPT !.down = Append(@, h)]
                               ELSE [y EXCEPT !.after = IF @ > 0 THEN @ - 1 ELSE @]
  BY <1>3, <1>4
<1>7. Here'.server = y.server /\ Here'.hello = y.hello
      /\ (y.server = "synced" => Here'.down = Append(y.down, h))
      /\ (y.server # "synced" => Here'.down = y.down /\ Here'.after = IF y.after > 0 THEN y.after - 1 ELSE y.after)
  <2> HIDE DEF y, h
  <2> QED BY <1>6 DEF Session
<1>8. CASE Here.server = "synced"
  <2>1. Line = (Applying \o Here.down) \o posted
        /\ Line' = (Applying \o Append(Here.down, Head(posted))) \o Tail(posted)
    BY <1>1, <1>5, <1>7, <1>8 DEF Line
  <2>2. Line' = Line
    <3> DEFINE a == Applying
               d == Here.down
    <3>1. a \in Seq(Messages) /\ d \in Seq(Messages)
      BY <1>1, <1>3
    <3> DEFINE p == posted
    <3>2. p \in Seq(Messages) /\ p # <<>>
      BY <1>1
    <3> HIDE DEF a, d, p
    <3>3. Together(a, Append(d, Head(p)), Tail(p)) = Together(a, d, p)
      BY <3>1, <3>2, MovesOn
    <3> QED BY <2>1, <3>3 DEF Together, a, d, p
  <2> QED BY <1>7, <1>8, <2>2, LineType
<1>9. CASE Here.server = "open"
  <2>1. Here.after \in 0..Len(posted)
    BY <1>9 DEF NetOK
  <2>2. Line = SubSeq(posted, Here.after + 1, Len(posted))
        /\ Line' = SubSeq(Tail(posted), Here'.after + 1, Len(Tail(posted)))
    BY <1>1, <1>7, <1>9 DEF Line
  <2>3. CASE Here.after > 0
    <3>1. Here'.after = Here.after - 1 /\ Here'.after + 1 = Here.after
      BY <1>3, <1>7, <1>9, <2>3
    <3> DEFINE k == Here.after
    <3>2. k \in 0..Len(posted) /\ k > 0
      BY <2>1, <2>3
    <3> HIDE DEF k
    <3>3. SubSeq(Tail(posted), k, Len(Tail(posted))) = SubSeq(posted, k + 1, Len(posted))
      BY <1>1, <3>2, SkipsOne
    <3>4. Line' = Line
      BY <2>2, <3>1, <3>3 DEF k
    <3> QED BY <1>2, <1>7, <1>9, <2>1, <3>1, <3>4, LineType
  <2>4. CASE Here.after = 0
    <3>1. Here'.after = 0
      BY <1>7, <1>9, <2>4
    <3>2. 0 \in 0..Len(posted)
      BY <2>1, <2>4
    <3>3. SubSeq(Tail(posted), 1, Len(Tail(posted))) = Tail(posted) /\ SubSeq(posted, 1, Len(posted)) = posted
      BY <1>1, <3>2, SkipsOne
    <3>4. Line = posted /\ Line' = Tail(posted)
      BY <2>2, <2>4, <3>1, <3>3
    <3>5. Follows(Line, Head(posted), Line')
      BY <1>1, <3>4, HeadTailProperties DEF Follows
    <3>6. Here'.after \in 0..Len(posted') /\ Line' \in Seq(Messages)
      BY <1>1, <1>2, <3>1, <3>4
    <3> QED BY <1>7, <1>9, <3>5, <3>6
  <2> QED BY <1>3, <2>3, <2>4
<1> QED BY <1>8, <1>9, HereType

LEMMA BroadcastKeeps ==
  ASSUME IInv, Broadcast
  PROVE  IInv'
<1>1. TypeOK /\ NetOK /\ TypeOK'
  BY ServeType DEF IInv, Serve
<1>2. UNCHANGED <<disk, watcher, snapshot, net, overlay, version, used>> /\ Connected' = Connected /\ Idle' = Idle
      /\ DOMAIN sessions' = DOMAIN sessions
  BY DEF Broadcast, Connected, Idle
<1>3. NetOK'
  <2>1. Len(sessions') = Len(sessions)
    BY <1>1, <1>2 DEF TypeOK
  <2>2. Connected => net'.session \in 1..Len(sessions') /\ Here'.server # "gone"
    BY <1>1, <1>2, <2>1, BroadcastLine DEF NetOK
  <2>3. Connected /\ Here'.server = "open" =>
          Idle /\ Here'.down = <<>> /\ Here'.hello = overlay /\ Here'.after \in 0..Len(posted')
    BY <1>1, BroadcastLine DEF NetOK
  <2> QED BY <1>1, <1>2, <2>2, <2>3 DEF NetOK
<1>4. Fresh' /\ WatcherOK' /\ SnapshotOK' /\ Applied'
  BY <1>2 DEF IInv, Fresh, WatcherOK, SnapshotOK, Due, Applied
<1>5. \A f : Due(f)' = Due(f) /\ \A c : Fits(f, c)' = Fits(f, c)
  BY <1>2 DEF Due, Fits
<1>6. ASSUME Connected PROVE Line \in Seq(Messages) /\ Line' \in Seq(Messages)
  BY <1>1, <1>6, LineType, BroadcastLine
<1>7. ASSUME Connected, NEW f, Ends(Line, f) PROVE Ends(Line', f)
  <2> DEFINE q == Line
             r == Line'
             h == Head(posted)
  <2>1. r = q \/ Follows(q, h, r)
    BY <1>1, <1>7, BroadcastLine, HereType
  <2>2. r \in Seq(Messages) /\ Ends(q, f)
    BY <1>6, <1>7
  <2> HIDE DEF q, r, h
  <2>3. Ends(r, f)
    BY <2>1, <2>2, EndsAfter
  <2> QED BY <2>3 DEF r
<1>8. Arriving'
  <2> SUFFICES ASSUME Connected', NEW f \in Modules, ~Due(f)' PROVE Ends(Line, f)'
    BY DEF Arriving
  <2>1. Ends(Line', f)
    BY <1>2, <1>5, <1>7 DEF IInv, Arriving
  <2> QED BY <1>5, <2>1 DEF Ends
<1>9. Arrived'
  <2> SUFFICES ASSUME Connected', Here'.server = "synced", NEW f \in Modules, ~Due(f)', Silent(Line, f)'
               PROVE  Fits(f, overlay[f])'
    BY DEF Arrived
  <2>1. Connected /\ Here.server = "synced" /\ Line' = Line
    BY <1>1, <1>2, BroadcastLine
  <2>2. Silent(Line, f)
    BY <2>1 DEF Silent
  <2>3. Fits(f, overlay[f])
    BY <1>5, <2>1, <2>2 DEF IInv, Arrived
  <2> QED BY <1>2, <2>3 DEF Fits
<1>10. Versions'
  <2> SUFFICES ASSUME Connected, watcher.at = "idle"
               PROVE  /\ Line' # <<>> => Line'[Len(Line')].version = watcher.seen
                      /\ Line' = <<>> /\ Here'.server = "synced" => version = watcher.seen
    BY <1>2 DEF Versions
  <2>1. /\ Line # <<>> => Line[Len(Line)].version = watcher.seen
        /\ Line = <<>> /\ Here.server = "synced" => version = watcher.seen
    BY DEF IInv, Versions
  <2>2. CASE Line' = Line
    BY <1>1, <2>1, <2>2, BroadcastLine
  <2>3. CASE Here.server = "open" /\ Follows(Line, Head(posted), Line')
    <3> DEFINE q == Line
               r == Line'
    <3>1. q \in Seq(Messages) /\ r \in Seq(Messages)
      BY <1>6
    <3>2. Len(q) = Len(r) + 1 /\ \A i \in 1..Len(r) : q[i + 1] = r[i]
      BY <2>3 DEF Follows
    <3>3. q # <<>> => q[Len(q)].version = watcher.seen
      BY <2>1
    <3> HIDE DEF q, r
    <3>4. r # <<>> => Len(r) \in 1..Len(r) /\ q # <<>>
      BY <3>1, <3>2
    <3>5. r # <<>> => r[Len(r)].version = watcher.seen
      BY <3>2, <3>3, <3>4
    <3>6. Here'.server # "synced"
      BY <1>1, <2>3, BroadcastLine
    <3> QED BY <3>5, <3>6 DEF r
  <2> QED BY <1>1, <2>2, <2>3, BroadcastLine, HereType
<1> QED BY <1>1, <1>3, <1>4, <1>8, <1>9, <1>10 DEF IInv
(* Another connection than the client's is none of its business.             *)
LEMMA ElsewhereKeeps ==
  ASSUME IInv, NEW s \in DOMAIN sessions, Hello(s) \/ DropClient(s), net.session # s
  PROVE  IInv'
<1>1. TypeOK /\ NetOK /\ TypeOK'
  BY ServeType DEF IInv, Serve
<1>2. UNCHANGED <<disk, watcher, snapshot, posted, net, overlay, version, used>>
      /\ DOMAIN sessions' = DOMAIN sessions /\ \A r \in DOMAIN sessions : r # s => sessions'[r] = sessions[r]
  BY DEF Hello, DropClient
<1>3. Connected' = Connected /\ Idle' = Idle /\ Applying' = Applying /\ Len(sessions') = Len(sessions)
  BY <1>1, <1>2 DEF Connected, Idle, Applying, TypeOK
<1>4. Connected => Here' = Here
  BY <1>1, <1>2, HereType DEF Here
<1>5. Connected => Line' = Line
  BY <1>2, <1>3, <1>4 DEF Line
<1>6. NetOK'
  BY <1>1, <1>2, <1>3, <1>4 DEF NetOK
<1>7. Fresh' /\ WatcherOK' /\ SnapshotOK' /\ Applied'
  BY <1>2 DEF IInv, Fresh, WatcherOK, SnapshotOK, Due, Applied, Idle
<1>8. \A f : Due(f)' = Due(f) /\ \A c : Fits(f, c)' = Fits(f, c)
  BY <1>2 DEF Due, Fits
<1>9. Arriving'
  <2> SUFFICES ASSUME Connected', NEW f \in Modules, ~Due(f)' PROVE Ends(Line, f)'
    BY DEF Arriving
  <2>1. Ends(Line, f)
    BY <1>3, <1>8 DEF IInv, Arriving
  <2>2. Line' = Line
    BY <1>3, <1>5
  <2> DEFINE q == Line
  <2>3. q' = q /\ Ends(q, f)
    BY <2>1, <2>2
  <2> HIDE DEF q
  <2>4. Ends(q, f)'
    BY <1>8, <2>3 DEF Ends
  <2> QED BY <2>4 DEF q
<1>10. Arrived'
  <2> SUFFICES ASSUME Connected', Here'.server = "synced", NEW f \in Modules, ~Due(f)', Silent(Line, f)'
               PROVE  Fits(f, overlay[f])'
    BY DEF Arrived
  <2>1. Silent(Line, f)
    BY <1>3, <1>5 DEF Silent
  <2>2. Fits(f, overlay[f])
    BY <1>3, <1>4, <1>8, <2>1 DEF IInv, Arrived
  <2> QED BY <1>2, <2>2 DEF Fits
<1>11. Versions'
  BY <1>2, <1>3, <1>4, <1>5 DEF IInv, Versions
<1> QED BY <1>1, <1>6, <1>7, <1>9, <1>10, <1>11 DEF IInv

LEMMA OneBefore ==
  ASSUME NEW S, NEW m \in S, NEW p \in Seq(S)
  PROVE  Follows(Together(<<>>, <<m>>, p), m, p) /\ Together(<<>>, <<m>>, p) \in Seq(S)
<1> DEFINE o == <<m>>
<1>1. o \in Seq(S) /\ Len(o) = 1 /\ o[1] = m
  OBVIOUS
<1> HIDE DEF o
<1>2. <<>> \o o = o
  BY <1>1
<1>3. o \o p \in Seq(S) /\ Len(o \o p) = 1 + Len(p) /\ (o \o p)[1] = m
      /\ \A i \in 1..Len(p) : (o \o p)[i + 1] = p[i]
  <2> DEFINE c == o \o p
  <2>1. c \in Seq(S) /\ Len(c) = Len(o) + Len(p)
        /\ \A i \in 1..(Len(o) + Len(p)) : c[i] = IF i <= Len(o) THEN o[i] ELSE p[i - Len(o)]
    BY <1>1, ConcatProperties
  <2> HIDE DEF c
  <2>2. c[1] = m /\ \A i \in 1..Len(p) : c[i + 1] = p[i]
    BY <1>1, <2>1
  <2> QED BY <1>1, <2>1, <2>2 DEF c
<1>4. Together(<<>>, o, p) = o \o p
  BY <1>2 DEF Together
<1>5. Follows(o \o p, m, p)
  BY <1>3 DEF Follows
<1> QED BY <1>3, <1>4, <1>5 DEF o

LEMMA HelloKeeps ==
  ASSUME IInv, NEW s \in DOMAIN sessions, Hello(s), net.session = s
  PROVE  IInv'
<1> DEFINE has == Here.hello
           m == Message(snapshot, Differing(snapshot, has), Vanished(snapshot, has))
<1>1. TypeOK /\ NetOK /\ TypeOK'
  BY ServeType DEF IInv, Serve
<1>2. sessions \in Seq(Session) /\ s \in 1..Len(sessions)
  BY SMTT(40), <1>1 DEF TypeOK, Session
<1>3. Connected /\ Here = sessions[s] /\ Here.server = "open"
  BY <1>2 DEF Connected, None, Here, Hello
<1>4. Idle /\ Here.down = <<>> /\ has = overlay /\ Here.after = 0 /\ Here \in Session
  BY <1>1, <1>2, <1>3 DEF NetOK, Hello
<1>5. UNCHANGED <<disk, watcher, snapshot, posted, net, overlay, version, used>>
      /\ Connected' = Connected /\ Idle' = Idle
      /\ sessions' = [sessions EXCEPT ![s] =
             [Here EXCEPT !.server = "synced", !.hello = NoVersion, !.down = Append(@, m)]]
  BY <1>3 DEF Hello, Connected, Idle
<1>6. m \in Messages /\ m.version = snapshot /\ Says(m, Differing(snapshot, has), Vanished(snapshot, has))
  <2> DEFINE changed == Differing(snapshot, has)
             removed == Vanished(snapshot, has)
  <2>1. snapshot \in Saved /\ changed \in SUBSET Modules /\ removed \in SUBSET Parts
    BY <1>1 DEF TypeOK, Differing, Vanished, Saved, Parts
  <2> HIDE DEF changed, removed
  <2>2. m = Message(snapshot, changed, removed)
    BY DEF changed, removed
  <2> HIDE DEF m
  <2>3. m \in Messages /\ m.version = snapshot /\ Says(m, changed, removed)
    BY <1>1, <2>1, <2>2, MessageSays
  <2> QED BY <2>3 DEF changed, removed
<1> HIDE DEF m
<1>7. Here'.server = "synced" /\ Here'.down = <<m>> /\ Len(sessions') = Len(sessions)
  <2> DEFINE y == Here
             x == [y EXCEPT !.server = "synced", !.hello = NoVersion, !.down = Append(@, m)]
  <2>1. y \in Session /\ y.down = <<>>
    BY <1>4
  <2>2. sessions' = [sessions EXCEPT ![s] = x] /\ net'.session = s
    BY <1>5
  <2>3. Here' = x /\ Len(sessions') = Len(sessions)
    <3> HIDE DEF x
    <3> QED BY <1>2, <2>2 DEF Here
  <2> HIDE DEF y
  <2>4. x.server = "synced" /\ x.down = <<m>>
    BY <2>1 DEF Session
  <2> QED BY <2>3, <2>4
<1>8. NetOK'
  BY <1>1, <1>4, <1>5, <1>7 DEF NetOK
<1>9. Line = posted /\ posted \in Seq(Messages)
  <2>1. posted \in Seq(Messages) /\ Line = SubSeq(posted, 0 + 1, Len(posted))
    BY <1>1, <1>3, <1>4 DEF Line, TypeOK
  <2> QED BY <2>1
<1>10. Line' = Together(<<>>, <<m>>, posted)
  <2>1. Applying' = <<>>
    BY <1>4, <1>5 DEF Applying, Idle
  <2>2. Line' = (Applying' \o Here'.down) \o posted'
    BY <1>7 DEF Line
  <2> QED BY <1>5, <1>7, <2>1, <2>2 DEF Together
<1>11. Follows(Line', m, posted) /\ Line' \in Seq(Messages)
  <2> DEFINE p == posted
             r == Together(<<>>, <<m>>, p)
  <2>1. p \in Seq(Messages)
    BY <1>9
  <2> HIDE DEF p
  <2>2. Follows(r, m, p) /\ r \in Seq(Messages)
    BY <1>6, <2>1, OneBefore
  <2> QED BY <1>10, <2>2 DEF p
<1>12. \A f : Due(f)' = Due(f) /\ \A c : Fits(f, c)' = Fits(f, c)
  BY <1>5 DEF Due, Fits
<1>13. ASSUME NEW f \in Modules, ~Due(f), NEW c, Leaves(m, f, c) PROVE Fits(f, c)
  <2>1. snapshot[f] = watcher.seen[f]
    BY <1>13 DEF IInv, SnapshotOK
  <2>2. \/ f \in Differing(snapshot, has) /\ disk[f] # NoFile /\ c = disk[f]
        \/ f \in Vanished(snapshot, has) /\ c = NoFile
    BY <1>6, <1>13 DEF Says
  <2>3. \/ watcher.seen[f] # NoFile /\ c = disk[f]
        \/ watcher.seen[f] = NoFile /\ c = NoFile
    BY <2>1, <2>2 DEF Differing, Vanished
  <2> QED BY <2>3 DEF Fits
<1>14. ASSUME NEW f \in Modules, ~Due(f), ~Touches(m, f) PROVE Fits(f, overlay[f])
  <2>1. snapshot[f] = watcher.seen[f]
    BY <1>14 DEF IInv, SnapshotOK
  <2>2. /\ f \in Differing(snapshot, has) => disk[f] = NoFile
        /\ f \notin Vanished(snapshot, has)
    BY <1>6, <1>14 DEF Says, Touches
  <2>3. /\ watcher.seen[f] # NoFile /\ watcher.seen[f] # overlay[f] => disk[f] = NoFile
        /\ watcher.seen[f] = NoFile => overlay[f] = NoFile
    BY <1>4, <2>1, <2>2 DEF Differing, Vanished
  <2> QED BY <2>3 DEF Fits
<1>15. Arriving'
  <2> SUFFICES ASSUME NEW f \in Modules, ~Due(f)' PROVE Ends(Line, f)'
    BY DEF Arriving
  <2> DEFINE r == Line'
  <2>1. Ends(posted, f) /\ ~Due(f)
    BY <1>3, <1>9, <1>12 DEF IInv, Arriving
  <2>2. posted \in Seq(Messages) /\ Follows(r, m, posted)
    BY <1>9, <1>11
  <2> HIDE DEF r
  <2>3. Ends(r, f)
    BY <1>13, <2>1, <2>2, EndsBefore
  <2> QED BY <1>12, <2>3 DEF Ends, r
<1>16. Arrived'
  <2> SUFFICES ASSUME NEW f \in Modules, ~Due(f)', Silent(Line, f)' PROVE Fits(f, overlay[f])'
    BY DEF Arrived
  <2> DEFINE r == Line'
  <2>1. posted \in Seq(Messages) /\ Follows(r, m, posted) /\ Silent(r, f) /\ ~Due(f)
    BY <1>9, <1>11, <1>12 DEF Silent
  <2> HIDE DEF r
  <2>2. ~Touches(m, f)
    BY <2>1, SilentBefore
  <2>3. Fits(f, overlay[f])
    BY <1>14, <2>1, <2>2
  <2> QED BY <1>5, <2>3 DEF Fits
<1>17. Versions'
  <2> SUFFICES ASSUME watcher.at = "idle" PROVE Line' # <<>> /\ Line'[Len(Line')].version = watcher.seen
    BY <1>5 DEF Versions
  <2> DEFINE r == Line'
  <2>1. r \in Seq(Messages) /\ Len(r) = Len(posted) + 1 /\ r[1] = m
        /\ \A i \in 1..Len(posted) : r[i + 1] = posted[i]
    BY <1>11 DEF Follows
  <2>2. Len(posted) \in Nat /\ (posted # <<>> => Len(posted) \in 1..Len(posted))
    BY <1>9
  <2>3. posted # <<>> => posted[Len(posted)].version = watcher.seen
    BY <1>3, <1>9 DEF IInv, Versions
  <2>4. snapshot = watcher.seen
    BY DEF IInv, SnapshotOK
  <2>5. posted = <<>> => Len(posted) = 0
    OBVIOUS
  <2> HIDE DEF r
  <2>6. r # <<>> /\ r[Len(r)].version = watcher.seen
    BY <1>6, <2>1, <2>2, <2>3, <2>4, <2>5
  <2> QED BY <2>6 DEF r
<1>18. Fresh' /\ WatcherOK' /\ SnapshotOK' /\ Applied'
  BY <1>4, <1>5 DEF IInv, Fresh, WatcherOK, SnapshotOK, Due, Applied
<1> QED BY <1>1, <1>8, <1>15, <1>16, <1>17, <1>18 DEF IInv
---------------------------------------------------------------------------
(* Steps of the client. *)

LEMMA ConnectKeeps ==
  ASSUME IInv, Connect
  PROVE  IInv'
<1>1. TypeOK /\ NetOK /\ TypeOK'
      /\ net'.session = Len(sessions) + 1 /\ net'.applying = 0 /\ Len(sessions') = Len(sessions) + 1
      /\ Here' = [server |-> "open", hello |-> overlay, after |-> Len(posted), down |-> <<>>]
  BY ConnectType DEF IInv, Here
<1>2. UNCHANGED <<disk, watcher, snapshot, posted, overlay, version, used>>
  BY DEF Connect
<1>3. Idle' /\ posted \in Seq(Messages) /\ Len(posted) \in Nat /\ Len(sessions) \in Nat
  BY <1>1 DEF TypeOK, Idle, None
<1>4. NetOK'
  BY <1>1, <1>2, <1>3 DEF NetOK
<1>5. Line' = <<>>
  <2>1. Line' = SubSeq(posted, Len(posted) + 1, Len(posted))
    BY <1>1, <1>2 DEF Line
  <2> QED BY <1>3, <2>1
<1>6. Arriving' /\ Arrived' /\ Applied' /\ Versions'
  <2>1. \A f : Ends(<<>>, f)'
    BY DEF Ends
  <2>2. Arriving'
    BY <1>5, <2>1 DEF Arriving
  <2> QED BY <1>1, <1>3, <1>5, <2>2 DEF Arrived, Applied, Versions
<1>7. Fresh' /\ WatcherOK' /\ SnapshotOK'
  BY <1>2 DEF IInv, Fresh, WatcherOK, SnapshotOK, Due
<1> QED BY <1>1, <1>4, <1>6, <1>7 DEF IInv

(* A client without a connection has nothing to keep. *)
LEMMA CutOff ==
  ASSUME IInv, TypeOK', net'.session = 0, net'.applying = 0, used'.saves = used.saves,
         UNCHANGED <<disk, watcher, snapshot>>
  PROVE  IInv'
<1>1. ~Connected' /\ Idle'
  BY DEF Connected, Idle, None
<1>2. NetOK' /\ Arriving' /\ Arrived' /\ Applied' /\ Versions'
  BY <1>1 DEF NetOK, Arriving, Arrived, Applied, Versions
<1>3. Fresh' /\ WatcherOK' /\ SnapshotOK'
  BY DEF IInv, Fresh, WatcherOK, SnapshotOK, Due
<1> QED BY <1>2, <1>3 DEF IInv

LEMMA LoseKeeps ==
  ASSUME IInv, Lose
  PROVE  IInv'
BY LoseType, CutOff DEF IInv, Lose
LEMMA CrashKeeps ==
  ASSUME IInv, Crash
  PROVE  IInv'
BY CrashType, CutOff DEF IInv, Crash

LEMMA TakesFirst ==
  ASSUME NEW S, NEW d \in Seq(S), NEW p \in Seq(S), d # <<>>
  PROVE  Together(<<Head(d)>>, Tail(d), p) = Together(<<>>, d, p)
<1> DEFINE h == Head(d)
           t == Tail(d)
<1>1. h \in S /\ t \in Seq(S) /\ d = <<h>> \o t /\ <<>> \o d = d
  BY HeadTailProperties
<1> HIDE DEF h, t
<1> QED BY <1>1 DEF Together, h, t

LEMMA ReceiveKeeps ==
  ASSUME IInv, Receive
  PROVE  IInv'
<1>1. TypeOK /\ NetOK /\ TypeOK' /\ Connected
  BY ReceiveType DEF IInv, Receive, Connected
<1>2. net'.session = net.session /\ net'.applying = 1 /\ net'.message = Head(Here.down)
      /\ Len(sessions') = Len(sessions) /\ Here.down \in Seq(Messages) /\ Here.down # <<>> /\ Idle
      /\ Here' = [Here EXCEPT !.down = Tail(@)]
  BY <1>1, ReceiveType DEF Here
<1>3. Head(Here.down) \in Messages /\ Len(net'.message.files) \in Nat
  BY <1>2, MessageFields
<1>4. Connected' /\ ~Idle'
  BY <1>1, <1>2 DEF Connected, Idle, None
<1>5. UNCHANGED <<disk, watcher, snapshot, posted, overlay, version, used>>
  BY DEF Receive
<1>6. Here.server = "synced" /\ Here'.server = "synced" /\ Here'.down = Tail(Here.down)
  <2> DEFINE y == Here
  <2>1. y \in Session /\ y.server \in {"open", "synced"} /\ (y.server = "open" => y.down = <<>>)
    BY <1>1, HereType DEF NetOK
  <2>2. Here' = [y EXCEPT !.down = Tail(@)] /\ y.down # <<>>
    BY <1>2
  <2> HIDE DEF y
  <2>3. y.server = "synced" /\ Here'.server = "synced" /\ Here'.down = Tail(y.down)
    BY <2>1, <2>2 DEF Session
  <2> QED BY <2>3 DEF y
<1>7. NetOK'
  BY <1>1, <1>2, <1>3, <1>4, <1>6 DEF NetOK
<1>8. Line' = Line
  <2> DEFINE d == Here.down
             p == posted
  <2>1. d \in Seq(Messages) /\ p \in Seq(Messages) /\ d # <<>>
    BY <1>1, <1>2 DEF TypeOK
  <2>2. Line = Together(<<>>, d, p)
    BY <1>2, <1>6 DEF Line, Together, Applying
  <2>3. Line' = Together(<<Head(d)>>, Tail(d), p)
    BY <1>2, <1>4, <1>5, <1>6 DEF Line, Together, Applying
  <2> HIDE DEF d, p
  <2>4. Together(<<Head(d)>>, Tail(d), p) = Together(<<>>, d, p)
    BY <2>1, TakesFirst
  <2> QED BY <2>2, <2>3, <2>4
<1>9. \A f : Due(f)' = Due(f) /\ \A c : Fits(f, c)' = Fits(f, c)
  BY <1>5 DEF Due, Fits
<1>10. Arriving'
  <2> SUFFICES ASSUME NEW f \in Modules, ~Due(f)' PROVE Ends(Line, f)'
    BY DEF Arriving
  <2>1. Ends(Line, f)
    BY <1>1, <1>9 DEF IInv, Arriving
  <2> DEFINE q == Line
  <2>2. q' = q /\ Ends(q, f)
    BY <1>8, <2>1
  <2> HIDE DEF q
  <2>3. Ends(q, f)'
    BY <1>9, <2>2 DEF Ends
  <2> QED BY <2>3 DEF q
<1>11. Arrived'
  <2> SUFFICES ASSUME NEW f \in Modules, ~Due(f)', Silent(Line, f)' PROVE Fits(f, overlay[f])'
    BY DEF Arrived
  <2>1. Silent(Line, f)
    BY <1>8 DEF Silent
  <2>2. Fits(f, overlay[f])
    BY <1>1, <1>6, <1>9, <2>1 DEF IInv, Arrived
  <2> QED BY <1>5, <2>2 DEF Fits
<1>12. Applied'
  BY <1>2 DEF Applied
<1>13. Versions'
  BY <1>1, <1>5, <1>6, <1>8 DEF IInv, Versions
<1>14. Fresh' /\ WatcherOK' /\ SnapshotOK'
  BY <1>5 DEF IInv, Fresh, WatcherOK, SnapshotOK, Due
<1> QED BY <1>1, <1>7, <1>10, <1>11, <1>12, <1>13, <1>14 DEF IInv

(* The message that is applied comes first in the line. *)
LEMMA AppliesFirst ==
  ASSUME TypeOK, NetOK, ~Idle
  PROVE  /\ Connected /\ Here.server = "synced" /\ net.message \in Messages
         /\ Follows(Line, net.message, Here.down \o posted)
         /\ Here.down \o posted \in Seq(Messages) /\ Line \in Seq(Messages)
<1>1. Connected /\ net.message \in Messages
  BY DEF NetOK
<1>2. Here.server = "synced" /\ Here.down \in Seq(Messages) /\ posted \in Seq(Messages)
  BY <1>1, HereType DEF NetOK, TypeOK
<1> DEFINE m == net.message
           o == <<m>>
           d == Here.down
           p == posted
           q == d \o p
<1>3. Line = (o \o d) \o p
  BY <1>2 DEF Line, Applying
<1>4. o \in Seq(Messages) /\ d \in Seq(Messages) /\ p \in Seq(Messages) /\ m \in Messages /\ q \in Seq(Messages)
  BY <1>1, <1>2
<1>5. Len(o) = 1 /\ o[1] = m
  OBVIOUS
<1> HIDE DEF m, o, d, p
<1>6. Line = o \o q
  <2>1. Regroups(o, d, p)
    BY <1>4, Regroup
  <2> QED BY <1>3, <2>1 DEF Regroups
<1>7. Follows(o \o q, m, q) /\ o \o q \in Seq(Messages)
  <2> HIDE DEF q
  <2> DEFINE c == o \o q
  <2>1. c \in Seq(Messages) /\ Len(c) = Len(o) + Len(q)
        /\ \A i \in 1..(Len(o) + Len(q)) : c[i] = IF i <= Len(o) THEN o[i] ELSE q[i - Len(o)]
    BY <1>4, ConcatProperties
  <2>2. Len(q) \in Nat
    BY <1>4
  <2> HIDE DEF c
  <2>3. c[1] = m /\ Len(c) = Len(q) + 1 /\ \A i \in 1..Len(q) : c[i + 1] = q[i]
    BY <1>5, <2>1, <2>2
  <2>4. Follows(c, m, q)
    BY <2>3 DEF Follows
  <2> QED BY <2>1, <2>4 DEF c
<1> QED BY <1>1, <1>2, <1>4, <1>6, <1>7 DEF m, d, p

LEMMA WriteFileKeeps ==
  ASSUME IInv, WriteFile
  PROVE  IInv'
<1> DEFINE m == net.message
           k == net.applying
           g == m.files[k][1]
           b == m.files[k][2]
<1>1. TypeOK /\ NetOK /\ TypeOK' /\ ~Idle
  BY WriteFileType DEF IInv, WriteFile
<1>2. net'.session = net.session /\ net'.applying = k + 1 /\ net'.message = m
      /\ k \in 1..Len(m.files) /\ m \in Messages
  BY <1>1, WriteFileType
<1>3. g \in Modules /\ b \in Content /\ m.files[k] = <<g, b>> /\ Len(m.files) \in Nat
  BY <1>2, MessageFields
<1>4. UNCHANGED <<disk, watcher, snapshot, posted, sessions, version, used>>
      /\ overlay' = [overlay EXCEPT ![g] = b]
  BY DEF WriteFile
<1>5. Connected /\ Connected' /\ ~Idle' /\ Here' = Here /\ Line' = Line /\ Here.server = "synced"
  <2>1. Connected /\ Here.server = "synced" /\ ~Idle /\ ~Idle'
    BY <1>1, <1>2, AppliesFirst DEF Idle, None
  <2> QED BY <1>2, <1>4, <2>1 DEF Connected, Here, Line, Applying
<1>6. NetOK'
  BY <1>1, <1>2, <1>3, <1>4, <1>5 DEF NetOK
<1>7. Leaves(m, g, b) /\ overlay'[g] = b /\ \A f \in Modules : f # g => overlay'[f] = overlay[f]
  BY <1>1, <1>2, <1>3, <1>4 DEF Leaves, TypeOK, Files
<1>8. Applied'
  <2> SUFFICES ASSUME NEW i \in 1..k
               PROVE  Leaves(m, m.files[i][1], overlay'[m.files[i][1]])
    BY <1>2 DEF Applied
  <2>1. m.files[i][1] \in Modules
    BY <1>2, <1>3, MessageFields
  <2>2. CASE m.files[i][1] = g
    BY <1>7, <2>2
  <2>3. CASE m.files[i][1] # g
    <3>1. i \in 1..(k - 1)
      BY <1>2, <1>3, <2>3
    <3>2. Leaves(m, m.files[i][1], overlay[m.files[i][1]])
      BY <1>1, <3>1 DEF IInv, Applied
    <3> QED BY <1>7, <2>1, <2>3, <3>2
  <2> QED BY <2>2, <2>3
<1> HIDE DEF m, k, g, b
<1>9. \A f : Due(f)' = Due(f) /\ \A c : Fits(f, c)' = Fits(f, c)
  BY <1>4 DEF Due, Fits
<1>10. Arriving'
  <2> SUFFICES ASSUME NEW f \in Modules, ~Due(f)' PROVE Ends(Line, f)'
    BY DEF Arriving
  <2>1. Ends(Line, f)
    BY <1>5, <1>9 DEF IInv, Arriving
  <2> DEFINE q == Line
  <2>2. q' = q /\ Ends(q, f)
    BY <1>5, <2>1
  <2> HIDE DEF q
  <2>3. Ends(q, f)'
    BY <1>9, <2>2 DEF Ends
  <2> QED BY <2>3 DEF q
<1>11. Arrived'
  <2> SUFFICES ASSUME NEW f \in Modules, ~Due(f)', Silent(Line, f)' PROVE Fits(f, overlay[f])'
    BY DEF Arrived
  <2>1. Silent(Line, f) /\ ~Due(f)
    BY <1>5, <1>9 DEF Silent
  <2>2. Fits(f, overlay[f])
    BY <1>5, <2>1 DEF IInv, Arrived
  <2> DEFINE q == Line
             r == Here.down \o posted
  <2>3. Follows(q, m, r) /\ r \in Seq(Messages) /\ Silent(q, f)
    BY <1>1, <2>1, AppliesFirst DEF m
  <2> HIDE DEF q, r
  <2>4. ~Touches(m, f)
    BY <2>3, SilentBefore
  <2>5. f # g
    BY <1>7, <2>4 DEF Touches
  <2>6. overlay'[f] = overlay[f]
    BY <1>7, <2>5
  <2> QED BY <1>4, <2>2, <2>6 DEF Fits
<1>12. Versions'
  BY <1>4, <1>5 DEF IInv, Versions
<1>13. Fresh' /\ WatcherOK' /\ SnapshotOK'
  BY <1>4 DEF IInv, Fresh, WatcherOK, SnapshotOK, Due
<1> QED BY <1>1, <1>6, <1>8, <1>10, <1>11, <1>12, <1>13 DEF IInv
LEMMA FinishKeeps ==
  ASSUME IInv, FinishSync
  PROVE  IInv'
<1> DEFINE m == net.message
           q == Here.down \o posted
<1>1. TypeOK /\ NetOK /\ TypeOK' /\ ~Idle
  BY FinishType DEF IInv, FinishSync
<1>2. net'.session = net.session /\ net'.applying = 0 /\ version' = m.version
      /\ net.applying = Len(m.files) + 1 /\ m \in Messages
  BY <1>1, FinishType
<1>3. UNCHANGED <<disk, watcher, snapshot, posted, sessions, used>>
      /\ overlay' = [f \in Modules |-> IF Contains(m.removed, f) THEN NoFile ELSE overlay[f]]
  BY DEF FinishSync
<1>4. Connected /\ Here.server = "synced" /\ Follows(Line, m, q) /\ q \in Seq(Messages)
      /\ Line \in Seq(Messages)
  BY <1>1, AppliesFirst
<1>5. Connected' /\ Idle' /\ Here' = Here
  BY <1>2, <1>3, <1>4 DEF Connected, Idle, Here, None
<1>6. NetOK'
  BY <1>1, <1>2, <1>3, <1>4, <1>5 DEF NetOK
<1>7. Line' = q
  <2>1. Here.down \in Seq(Messages)
    BY <1>1, <1>4, HereType
  <2>2. Line' = (<<>> \o Here.down) \o posted
    BY <1>3, <1>4, <1>5 DEF Line, Applying
  <2>3. <<>> \o Here.down = Here.down
    BY <2>1, ConcatEmptySeq
  <2> QED BY <2>2, <2>3
<1>8. ASSUME NEW f \in Modules, Touches(m, f) PROVE Leaves(m, f, overlay'[f])
  <2>1. CASE Contains(m.removed, f)
    <3>1. \E i \in 1..Len(m.removed) : m.removed[i] = f
      BY <2>1 DEF Contains
    <3>2. overlay'[f] = NoFile
      BY <1>3, <2>1
    <3> QED BY <3>1, <3>2 DEF Leaves
  <2>2. CASE ~Contains(m.removed, f)
    <3>1. overlay'[f] = overlay[f]
      BY <1>3, <2>2
    <3>2. PICK i \in 1..Len(m.files) : \E c : m.files[i] = <<f, c>>
      <4>1. ~\E i \in 1..Len(m.removed) : m.removed[i] = f
        BY <2>2 DEF Contains
      <4> QED BY <1>8, <4>1 DEF Touches, Leaves
    <3>3. m.files[i][1] = f /\ i \in 1..(net.applying - 1)
      BY <1>2, <3>2, MessageFields
    <3>4. Leaves(m, f, overlay[f])
      BY <1>1, <3>3 DEF IInv, Applied
    <3> QED BY <3>1, <3>4
  <2> QED BY <2>1, <2>2
<1>9. ASSUME NEW f \in Modules, ~Touches(m, f) PROVE overlay'[f] = overlay[f]
  <2>1. ~Contains(m.removed, f)
    <3> SUFFICES ASSUME Contains(m.removed, f) PROVE FALSE
      OBVIOUS
    <3>1. Leaves(m, f, NoFile)
      BY DEF Contains, Leaves
    <3> QED BY <1>9, <3>1 DEF Touches
  <2> QED BY <1>3, <2>1
<1> HIDE DEF m, q
<1>10. \A f : Due(f)' = Due(f) /\ \A c : Fits(f, c)' = Fits(f, c)
  BY <1>3 DEF Due, Fits
<1>11. Arriving'
  <2> SUFFICES ASSUME NEW f \in Modules, ~Due(f)' PROVE Ends(Line, f)'
    BY DEF Arriving
  <2> DEFINE r == Line
  <2>1. Ends(r, f) /\ Follows(r, m, q)
    BY <1>4, <1>10 DEF IInv, Arriving
  <2> HIDE DEF r
  <2>2. Ends(q, f)
    BY <1>4, <2>1, EndsAfter
  <2> QED BY <1>7, <1>10, <2>2 DEF Ends
<1>12. Arrived'
  <2> SUFFICES ASSUME NEW f \in Modules, ~Due(f)', Silent(Line, f)' PROVE Fits(f, overlay[f])'
    BY DEF Arrived
  <2>1. Silent(q, f) /\ ~Due(f)
    BY <1>7, <1>10 DEF Silent
  <2> DEFINE r == Line
  <2>2. Follows(r, m, q) /\ Ends(r, f) /\ r \in Seq(Messages)
        /\ (Silent(r, f) => Fits(f, overlay[f]))
    BY <1>4, <2>1 DEF IInv, Arriving, Arrived
  <2> HIDE DEF r
  <2>3. CASE Touches(m, f)
    <3>1. Leaves(r[1], f, overlay'[f]) /\ 1 \in 1..Len(r)
      BY <1>4, <1>8, <2>2, <2>3 DEF Follows
    <3>2. ASSUME NEW j \in 2..Len(r) PROVE ~Touches(r[j], f)
      <4>1. j - 1 \in 1..Len(q) /\ r[j] = q[j - 1]
        BY <1>4, <2>2 DEF Follows
      <4> QED BY <2>1, <4>1 DEF Silent
    <3>3. LastIn(r, f, 1)
      BY <2>2, <2>3, <3>1, <3>2 DEF LastIn, Follows
    <3>4. Fits(f, overlay'[f])
      BY <2>2, <3>1, <3>3 DEF Ends
    <3> QED BY <1>3, <3>4 DEF Fits
  <2>4. CASE ~Touches(m, f)
    <3>1. Silent(r, f)
      BY <1>4, <2>1, <2>2, <2>4, SilentBefore
    <3>2. Fits(f, overlay[f]) /\ overlay'[f] = overlay[f]
      BY <1>9, <2>2, <2>4, <3>1
    <3> QED BY <1>3, <3>2 DEF Fits
  <2> QED BY <2>3, <2>4
<1>13. Applied'
  BY <1>5 DEF Applied
<1>14. Versions'
  <2> SUFFICES ASSUME watcher.at = "idle"
               PROVE  /\ q # <<>> => q[Len(q)].version = watcher.seen
                      /\ q = <<>> => version' = watcher.seen
    BY <1>3, <1>7 DEF Versions
  <2> DEFINE r == Line
  <2>1. Len(r) = Len(q) + 1 /\ r[1] = m /\ (\A i \in 1..Len(q) : r[i + 1] = q[i]) /\ r \in Seq(Messages)
    BY <1>4 DEF Follows
  <2>2. r # <<>> => r[Len(r)].version = watcher.seen
    BY <1>4 DEF IInv, Versions
  <2> HIDE DEF r
  <2>3. Len(q) \in Nat /\ r # <<>>
    BY <1>4, <2>1
  <2>4. q = <<>> => Len(q) = 0
    OBVIOUS
  <2>5. q # <<>> => Len(q) \in 1..Len(q)
    BY <1>4
  <2> QED BY <1>2, <2>1, <2>2, <2>3, <2>4, <2>5
<1>15. Fresh' /\ WatcherOK' /\ SnapshotOK'
  BY <1>3 DEF IInv, Fresh, WatcherOK, SnapshotOK, Due
<1> QED BY <1>1, <1>6, <1>11, <1>12, <1>13, <1>14, <1>15 DEF IInv

---------------------------------------------------------------------------
(* A step that touches nothing but the application's modules. *)
held == <<disk, watcher, snapshot, posted, sessions, net, overlay, version, used>>
LEMMA HeldKeeps ==
  ASSUME IInv, UNCHANGED held
  PROVE  IInv'
<1>1. TypeOK'
  BY DEF IInv, TypeOK, held
<1>2. \A f \in Modules : Due(f)' = Due(f)
  BY DEF Due, held
<1>3. \A f \in Modules : \A c : Fits(f, c) => Fits(f, c)'
  BY DEF Fits, held
<1>4. NetOK' /\ Arriving' /\ Arrived' /\ Applied'
  BY <1>2, <1>3, LineStays DEF held
<1>5. Fresh' /\ WatcherOK' /\ SnapshotOK'
  BY SMTT(40) DEF IInv, Fresh, WatcherOK, SnapshotOK, Due, held
<1>6. Versions'
  BY DEF IInv, Versions, Connected, Line, Here, Applying, Idle, held
<1> QED BY <1>1, <1>4, <1>5, <1>6 DEF IInv

LEMMA InitIInv == Init => IInv
<1> SUFFICES ASSUME Init PROVE IInv
  OBVIOUS
<1>1. TypeOK /\ NetOK
  BY InitType
<1>2. ~Connected /\ Idle
  BY DEF Init, Connected, Idle
<1>3. Arriving /\ Arrived /\ Applied /\ Versions
  BY <1>2 DEF Arriving, Arrived, Applied, Versions
<1>4. Fresh /\ WatcherOK /\ SnapshotOK
  BY FirstType DEF Init, Fresh, WatcherOK, SnapshotOK
<1> QED BY <1>1, <1>3, <1>4 DEF IInv

LEMMA StepIInv == IInv /\ [Next]_vars => IInv'
<1> SUFFICES ASSUME IInv, [Next]_vars PROVE IInv'
  OBVIOUS
<1>1. CASE \E f \in Modules : Save(f) \/ RemoveFile(f)
  BY <1>1, DeveloperKeeps
<1>2. CASE Watch
  BY <1>2, PollKeeps, PublishKeeps, AnnounceKeeps DEF Watch
<1>3. CASE Serve
  BY <1>3, BroadcastKeeps, HelloKeeps, ElsewhereKeeps DEF Serve, DropClient
<1>4. CASE Client
  BY <1>4, ConnectKeeps, ReceiveKeeps, WriteFileKeeps, FinishKeeps DEF Client
<1>5. CASE Lose \/ Crash
  BY <1>5, LoseKeeps, CrashKeeps
<1>6. CASE Reload \/ UNCHANGED vars
  <2>1. UNCHANGED held
    BY <1>6 DEF Reload, vars, held
  <2> QED BY <2>1, HeldKeeps
<1> QED BY <1>1, <1>2, <1>3, <1>4, <1>5, <1>6 DEF Next

THEOREM LineSound == Spec => []IInv
<1>1. Init => IInv
  BY InitIInv
<1>2. IInv /\ [Next]_vars => IInv'
  BY StepIInv
<1> QED BY <1>1, <1>2, PTL DEF Spec

LEMMA AtRest == IInv => InSync
<1> SUFFICES ASSUME IInv, Quiet PROVE overlay = disk /\ version = disk
  BY DEF InSync
<1>1. watcher.at = "idle" /\ watcher.seen = disk /\ posted = <<>> /\ Idle
      /\ Connected /\ Here.server = "synced" /\ Here.down = <<>>
  BY DEF Quiet, Connected, Here
<1>2. Line = <<>>
  <2>1. <<>> \o <<>> = <<>>
    OBVIOUS
  <2> QED BY <1>1, <2>1 DEF Line, Applying
<1>3. version = disk
  BY <1>1, <1>2 DEF IInv, Versions
<1>4. ASSUME NEW f \in Modules PROVE overlay[f] = disk[f]
  <2>1. ~Due(f)
    BY <1>1 DEF Due
  <2>2. Silent(Line, f)
    BY <1>2 DEF Silent
  <2>3. Fits(f, overlay[f])
    BY <1>1, <2>1, <2>2 DEF IInv, Arrived
  <2> QED BY <1>1, <2>3 DEF Fits
<1>5. overlay = disk
  BY <1>4 DEF IInv, TypeOK, Files, Saved
<1> QED BY <1>3, <1>5

(* A connected client at rest has exactly the project's files and says so,   *)
(* after any saves, removals, lost connections and crashes, for any number   *)
(* of them and any modules.                                                  *)
(* (_on_files_changed, _on_hello, _sync_message, _apply_sync)                *)
THEOREM ClientsEndInSync == Spec => []InSync
BY LineSound, AtRest, PTL
---------------------------------------------------------------------------
(* A reload.  Of a set of modules whose files import one another without an  *)
(* error, each one before those that import it (Whole), every one that is    *)
(* imported afterwards is as its file has it, unless the reload ends with an *)
(* error.                                                                    *)

Worlds == [loaded : Files, error : BOOLEAN, reloaded : BOOLEAN]
Before(g, m) == Position(Order, g) < Position(Order, m)
Whole(files, A) ==
  \A m \in A : /\ files[m].n > 0
               /\ \A use \in files[m].needs :
                      use[1] \in A /\ files[use[1]].n >= use[2] /\ Before(use[1], m)

LEMMA PositionIs ==
  /\ Order \in Seq(Modules)
  /\ \A m \in Modules : Position(Order, m) \in 1..Len(Order) /\ Order[Position(Order, m)] = m
  /\ \A i \in 1..Len(Order) : Order[i] \in Modules /\ Position(Order, Order[i]) = i
  /\ Position(Order, Entry) = Len(Order)
<1>1. Order \in Seq(Modules) /\ Modules = {Order[i] : i \in 1..Len(Order)} /\ DOMAIN Order = 1..Len(Order)
      /\ Len(Order) \in Nat \ {0} /\ Entry = Order[Len(Order)]
  BY OrderAssumption DEF Modules, ToSet, Entry, Last
<1>2. \A i, j \in 1..Len(Order) : Order[i] = Order[j] => i = j
  BY <1>1, OrderAssumption DEF IsInjective
<1>3. ASSUME NEW m \in Modules PROVE Position(Order, m) \in 1..Len(Order) /\ Order[Position(Order, m)] = m
  <2>1. \E i \in 1..Len(Order) : Order[i] = m
    BY <1>1
  <2> QED BY <1>1, <2>1 DEF Position
<1>4. ASSUME NEW i \in 1..Len(Order) PROVE Order[i] \in Modules /\ Position(Order, Order[i]) = i
  <2>1. Order[i] \in Modules
    BY <1>1
  <2> QED BY <1>2, <1>3, <2>1
<1> QED BY <1>1, <1>3, <1>4

(* What is imported on the way is nothing else than the files have, and a    *)
(* module of A finds all it imports, if what comes before it is as the files *)
(* have it or not imported yet.                                              *)
LEMMA WantedCloses ==
  ASSUME NEW m \in Modules, NEW loaded, NEW files
  PROVE  /\ m \in Wanted(m, loaded, files)
         /\ \A h \in Wanted(m, loaded, files), u \in Modules :
                u \in Asked(h, loaded, files) => u \in Wanted(m, loaded, files)
BY DEF Wanted

LEMMA PullsAll ==
  ASSUME NEW files \in Files, NEW loaded \in Files, NEW A \in SUBSET Modules, Whole(files, A), NEW x \in A,
         \A g \in A : Before(g, x) => loaded[g] \in {NoFile, files[g]}
  PROVE  Runs(x, loaded, files, Pulled(x, loaded, files))
<1> DEFINE wanted == Wanted(x, loaded, files)
           others == wanted \ {x}
           P == Pulled(x, loaded, files)
           Pending(h) == h \in A /\ h \in wanted /\ loaded[h] = NoFile /\ Before(h, x)
<1>1. ASSUME NEW S \in SUBSET others, \A g \in others : Runs(g, loaded, files, S) => g \in S,
             NEW h0, Pending(h0)
      PROVE  h0 \in S
  <2> DEFINE T == {k \in Nat : \A h : Pending(h) /\ Position(Order, h) <= k => h \in S}
  <2>1. 0 \in T
    BY PositionIs
  <2>2. ASSUME NEW k \in T PROVE k + 1 \in T
    <3> SUFFICES ASSUME NEW h, Pending(h), Position(Order, h) <= k + 1 PROVE h \in S
      OBVIOUS
    <3>1. h \in Modules /\ h \in others /\ files[h].n > 0
      BY PositionIs DEF Whole, Before
    <3>2. ASSUME NEW use \in files[h].needs PROVE Defined(use, loaded, files, S)
      <4> DEFINE u == use[1]
      <4>1. u \in A /\ u \in Modules /\ files[u].n >= use[2] /\ Before(u, h)
        BY DEF Whole
      <4>2. Before(u, x) /\ Position(Order, u) <= k
        BY <3>1, <4>1, PositionIs DEF Before
      <4>3. CASE loaded[u] = NoFile
        <5>1. u \in Asked(h, loaded, files)
          BY <4>3 DEF Asked
        <5>2. u \in wanted
          BY <3>1, <4>1, <5>1, WantedCloses
        <5>3. u \in S
          BY <4>1, <4>2, <4>3, <5>2
        <5> QED BY <4>1, <5>3 DEF Defined
      <4>4. CASE loaded[u] = files[u]
        BY <4>1, <4>4 DEF Defined
      <4> QED BY <4>1, <4>2, <4>3, <4>4
    <3>3. Runs(h, loaded, files, S)
      BY <3>1, <3>2 DEF Runs
    <3> QED BY <1>1, <3>1, <3>3
  <2>3. Position(Order, h0) \in T
    <3>1. T \in SUBSET Nat
      OBVIOUS
    <3>2. h0 \in Modules
      BY <1>1
    <3>3. Position(Order, h0) \in Nat
      BY <3>2, PositionIs
    <3> HIDE DEF T
    <3> QED BY <2>1, <2>2, <3>1, <3>3, NatSetInduction
  <2>4. Position(Order, h0) <= Position(Order, h0)
    <3>1. h0 \in Modules
      BY <1>1
    <3> QED BY <3>1, PositionIs
  <2> QED BY <1>1, <2>3, <2>4
<1>2. ASSUME NEW h, Pending(h) PROVE h \in P
  <2>1. h \in others
    BY <1>2, PositionIs DEF Before
  <2>2. \A S \in SUBSET others : (\A g \in others : Runs(g, loaded, files, S) => g \in S) => h \in S
    <3> HIDE DEF Pending, others
    <3> QED BY <1>1, <1>2
  <2> QED BY <2>1, <2>2 DEF Pulled
<1>3. ASSUME NEW use \in files[x].needs PROVE Defined(use, loaded, files, P)
  <2> DEFINE u == use[1]
  <2>1. u \in A /\ u \in Modules /\ files[u].n >= use[2] /\ Before(u, x)
    BY DEF Whole
  <2>2. CASE loaded[u] = NoFile
    <3>1. u \in Asked(x, loaded, files)
      BY <2>2 DEF Asked
    <3>2. u \in wanted
      BY <2>1, <3>1, WantedCloses
    <3>3. u \in P
      <4> HIDE DEF P, wanted
      <4> QED BY <1>2, <2>1, <2>2, <3>2
    <3> QED BY <2>1, <3>3 DEF Defined
  <2>3. CASE loaded[u] = files[u]
    BY <2>1, <2>3 DEF Defined
  <2> QED BY <2>1, <2>2, <2>3
<1>4. files[x].n > 0
  BY DEF Whole
<1> QED BY <1>3, <1>4 DEF Runs

LEMMA ExecutedLoads ==
  ASSUME NEW s \in Worlds, NEW m \in Modules, NEW changed, NEW files \in Files
  PROVE  LET r == Executed(s, m, changed, files)
             partial == [s.loaded EXCEPT ![m] = NoFile]
         IN  /\ r \in Worlds
             /\ ~r.error => ~s.error
             /\ \A f \in Modules \ {m} : r.loaded[f] \in {s.loaded[f], files[f]}
             /\ r.loaded[m] \in {s.loaded[m], files[m]}
             /\ ~r.error => \/ r.loaded[m] = files[m]
                            \/ /\ ~Contains(changed, m)
                               /\ ~Runs(m, partial, files, Pulled(m, partial, files))
<1> DEFINE partial == [s.loaded EXCEPT ![m] = NoFile]
           pulled == Pulled(m, partial, files)
           after == [f \in Modules |-> IF f \in pulled THEN files[f] ELSE s.loaded[f]]
           now == [after EXCEPT ![m] = files[m]]
           runs == Runs(m, partial, files, pulled)
           b == Contains(changed, m)
           r == Executed(s, m, changed, files)
<1>1. s.loaded \in Files /\ s.error \in BOOLEAN /\ s.reloaded \in BOOLEAN
      /\ s = [loaded |-> s.loaded, error |-> s.error, reloaded |-> s.reloaded] /\ b \in BOOLEAN
  BY DEF Worlds, Contains
<1>2. m \notin pulled
  BY DEF Pulled
<1>3. r = IF s.error THEN s
          ELSE IF runs THEN [s EXCEPT !.loaded = now, !.reloaded = TRUE]
          ELSE [s EXCEPT !.loaded = after, !.error = b]
  BY DEF Executed
<1> HIDE DEF pulled, runs, b, r
<1>4. /\ after \in Files
      /\ \A f \in Modules : after[f] \in {s.loaded[f], files[f]}
      /\ after[m] = s.loaded[m]
  BY <1>1, <1>2 DEF Files
<1> HIDE DEF after
<1>5. /\ now \in Files /\ now[m] = files[m]
      /\ \A f \in Modules \ {m} : now[f] \in {s.loaded[f], files[f]}
  BY <1>4 DEF Files
<1> HIDE DEF now
<1>6. CASE s.error
  <2>1. r = s
    BY <1>3, <1>6
  <2> QED BY <1>6, <2>1 DEF r, partial
<1>7. CASE ~s.error /\ runs
  <2>1. r = [loaded |-> now, error |-> s.error, reloaded |-> TRUE]
    BY <1>1, <1>3, <1>7
  <2>2. r \in Worlds /\ r.loaded = now /\ r.error = s.error
    BY <1>1, <1>5, <2>1 DEF Worlds
  <2> QED BY <1>5, <1>7, <2>2 DEF r, partial
<1>8. CASE ~s.error /\ ~runs
  <2>1. r = [loaded |-> after, error |-> b, reloaded |-> s.reloaded]
    BY <1>1, <1>3, <1>8
  <2>2. r \in Worlds /\ r.loaded = after /\ r.error = b
    BY <1>1, <1>4, <2>1 DEF Worlds
  <2> QED BY <1>4, <1>8, <2>2 DEF r, b, runs, pulled
<1> QED BY <1>6, <1>7, <1>8

RunRow(f, changed, loaded, files, i) ==
  IF i = 0 THEN Unchanged(loaded)
  ELSE Executed(f[i - 1], Targets(changed, loaded)[i], changed, files)
RunTable(f, changed, loaded, files, n) ==
  f = [i \in 0..n |-> RunRow(f, changed, loaded, files, i)]
LEMMA RunTableExists ==
  ASSUME NEW changed, NEW loaded, NEW files, NEW n \in Nat
  PROVE  \E f : RunTable(f, changed, loaded, files, n)
<1> DEFINE T == {k \in Nat : \E f : RunTable(f, changed, loaded, files, k)}
<1>1. 0 \in T
  <2> DEFINE f == [i \in 0..0 |-> Unchanged(loaded)]
  <2>1. f = [i \in 0..0 |-> RunRow(f, changed, loaded, files, i)]
    BY DEF RunRow
  <2> HIDE DEF f
  <2> QED BY <2>1 DEF RunTable
<1>2. ASSUME NEW k \in T PROVE k + 1 \in T
  <2> PICK f : RunTable(f, changed, loaded, files, k)
    BY <1>2
  <2> DEFINE g == [i \in 0..k + 1 |-> RunRow(f, changed, loaded, files, i)]
  <2>1. \A i \in 0..k : f[i] = RunRow(f, changed, loaded, files, i)
    BY DEF RunTable
  <2>2. ASSUME NEW i \in 0..k + 1 PROVE g[i] = RunRow(g, changed, loaded, files, i)
    <3>1. i # 0 => i - 1 \in 0..k /\ g[i - 1] = f[i - 1]
      BY <2>1
    <3>2. g[i] = RunRow(f, changed, loaded, files, i)
      OBVIOUS
    <3> HIDE DEF g
    <3> QED BY <3>1, <3>2 DEF RunRow
  <2>3. g = [i \in 0..k + 1 |-> RunRow(g, changed, loaded, files, i)]
    <3>1. g = [i \in 0..k + 1 |-> g[i]]
      OBVIOUS
    <3> HIDE DEF g
    <3> QED BY <2>2, <3>1
  <2> HIDE DEF g
  <2>4. \E h : RunTable(h, changed, loaded, files, k + 1)
    BY <2>3 DEF RunTable
  <2> QED BY <2>4
<1> HIDE DEF T
<1>3. n \in T
  BY <1>1, <1>2, NatSetInduction DEF T
<1> QED BY <1>3 DEF T

(* Those come in the order of the sequence they are taken from. *)
LEMMA ThoseInOrder ==
  ASSUME NEW S, NEW seq \in Seq(S), NEW A, NEW i \in 1..Len(Those(seq, A))
  PROVE  \E j \in 1..Len(seq) :
             /\ seq[j] = Those(seq, A)[i]
             /\ \A l \in 1..(j - 1) : seq[l] \in A => Among(seq[l], Those(seq, A), i - 1)
<1> DEFINE f == CHOOSE f : ThoseTable(f, seq, A, Len(seq))
           Sorted(k) ==
             /\ f[k] \in Seq(S)
             /\ \A l \in 1..k : seq[l] \in A => Among(seq[l], f[k], Len(f[k]))
             /\ \A h \in 1..Len(f[k]) : \E j \in 1..k :
                    /\ seq[j] = f[k][h]
                    /\ \A l \in 1..(j - 1) : seq[l] \in A => Among(seq[l], f[k], h - 1)
           T == {k \in Nat : k <= Len(seq) => Sorted(k)}
<1>1. ThoseTable(f, seq, A, Len(seq)) /\ Those(seq, A) = f[Len(seq)]
  <2>1. ThoseTable(f, seq, A, Len(seq))
    <3>1. Len(seq) \in Nat
      OBVIOUS
    <3>2. \E g : ThoseTable(g, seq, A, Len(seq))
      BY <3>1, ThoseTableExists
    <3> QED BY <3>2
  <2>2. Those(seq, A) = f[Len(seq)]
    BY DEF Those, ThoseTable, ThoseRow
  <2> QED BY <2>1, <2>2
<1> HIDE DEF f
<1>2. \A k \in 0..Len(seq) : f[k] = ThoseRow(f, seq, A, k)
  BY <1>1 DEF ThoseTable
<1>3. 0 \in T
  <2>1. f[0] = <<>>
    <3>1. 0 \in 0..Len(seq)
      OBVIOUS
    <3> QED BY <1>2, <3>1 DEF ThoseRow
  <2>2. f[0] \in Seq(S) /\ Len(f[0]) = 0
    BY <2>1
  <2> QED BY <2>2
<1>4. ASSUME NEW k \in T PROVE k + 1 \in T
  <2> SUFFICES ASSUME k + 1 <= Len(seq) PROVE Sorted(k + 1)
    OBVIOUS
  <2> DEFINE y == seq[k + 1]
             old == f[k]
             new == f[k + 1]
             n == Len(old)
  <2>1. k \in Nat /\ k + 1 \in 1..Len(seq) /\ y \in S
    OBVIOUS
  <2>2. old \in Seq(S) /\ n \in Nat
        /\ (\A l \in 1..k : seq[l] \in A => Among(seq[l], old, n))
        /\ \A h \in 1..n : \E j \in 1..k :
               /\ seq[j] = old[h]
               /\ \A l \in 1..(j - 1) : seq[l] \in A => Among(seq[l], old, h - 1)
    OBVIOUS
  <2>3. new = IF y \in A THEN Append(old, y) ELSE old
    BY <1>2, <2>1 DEF ThoseRow
  <2> HIDE DEF old, new, n, y
  <2>4. CASE y \notin A
    <3>1. new = old /\ \A l \in 1..k + 1 : seq[l] \in A => l \in 1..k
      BY <2>1, <2>3, <2>4 DEF y
    <3> QED BY <2>1, <2>2, <3>1 DEF new, old, n
  <2>5. CASE y \in A
    <3>1. new \in Seq(S) /\ Len(new) = n + 1 /\ new[n + 1] = y /\ \A h \in 1..n : new[h] = old[h]
      BY <2>1, <2>2, <2>3, <2>5, AppendProperties DEF n
    <3>2. \A z, h : h \in 0..n /\ Among(z, old, h) => Among(z, new, h) /\ Among(z, new, n + 1)
      BY <2>2, <3>1 DEF Among
    <3>3. ASSUME NEW l \in 1..k + 1, seq[l] \in A PROVE Among(seq[l], new, n + 1)
      <4>1. CASE l = k + 1
        <5>1. n + 1 \in 1..n + 1 /\ new[n + 1] = seq[l]
          BY <2>2, <3>1, <4>1 DEF y
        <5>2. Among(new[n + 1], new, n + 1)
          BY <5>1 DEF Among
        <5> QED BY <5>1, <5>2
      <4>2. CASE l \in 1..k
        <5>1. n \in 0..n /\ Among(seq[l], old, n)
          BY <2>2, <3>3, <4>2
        <5> QED BY <3>2, <5>1
      <4> QED BY <2>1, <4>1, <4>2
    <3>4. ASSUME NEW h \in 1..n + 1
          PROVE  \E j \in 1..k + 1 :
                     /\ seq[j] = new[h]
                     /\ \A l \in 1..(j - 1) : seq[l] \in A => Among(seq[l], new, h - 1)
      <4>1. CASE h = n + 1
        <5>1. k + 1 \in 1..k + 1 /\ seq[k + 1] = new[h] /\ (k + 1) - 1 = k /\ h - 1 = n /\ n \in 0..n
          BY <2>1, <2>2, <3>1, <4>1 DEF y
        <5>2. \A l \in 1..k : seq[l] \in A => Among(seq[l], new, n)
          BY <2>2, <3>2, <5>1
        <5> QED BY <5>1, <5>2
      <4>2. CASE h \in 1..n
        <5> PICK j \in 1..k : seq[j] = old[h]
                              /\ \A l \in 1..(j - 1) : seq[l] \in A => Among(seq[l], old, h - 1)
          BY <2>2, <4>2
        <5>1. j \in 1..k + 1 /\ seq[j] = new[h] /\ h - 1 \in 0..n
          BY <2>1, <2>2, <3>1, <4>2
        <5> QED BY <3>2, <5>1
      <4> QED BY <2>2, <4>1, <4>2
    <3> QED BY <3>1, <3>3, <3>4 DEF new
  <2> QED BY <2>4, <2>5
<1>5. Len(seq) \in T
  <2> HIDE DEF T
  <2>1. T \in SUBSET Nat
    BY DEF T
  <2> QED BY <1>3, <1>4, <2>1, NatSetInduction
<1>6. Sorted(Len(seq))
  <2>1. Len(seq) \in Nat /\ Len(seq) <= Len(seq)
    OBVIOUS
  <2> HIDE DEF Sorted
  <2> QED BY <1>5, <2>1
<1> QED BY <1>1, <1>6

(* The entry module is executed last, after every other that was imported,   *)
(* and one that was not changed after the imported ones that come before it. *)
LEMMA TargetsAre ==
  ASSUME NEW changed \in Seq(Modules), NEW loaded
  PROVE  LET order == Targets(changed, loaded)
         IN  /\ order \in Seq(Modules) /\ Len(order) \in Nat \ {0} /\ order[Len(order)] = Entry
             /\ \A i \in 1..(Len(order) - 1) : order[i] \in Modules \ {Entry}
             /\ \A m \in Modules \ {Entry} : loaded[m] # NoFile => Among(m, order, Len(order) - 1)
             /\ \A i \in 1..Len(order) : ~Contains(changed, order[i]) =>
                    \A g \in Modules : loaded[g] # NoFile /\ Before(g, order[i]) => Among(g, order, i - 1)
<1> DEFINE imported == {m \in Modules \ {Entry} : loaded[m] # NoFile}
           others == imported \ ToSet(changed)
           a == Those(changed, imported)
           b == Those(Order, others)
           c == a \o b
<1>1. Order \in Seq(Modules) /\ \A m \in Modules : Among(m, Order, Len(Order))
  BY OrderAssumption DEF Modules, ToSet, Among
<1>2. a \in Seq(Modules) /\ \A x : Among(x, a, Len(a)) <=> x \in imported /\ Among(x, changed, Len(changed))
  <2> HIDE DEF imported
  <2> QED BY ThoseAre
<1>3. b \in Seq(Modules) /\ \A x : Among(x, b, Len(b)) <=> x \in others /\ Among(x, Order, Len(Order))
  <2> HIDE DEF others
  <2> QED BY <1>1, ThoseAre
<1>4. \A x : Among(x, changed, Len(changed)) <=> x \in ToSet(changed)
  BY DEF Among, ToSet
<1>5. \A x : x \in imported => Among(x, a, Len(a)) \/ Among(x, b, Len(b))
  BY <1>1, <1>2, <1>3, <1>4
<1>6. Targets(changed, loaded) = Append(c, Entry)
  BY DEF Targets, Imported
<1>14. \A x \in imported : Contains(changed, x) => Among(x, a, Len(a))
  BY <1>2 DEF Contains, Among
<1>15. \A x \in imported : ~Contains(changed, x) => x \in others
  BY DEF Contains, ToSet
<1>16. ASSUME NEW i \in 1..Len(a) PROVE Contains(changed, a[i])
  <2>1. Among(a[i], a, Len(a))
    BY DEF Among
  <2> QED BY <1>2, <2>1 DEF Among, Contains
<1>17. ASSUME NEW i \in 1..Len(b), NEW g \in others, Before(g, b[i]) PROVE Among(g, b, i - 1)
  <2> PICK j \in 1..Len(Order) : Order[j] = b[i]
                                /\ \A l \in 1..(j - 1) : Order[l] \in others => Among(Order[l], b, i - 1)
    <3> HIDE DEF others
    <3> QED BY <1>1, ThoseInOrder
  <2>1. g \in Modules /\ Position(Order, g) \in 1..(j - 1) /\ Order[Position(Order, g)] = g
    BY <1>17, PositionIs DEF Before
  <2> QED BY <2>1
<1> HIDE DEF a, b, others
<1>7. c \in Seq(Modules) /\ Len(c) = Len(a) + Len(b) /\ Len(a) \in Nat /\ Len(b) \in Nat
      /\ \A i \in 1..(Len(a) + Len(b)) : c[i] = IF i <= Len(a) THEN a[i] ELSE b[i - Len(a)]
  BY <1>2, <1>3, ConcatProperties
<1> HIDE DEF c
<1>8. \A i \in 1..Len(c) : c[i] \in imported
  <2> SUFFICES ASSUME NEW i \in 1..Len(c) PROVE c[i] \in imported
    OBVIOUS
  <2>1. CASE i <= Len(a)
    <3>1. i \in 1..Len(a) /\ c[i] = a[i]
      BY <1>7, <2>1
    <3>2. Among(c[i], a, Len(a))
      BY <3>1 DEF Among
    <3> QED BY <1>2, <3>2
  <2>2. CASE ~(i <= Len(a))
    <3>1. i - Len(a) \in 1..Len(b) /\ c[i] = b[i - Len(a)]
      BY <1>7, <2>2
    <3>2. Among(c[i], b, Len(b))
      BY <3>1 DEF Among
    <3> QED BY <1>3, <3>2 DEF others
  <2> QED BY <2>1, <2>2
<1>9. \A x : x \in imported => Among(x, c, Len(c))
  <2> SUFFICES ASSUME NEW x \in imported PROVE Among(x, c, Len(c))
    OBVIOUS
  <2>1. CASE Among(x, a, Len(a))
    <3> PICK i \in 1..Len(a) : a[i] = x
      BY <2>1 DEF Among
    <3>1. i \in 1..Len(c) /\ c[i] = x
      BY <1>7
    <3> QED BY <3>1 DEF Among
  <2>2. CASE Among(x, b, Len(b))
    <3> PICK i \in 1..Len(b) : b[i] = x
      BY <2>2 DEF Among
    <3> DEFINE j == i + Len(a)
    <3>1. j \in 1..(Len(a) + Len(b)) /\ ~(j <= Len(a)) /\ j - Len(a) = i
      BY <1>7
    <3> HIDE DEF j
    <3>2. j \in 1..Len(c) /\ c[j] = x
      BY <1>7, <3>1
    <3> QED BY <3>2 DEF Among
  <2> QED BY <1>5, <2>1, <2>2
<1> DEFINE order == Append(c, Entry)
<1>10. order \in Seq(Modules) /\ Len(order) = Len(c) + 1 /\ order[Len(c) + 1] = Entry
       /\ (\A i \in 1..Len(c) : order[i] = c[i]) /\ Len(c) \in Nat
  <2> DEFINE e == Entry
  <2>1. e \in Modules /\ order = Append(c, e)
    BY EntryIn
  <2> HIDE DEF e, order
  <2>2. order \in Seq(Modules) /\ Len(order) = Len(c) + 1 /\ order[Len(c) + 1] = e
        /\ (\A i \in 1..Len(c) : order[i] = c[i]) /\ Len(c) \in Nat
    <3>1. c \in Seq(Modules) /\ Len(c) \in Nat
      BY <1>7
    <3>2. Append(c, e) \in Seq(Modules)
      BY <2>1, <3>1
    <3>3. Len(Append(c, e)) = Len(c) + 1 /\ Append(c, e)[Len(c) + 1] = e
          /\ \A i \in 1..Len(c) : Append(c, e)[i] = c[i]
      BY <2>1, <3>1, AppendProperties
    <3> QED BY <2>1, <3>1, <3>2, <3>3
  <2> QED BY <2>2 DEF e
<1> HIDE DEF order
<1>11. Len(order) \in Nat \ {0} /\ order[Len(order)] = Entry /\ Len(order) - 1 = Len(c)
  BY <1>10
<1>12. \A i \in 1..(Len(order) - 1) : order[i] \in Modules \ {Entry}
  BY <1>8, <1>10, <1>11
<1>13. \A m \in imported : Among(m, order, Len(order) - 1)
  BY <1>9, <1>10, <1>11 DEF Among
<1>18. ASSUME NEW i \in 1..Len(order), ~Contains(changed, order[i]), NEW g \in Modules,
              loaded[g] # NoFile, Before(g, order[i])
       PROVE  Among(g, order, i - 1)
  <2>1. order[i] \in Modules /\ g # Entry /\ g \in imported
    <3>1. order[i] \in Modules
      BY <1>10
    <3>2. Position(Order, order[i]) <= Len(Order) /\ Position(Order, Entry) = Len(Order)
          /\ Len(Order) \in Nat /\ Position(Order, order[i]) \in Nat
      BY <3>1, PositionIs
    <3>3. g # Entry
      BY <1>18, <3>2 DEF Before
    <3> QED BY <1>18, <3>1, <3>3
  <2>2. CASE i = Len(order)
    BY <1>11, <1>13, <2>1, <2>2
  <2>3. CASE i # Len(order)
    <3>1. i \in 1..Len(c) /\ order[i] = c[i] /\ i \in 1..(Len(a) + Len(b))
      BY <1>7, <1>10, <1>11, <2>3
    <3>2. ~(i <= Len(a))
      BY <1>7, <1>16, <1>18, <3>1
    <3>3. i - Len(a) \in 1..Len(b) /\ order[i] = b[i - Len(a)]
      BY <1>7, <3>1, <3>2
    <3>4. \A l \in 1..Len(a) : order[l] = a[l] /\ l \in 1..(i - 1)
      BY SMTT(40), <1>7, <1>10, <3>1, <3>2
    <3>5. \A l \in 1..(i - Len(a) - 1) : order[l + Len(a)] = b[l] /\ l + Len(a) \in 1..(i - 1)
      <4> SUFFICES ASSUME NEW l \in 1..(i - Len(a) - 1)
                   PROVE  order[l + Len(a)] = b[l] /\ l + Len(a) \in 1..(i - 1)
        OBVIOUS
      <4>1. l + Len(a) \in 1..(i - 1) /\ l + Len(a) \in 1..Len(c) /\ ~(l + Len(a) <= Len(a))
            /\ (l + Len(a)) - Len(a) = l
        BY SMTT(40), <1>7, <3>1, <3>2
      <4> DEFINE q == l + Len(a)
      <4>2. order[q] = c[q] /\ c[q] = b[q - Len(a)]
        <5> HIDE DEF q
        <5>1. q \in 1..Len(c) /\ q \in 1..(Len(a) + Len(b)) /\ ~(q <= Len(a))
          BY <1>7, <4>1 DEF q
        <5> QED BY <1>7, <1>10, <5>1
      <4> QED BY <4>1, <4>2
    <3>6. CASE Contains(changed, g)
      BY <1>14, <2>1, <3>4, <3>6 DEF Among
    <3>7. CASE ~Contains(changed, g)
      <4>1. Among(g, b, i - Len(a) - 1)
        <5>1. g \in others
          BY <1>15, <2>1, <3>7
        <5>2. Before(g, b[i - Len(a)])
          BY <1>18, <3>3
        <5> DEFINE q == i - Len(a)
        <5>3. q \in 1..Len(b) /\ Before(g, b[q])
          BY <3>3, <5>2
        <5> HIDE DEF q
        <5>4. Among(g, b, q - 1)
          BY <1>17, <5>1, <5>3
        <5> QED BY <5>4 DEF q
      <4> QED BY <3>5, <4>1 DEF Among
    <3> QED BY <3>6, <3>7
  <2> QED BY <2>2, <2>3
<1> QED BY <1>6, <1>10, <1>11, <1>12, <1>13, <1>18 DEF order

(* What the reload has done after its first k modules: those of A are loaded *)
(* as the files have them, and none that was not imported is loaded in       *)
(* another way.                                                              *)
Half(s, order, loaded, files, A, k) ==
  \A m \in A : /\ Among(m, order, k) => s.loaded[m] = files[m]
               /\ loaded[m] = NoFile => s.loaded[m] \in {NoFile, files[m]}
LEMMA HalfStep ==
  ASSUME NEW s \in Worlds, NEW x \in Modules, NEW changed, NEW files \in Files,
         NEW A \in SUBSET Modules, Whole(files, A),
         NEW order, NEW loaded \in Files, NEW k \in Nat, order[k + 1] = x,
         ~Contains(changed, x) =>
             \A g \in Modules : loaded[g] # NoFile /\ Before(g, x) => Among(g, order, k),
         ~s.error => Half(s, order, loaded, files, A, k),
         ~Executed(s, x, changed, files).error
  PROVE  Half(Executed(s, x, changed, files), order, loaded, files, A, k + 1)
<1> DEFINE r == Executed(s, x, changed, files)
           partial == [s.loaded EXCEPT ![x] = NoFile]
           runs == Runs(x, partial, files, Pulled(x, partial, files))
<1>1. /\ ~s.error /\ s.loaded \in Files
      /\ \A f \in Modules \ {x} : r.loaded[f] \in {s.loaded[f], files[f]}
      /\ r.loaded[x] = files[x] \/ (~Contains(changed, x) /\ ~runs)
  BY ExecutedLoads DEF Worlds
<1> HIDE DEF r
<1>2. Half(s, order, loaded, files, A, k)
  BY <1>1
<1>3. x \in A => r.loaded[x] = files[x]
  <2> SUFFICES ASSUME x \in A, ~Contains(changed, x) PROVE runs
    BY <1>1
  <2>1. partial \in Files
    BY <1>1 DEF Files
  <2>2. ASSUME NEW g \in A, Before(g, x) PROVE partial[g] \in {NoFile, files[g]}
    <3>1. g # x
      <4>1. Position(Order, x) \in Nat
        BY PositionIs
      <4> QED BY <2>2, <4>1 DEF Before
    <3>2. partial[g] = s.loaded[g]
      BY <1>1, <3>1 DEF Files
    <3>3. s.loaded[g] \in {NoFile, files[g]}
      <4>1. CASE loaded[g] = NoFile
        BY <1>2, <4>1 DEF Half
      <4>2. CASE loaded[g] # NoFile
        <5>1. Among(g, order, k)
          BY <2>2, <4>2
        <5> QED BY <1>2, <5>1 DEF Half
      <4> QED BY <4>1, <4>2
    <3> QED BY <3>2, <3>3
  <2> HIDE DEF partial
  <2> QED BY <2>1, <2>2, PullsAll
<1>4. ASSUME NEW m \in A
      PROVE  /\ Among(m, order, k + 1) => r.loaded[m] = files[m]
             /\ loaded[m] = NoFile => r.loaded[m] \in {NoFile, files[m]}
  <2>1. CASE m = x
    BY <1>3, <2>1
  <2>2. CASE m # x
    <3>1. r.loaded[m] \in {s.loaded[m], files[m]}
      BY <1>1, <2>2
    <3>2. Among(m, order, k + 1) => Among(m, order, k)
      BY <2>2 DEF Among
    <3> QED BY <1>2, <3>1, <3>2 DEF Half
  <2> QED BY <2>1, <2>2
<1> QED BY <1>4 DEF Half, r

LEMMA ReloadedLoads ==
  ASSUME NEW changed \in Seq(Modules), NEW loaded \in Files, NEW files \in Files
  PROVE  LET r == Reloaded(changed, loaded, files)
         IN  /\ r \in Worlds
             /\ ~r.error => \A A \in SUBSET Modules : Whole(files, A) =>
                    \A m \in A : r.loaded[m] \in {NoFile, files[m]}
<1> DEFINE order == Targets(changed, loaded)
           n == Len(order)
           f == CHOOSE f : RunTable(f, changed, loaded, files, n)
<1>1. /\ n \in Nat \ {0} /\ order[n] = Entry
      /\ \A i \in 1..n : order[i] \in Modules
      /\ \A m \in Modules \ {Entry} : loaded[m] # NoFile => Among(m, order, n - 1)
      /\ \A i \in 1..n : ~Contains(changed, order[i]) =>
             \A g \in Modules : loaded[g] # NoFile /\ Before(g, order[i]) => Among(g, order, i - 1)
  BY TargetsAre
<1>2. RunTable(f, changed, loaded, files, n) /\ Reloaded(changed, loaded, files) = f[n]
  <2>1. RunTable(f, changed, loaded, files, n)
    BY <1>1, RunTableExists
  <2>2. Reloaded(changed, loaded, files) = f[n]
    BY DEF Reloaded, Run, RunTable, RunRow
  <2> QED BY <2>1, <2>2
<1> HIDE DEF f, order, n
<1>3. /\ f[0] = Unchanged(loaded)
      /\ \A i \in 1..n : f[i] = Executed(f[i - 1], order[i], changed, files)
  <2>1. \A i \in 0..n : f[i] = RunRow(f, changed, loaded, files, i)
    BY <1>2 DEF RunTable
  <2>2. 0 \in 0..n /\ \A i \in 1..n : i \in 0..n /\ i # 0
    BY <1>1
  <2> QED BY <2>1, <2>2 DEF RunRow, order
<1> DEFINE Right(k) == /\ f[k] \in Worlds
                       /\ ~f[k].error => \A A \in SUBSET Modules : Whole(files, A) =>
                              Half(f[k], order, loaded, files, A, k)
           T == {k \in Nat : k <= n => Right(k)}
<1>4. 0 \in T
  <2>1. f[0] \in Worlds /\ f[0].loaded = loaded
    BY <1>3 DEF Worlds, Unchanged
  <2>2. \A m : ~Among(m, order, 0)
    BY DEF Among
  <2>3. \A A \in SUBSET Modules : Half(f[0], order, loaded, files, A, 0)
    BY <2>1, <2>2 DEF Half
  <2> QED BY <2>1, <2>3
<1>5. ASSUME NEW k \in T PROVE k + 1 \in T
  <2> SUFFICES ASSUME k + 1 <= n PROVE Right(k + 1)
    OBVIOUS
  <2>1. k \in Nat /\ k + 1 \in 1..n /\ Right(k) /\ (k + 1) - 1 = k
    BY <1>1
  <2> DEFINE s == f[k]
             x == order[k + 1]
             r == Executed(s, x, changed, files)
  <2>2. s \in Worlds /\ x \in Modules
    BY <1>1, <2>1
  <2>3. f[k + 1] = r
    BY <1>3, <2>1
  <2>4. ~Contains(changed, x) =>
            \A g \in Modules : loaded[g] # NoFile /\ Before(g, x) => Among(g, order, k)
    BY <1>1, <2>1
  <2>5. ~s.error => \A A \in SUBSET Modules : Whole(files, A) => Half(s, order, loaded, files, A, k)
    BY <2>1
  <2>6. order[k + 1] = x
    OBVIOUS
  <2> HIDE DEF s, x
  <2>7. r \in Worlds
    BY <2>2, ExecutedLoads
  <2>8. ASSUME ~r.error, NEW A \in SUBSET Modules, Whole(files, A)
        PROVE  Half(r, order, loaded, files, A, k + 1)
    <3>1. ~s.error => Half(s, order, loaded, files, A, k)
      BY <2>5, <2>8
    <3> QED BY <2>1, <2>2, <2>4, <2>6, <2>8, <3>1, HalfStep
  <2> HIDE DEF r
  <2> QED BY <2>3, <2>7, <2>8
<1>6. Right(n)
  <2> HIDE DEF T, Right
  <2>1. T \in SUBSET Nat
    BY DEF T
  <2>2. n \in T /\ n \in Nat
    BY <1>1, <1>4, <1>5, <2>1, NatSetInduction
  <2>3. n <= n
    BY <2>2
  <2> QED BY <2>2, <2>3 DEF T
<1> DEFINE r == f[n]
<1>7. ASSUME ~r.error, NEW A \in SUBSET Modules, Whole(files, A), NEW m \in A
      PROVE  r.loaded[m] \in {NoFile, files[m]}
  <2>1. Half(r, order, loaded, files, A, n)
    BY <1>6, <1>7
  <2>2. CASE loaded[m] = NoFile
    BY <2>1, <2>2 DEF Half
  <2>3. CASE m = Entry \/ loaded[m] # NoFile
    <3>1. Among(m, order, n)
      <4>1. CASE m = Entry
        BY <1>1, <4>1 DEF Among
      <4>2. CASE m # Entry
        <5>1. Among(m, order, n - 1)
          BY <1>1, <2>3, <4>2
        <5>2. \A i \in 1..(n - 1) : i \in 1..n
          BY <1>1
        <5> QED BY <5>1, <5>2 DEF Among
      <4> QED BY <4>1, <4>2
    <3> QED BY <2>1, <3>1 DEF Half
  <2> QED BY <2>2, <2>3
<1>8. r \in Worlds
  BY <1>6
<1> HIDE DEF r
<1>9. Reloaded(changed, loaded, files) = r
  BY <1>2 DEF r
<1> QED BY <1>7, <1>8, <1>9
---------------------------------------------------------------------------
(* What is imported on the device is as its files have it, or it is about to *)
(* be reloaded, or an error is shown, or no screen is mounted, or the files  *)
(* import one another with an error or against the order of the reload.      *)
AppType == app \in [loaded : Files, mounted : BOOLEAN, error : BOOLEAN, reloads : Seq(Seq(Modules))]
Underway == app.reloads # <<>> \/ (~Idle /\ Written(net.message) # <<>>)
Current == \A m \in Modules :
    overlay[m] # NoFile /\ app.loaded[m] # NoFile => app.loaded[m] = overlay[m]
CodeRuns == app.mounted /\ ~app.error /\ ~Underway /\ Consistent(overlay) /\ InOrder(overlay) => Current
CInv == IInv /\ AppType /\ CodeRuns

LEMMA WrittenType ==
  ASSUME NEW m \in Messages
  PROVE  /\ Written(m) \in Seq(Modules)
         /\ Written(m) = <<>> <=> Len(m.files) = 0 /\ Len(m.removed) = 0
<1> DEFINE a == [i \in DOMAIN m.files |-> m.files[i][1]]
           b == m.removed
<1>1. a \in Seq(Modules) /\ Len(a) = Len(m.files)
  BY MessageFields
<1>2. b \in Seq(Modules)
  <2>1. b \in Seq(Parts) /\ Parts \subseteq Modules
    BY MessageFields DEF Parts
  <2> QED BY <2>1
<1>3. Written(m) = a \o b
  BY DEF Written
<1> HIDE DEF a
<1>4. a \o b \in Seq(Modules) /\ Len(a \o b) = Len(a) + Len(b) /\ Len(a) \in Nat /\ Len(b) \in Nat
  <2> HIDE DEF b
  <2>1. a \in Seq(Modules) /\ b \in Seq(Modules)
    BY <1>1, <1>2
  <2> QED BY <2>1
<1> DEFINE c == a \o b
<1>5. c = <<>> <=> Len(c) = 0
  <2>1. c \in Seq(Modules)
    BY <1>4
  <2> HIDE DEF c
  <2> QED BY <2>1
<1> QED BY <1>1, <1>3, <1>4, <1>5

LEMMA FoundType ==
  ASSUME NEW files \in Files
  PROVE  Found(files) \in Files /\ \A m \in Modules : files[m] # NoFile => Found(files)[m] = files[m]
<1>1. First \in Files
  BY FirstType, SavedFiles
<1> QED BY <1>1 DEF Found, Files

LEMMA FilesWhole ==
  ASSUME NEW files \in Files, Consistent(files), InOrder(files)
  PROVE  Whole(Found(files), {m \in Modules : files[m] # NoFile})
<1> DEFINE A == {m \in Modules : files[m] # NoFile}
<1>1. \A m \in A : Found(files)[m] = files[m]
  BY FoundType
<1>2. ASSUME NEW m \in A
      PROVE  /\ files[m].n > 0
             /\ \A use \in files[m].needs : use[1] \in A /\ files[use[1]].n >= use[2] /\ Before(use[1], m)
  <2>1. Runs(m, files, files, {})
    BY DEF Consistent
  <2>2. files[m].n > 0 /\ \A use \in files[m].needs : files[use[1]].n >= use[2]
    BY <2>1 DEF Runs, Defined
  <2>3. files[m] \in Content
    BY <2>2 DEF Files, TornFile
  <2>4. ASSUME NEW use \in files[m].needs PROVE use[1] \in A /\ Before(use[1], m)
    <3>1. use[1] \in Modules /\ use[2] \in Nat \ {0}
      BY <2>3 DEF Content
    <3>2. files[use[1]] # NoFile
      BY <2>2, <3>1, ContentN
    <3> DEFINE i == Position(Order, m)
    <3>3. i \in 1..Len(Order) /\ Order[i] = m /\ DOMAIN Order = 1..Len(Order)
      BY PositionIs
    <3>4. PICK j \in 1..(i - 1) : Order[j] = use[1]
      BY <3>3 DEF InOrder
    <3>5. j \in 1..Len(Order) /\ j < i
      BY <3>3
    <3>6. Position(Order, use[1]) = j
      BY <3>4, <3>5, PositionIs
    <3> QED BY <3>1, <3>2, <3>5, <3>6 DEF Before
  <2> QED BY <2>2, <2>4
<1> HIDE DEF A
<1>3. \A m \in A : \A use \in files[m].needs : use[1] \in A
  BY <1>2
<1> QED BY <1>1, <1>2, <1>3 DEF Whole, A

(* A process that starts imports nothing else than it finds. *)
LEMMA StartedType ==
  ASSUME NEW files \in Files, NEW a, a = Started(files)
  PROVE  /\ a \in [loaded : Files, mounted : BOOLEAN, error : BOOLEAN, reloads : Seq(Seq(Modules))]
         /\ \A m \in Modules : a.loaded[m] \in {NoFile, Found(files)[m]}
<1> DEFINE none == [m \in Modules |-> NoFile]
           s == Unchanged(none)
           r == Executed(s, Entry, <<Entry>>, Found(files))
<1>1. none \in Files /\ \A m \in Modules : none[m] = NoFile
  BY DEF Files
<1> HIDE DEF none
<1>2. s \in Worlds /\ s.loaded = none
  BY <1>1 DEF Unchanged, Worlds
<1> HIDE DEF s
<1>3. /\ r \in Worlds
      /\ \A f \in Modules \ {Entry} : r.loaded[f] \in {s.loaded[f], Found(files)[f]}
      /\ r.loaded[Entry] \in {s.loaded[Entry], Found(files)[Entry]}
  BY <1>2, EntryIn, FoundType, ExecutedLoads
<1>4. a = [loaded |-> r.loaded, mounted |-> ~r.error, error |-> FALSE, reloads |-> <<>>]
  BY DEF Started, none, s
<1> HIDE DEF r
<1>5. r.loaded \in Files /\ r.error \in BOOLEAN
  BY <1>3 DEF Worlds
<1>6. <<>> \in Seq(Seq(Modules))
  OBVIOUS
<1>7. \A m \in Modules : r.loaded[m] \in {NoFile, Found(files)[m]}
  BY <1>1, <1>2, <1>3
<1> QED BY <1>4, <1>5, <1>6, <1>7

LEMMA InitCode == Init => CInv
<1> SUFFICES ASSUME Init PROVE CInv
  OBVIOUS
<1>1. IInv
  BY InitIInv
<1>2. overlay \in Files /\ app = Started(overlay)
  BY FirstType, SavedFiles DEF Init
<1>3. AppType
  BY <1>2, StartedType DEF AppType
<1>4. Current
  BY <1>2, StartedType, FoundType DEF Current
<1> QED BY <1>1, <1>3, <1>4 DEF CInv, CodeRuns

LEMMA CodeStays ==
  ASSUME CInv, UNCHANGED <<app, overlay, net>>
  PROVE  AppType' /\ CodeRuns'
BY DEF CInv, AppType, CodeRuns, Current, Underway, Idle

LEMMA ClientCode ==
  ASSUME CInv, Client
  PROVE  AppType' /\ CodeRuns'
<1>1. TypeOK /\ NetOK /\ AppType /\ CodeRuns
  BY DEF CInv, IInv
<1>2. CASE Connect
  <2>1. Idle /\ net'.applying = 0 /\ UNCHANGED <<app, overlay>>
    BY <1>1, <1>2, ConnectType DEF Connect
  <2>2. Idle'
    BY <2>1 DEF Idle, None
  <2> QED BY <1>1, <2>1, <2>2 DEF AppType, CodeRuns, Current, Underway
<1>3. CASE Receive
  <2>1. Idle /\ UNCHANGED <<app, overlay>>
    BY <1>3 DEF Receive
  <2> QED BY <1>1, <2>1 DEF AppType, CodeRuns, Current, Underway
<1>4. CASE WriteFile
  <2> DEFINE k == net.applying
             g == net.message.files[k][1]
             b == net.message.files[k][2]
  <2>1. net'.applying = k + 1 /\ net'.message = net.message /\ net.message \in Messages
        /\ k \in 1..Len(net.message.files)
    BY <1>1, <1>4, WriteFileType
  <2>2. g \in Modules /\ b \in Content /\ Len(net.message.files) \in Nat
    BY <2>1, MessageFields
  <2>3. overlay' = [overlay EXCEPT ![g] = b] /\ app' = app
    BY <1>4 DEF WriteFile
  <2>4. Underway'
    <3>1. ~Idle'
      BY <2>1 DEF Idle, None
    <3>2. Written(net.message) # <<>>
      BY <2>1, <2>2, WrittenType
    <3> QED BY <2>1, <3>1, <3>2 DEF Underway
  <2> HIDE DEF k, g, b
  <2> QED BY <1>1, <2>3, <2>4 DEF AppType, CodeRuns
<1>5. CASE FinishSync
  <2> DEFINE m == net.message
             w == Written(m)
  <2>1. m \in Messages /\ net'.applying = 0
    BY <1>1, <1>5, FinishType
  <2>2. w \in Seq(Modules) /\ (w = <<>> => Len(m.removed) = 0) /\ m.removed \in Seq(Parts)
    BY <2>1, WrittenType, MessageFields
  <2>3. overlay' = [f \in Modules |-> IF Contains(m.removed, f) THEN NoFile ELSE overlay[f]]
        /\ app' = (IF w = <<>> THEN app ELSE [app EXCEPT !.reloads = Append(@, w)]) /\ ~Idle
    BY <1>5 DEF FinishSync
  <2>6. w = <<>> => overlay' = overlay
    <3> SUFFICES ASSUME w = <<>> PROVE overlay' = overlay
      OBVIOUS
    <3>1. \A f : ~Contains(m.removed, f)
      BY <2>2 DEF Contains
    <3> QED BY <1>1, <2>3, <3>1 DEF TypeOK, Files
  <2>7. app'.mounted = app.mounted /\ AppType' /\ (w = <<>> => app' = app) /\ (w # <<>> => app'.reloads # <<>>)
    <3> HIDE DEF w
    <3>1. CASE w = <<>>
      BY <1>1, <2>3, <3>1 DEF AppType
    <3>2. CASE w # <<>>
      <4> DEFINE q == Append(app.reloads, w)
      <4>1. app.reloads \in Seq(Seq(Modules))
        BY <1>1 DEF AppType
      <4>2. q \in Seq(Seq(Modules)) /\ q # <<>>
        BY <2>2, <4>1
      <4>3. app' = [app EXCEPT !.reloads = q]
        BY <2>3, <3>2
      <4> HIDE DEF q
      <4>4. app'.mounted = app.mounted /\ app'.reloads = q /\ AppType'
        BY <1>1, <4>2, <4>3 DEF AppType
      <4> QED BY <3>2, <4>2, <4>4
    <3> QED BY <3>1, <3>2
  <2>9. CodeRuns'
    <3>1. CASE w = <<>>
      BY <1>1, <2>3, <2>6, <2>7, <3>1 DEF CodeRuns, Current, Underway
    <3>2. CASE w # <<>>
      BY <2>7, <3>2 DEF CodeRuns, Underway
    <3> QED BY <3>1, <3>2
  <2> QED BY <2>7, <2>9
<1> QED BY <1>2, <1>3, <1>4, <1>5 DEF Client

LEMMA ReloadCode ==
  ASSUME CInv, Reload
  PROVE  AppType' /\ CodeRuns'
<1> DEFINE h == Head(app.reloads)
           t == Tail(app.reloads)
           files == Found(overlay)
           A == {m \in Modules : overlay[m] # NoFile}
           r == Reloaded(h, app.loaded, files)
           error == IF r.error \/ r.reloaded THEN r.error ELSE app.error
<1>1. AppType /\ CodeRuns /\ overlay \in Files /\ UNCHANGED <<overlay, net>>
  BY DEF CInv, IInv, TypeOK, Reload
<1>2. app.reloads \in Seq(Seq(Modules)) /\ app.reloads # <<>> /\ app.loaded \in Files
      /\ app.mounted \in BOOLEAN /\ app.error \in BOOLEAN
  BY <1>1 DEF AppType, Reload
<1>3. h \in Seq(Modules) /\ t \in Seq(Seq(Modules))
  BY <1>2
<1>4. app' = IF app.mounted THEN [app EXCEPT !.reloads = t, !.loaded = r.loaded, !.error = error]
             ELSE [app EXCEPT !.reloads = t]
  BY DEF Reload
<1>5. files \in Files /\ \A m \in A : files[m] = overlay[m]
  BY <1>1, FoundType
<1>6. r \in Worlds /\ (~r.error => \A B \in SUBSET Modules : Whole(files, B) =>
                            \A m \in B : r.loaded[m] \in {NoFile, files[m]})
  <2> HIDE DEF h, files
  <2> QED BY <1>2, <1>3, <1>5, ReloadedLoads
<1>7. ASSUME ~r.error, Consistent(overlay), InOrder(overlay), NEW m \in A
      PROVE  r.loaded[m] \in {NoFile, overlay[m]}
  <2>1. Whole(files, A) /\ A \in SUBSET Modules
    BY <1>1, <1>7, FilesWhole
  <2> HIDE DEF A, files, r
  <2> QED BY <1>5, <1>6, <1>7, <2>1
<1> HIDE DEF h, t, files, r
<1>8. r.loaded \in Files /\ r.error \in BOOLEAN /\ r.reloaded \in BOOLEAN
  BY <1>6 DEF Worlds
<1>9. error \in BOOLEAN /\ (~error => ~r.error)
  BY <1>2, <1>8
<1> HIDE DEF error
<1>10. CASE app.mounted
  <2>1. app' = [app EXCEPT !.reloads = t, !.loaded = r.loaded, !.error = error]
    BY <1>4, <1>10
  <2>2. AppType' /\ app'.loaded = r.loaded /\ app'.error = error
    BY <1>1, <1>3, <1>8, <1>9, <2>1 DEF AppType
  <2>3. CodeRuns'
    <3> SUFFICES ASSUME ~error, Consistent(overlay), InOrder(overlay), NEW m \in Modules,
                        overlay[m] # NoFile, r.loaded[m] # NoFile
                 PROVE  r.loaded[m] = overlay[m]
      BY <1>1, <2>2 DEF CodeRuns, Current, Consistent, InOrder, Runs, Defined
    <3> QED BY <1>7, <1>9
  <2> QED BY <2>2, <2>3
<1>11. CASE ~app.mounted
  <2>1. app' = [app EXCEPT !.reloads = t]
    BY <1>4, <1>11
  <2>2. AppType' /\ app'.mounted = app.mounted
    BY <1>1, <1>3, <2>1 DEF AppType
  <2> QED BY <1>11, <2>2 DEF CodeRuns
<1> QED BY <1>10, <1>11

LEMMA CrashCode ==
  ASSUME CInv, Crash
  PROVE  AppType' /\ CodeRuns'
<1>1. overlay' \in Files /\ app' = Started(overlay')
  BY CrashType DEF CInv, IInv, TypeOK, Crash
<1>2. AppType'
  BY <1>1, StartedType DEF AppType
<1>3. \A m \in Modules : overlay'[m] # NoFile /\ app'.loaded[m] # NoFile => app'.loaded[m] = overlay'[m]
  BY <1>1, StartedType, FoundType
<1> QED BY <1>2, <1>3 DEF CodeRuns, Current

LEMMA StepCode == CInv /\ [Next]_vars => CInv'
<1> SUFFICES ASSUME CInv, [Next]_vars PROVE CInv'
  OBVIOUS
<1>1. IInv'
  BY StepIInv DEF CInv
<1>2. CASE UNCHANGED <<app, overlay, net>>
  BY <1>1, <1>2, CodeStays DEF CInv
<1>3. CASE Client
  BY <1>1, <1>3, ClientCode DEF CInv
<1>4. CASE Reload
  BY <1>1, <1>4, ReloadCode DEF CInv
<1>5. CASE Crash
  BY <1>1, <1>5, CrashCode DEF CInv
<1>6. CASE Lose
  <2>1. Idle /\ net'.applying = 0 /\ UNCHANGED <<app, overlay>>
    BY <1>6, LoseType DEF Lose, CInv, IInv
  <2>2. Idle'
    BY <2>1 DEF Idle, None
  <2> QED BY <1>1, <2>1, <2>2 DEF CInv, AppType, CodeRuns, Current, Underway
<1>7. CASE Watch \/ Serve \/ (\E f \in Modules : Save(f) \/ RemoveFile(f)) \/ UNCHANGED vars
  <2>1. UNCHANGED <<app, overlay, net>>
    BY <1>7 DEF Watch, Poll, Publish, Announce, Serve, Broadcast, Hello, DropClient, Save, RemoveFile, vars
  <2> QED BY <1>2, <2>1
<1> QED BY <1>3, <1>4, <1>5, <1>6, <1>7 DEF Next

LEMMA AtRestRuns == CInv => RunsTheSavedCode
<1> SUFFICES ASSUME CInv, Quiet, app.mounted, ~app.error, Consistent(disk), InOrder(disk),
                    NEW m \in Modules, disk[m] # NoFile, app.loaded[m] # NoFile
             PROVE  app.loaded[m] = disk[m]
  BY DEF RunsTheSavedCode
<1>1. overlay = disk
  BY AtRest DEF CInv, InSync
<1>2. ~Underway
  BY DEF Underway, Quiet
<1>3. Current
  BY <1>1, <1>2 DEF CInv, CodeRuns
<1> QED BY <1>1, <1>3 DEF Current

(* On a client at rest no imported module stays behind its file, whatever    *)
(* modules were saved and removed and whatever they import, unless an error  *)
(* is shown, no screen is mounted, or a module imports against the order of  *)
(* the reload.  A dependent that raises in between, for a name that is still *)
(* to come, is executed again by the save that brings it.                    *)
(* (apply_reload, expand_reload_targets, _schedule_reload)                   *)
THEOREM SavedCodeRuns == Spec => []RunsTheSavedCode
<1>1. Init => CInv
  BY InitCode
<1>2. CInv /\ [Next]_vars => CInv'
  BY StepCode
<1>3. CInv => RunsTheSavedCode
  BY AtRestRuns
<1> QED BY <1>1, <1>2, <1>3, PTL DEF Spec
=============================================================================
