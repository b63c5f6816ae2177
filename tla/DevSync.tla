------------------------------- MODULE DevSync -------------------------------
(* The development loop: the watcher and the loop of the dev server          *)
(* (devserver/watcher.py, server.py), the network thread of a dev client     *)
(* with the overlay it keeps on the device (devclient.py), and the           *)
(* application thread that loads the synced code.  Contents are never saved  *)
(* again, and the device's disk takes every write.                           *)
EXTENDS HotReload, FiniteSets

CONSTANTS
    First,        \* the project when the application was built
    Bundled,      \* the modules of it that the application brings along
    MaxEvents,    \* bound: files saved or removed by the developer, and crashes of the app
    MaxSessions   \* bound: connections the client makes

ASSUME DevSyncAssumption ==
    /\ First \in [Modules -> [n : {1}, needs : SUBSET ((Modules \ {Entry}) \X {1})]]
    /\ Bundled \subseteq Modules
    /\ {MaxEvents, MaxSessions} \subseteq Nat

VARIABLES
    disk,      \* the project's files
    watcher,   \* the watcher thread: its last snapshot, the change it reports, where it is
    snapshot,  \* the server's snapshot
    posted,    \* broadcasts the watcher handed to the server's loop
    sessions,  \* the server's and the socket's end of every connection made
    net,       \* the client's network thread: its session, the message it applies
    overlay,   \* the files on the device
    version,   \* synced_version
    app,       \* the application thread: its modules, its error screen, its reloads
    used

vars == <<disk, watcher, snapshot, posted, sessions, net, overlay, version, app, used>>

None == 0
NoVersion == <<>>
Spend(name) == used.saves + used.crashes <= MaxEvents /\ used' = [used EXCEPT ![name] = @ + 1]

(* A message carries the bytes the files have when it is made.               *)
Message(snap, changed, removed) ==
    LET names == Those(Order, {f \in changed : disk[f] # NoFile})
    IN  [version |-> snap,
         files |-> [i \in DOMAIN names |-> <<names[i], disk[names[i]]>>],
         removed |-> Those(Order, removed)]
Differing(new, old) == {f \in Modules : new[f] # NoFile /\ new[f] # old[f]}
Vanished(new, old) == {f \in Modules : new[f] = NoFile /\ old[f] # NoFile}

---------------------------------------------------------------------------
(* The developer. *)

(* A save keeps what the module imports, drops it, or imports a name that the*)
(* last save may have brought or the next one may bring.                     *)
Imports(f) ==
    {disk[f].needs, {}}
    \cup {{<<g, k>>} : g \in Modules \ {f, Entry}, k \in {used.saves, used.saves + 2}}
Save(f) ==
    /\ Spend("saves")
    /\ \E needs \in Imports(f) : disk' = [disk EXCEPT ![f] = [n |-> used.saves + 1, needs |-> needs]]
    /\ UNCHANGED <<watcher, snapshot, posted, sessions, net, overlay, version, app>>
RemoveFile(f) ==
    /\ Spend("saves") /\ f # Entry /\ disk[f] # NoFile
    /\ disk' = [disk EXCEPT ![f] = NoFile]
    /\ UNCHANGED <<watcher, snapshot, posted, sessions, net, overlay, version, app>>

---------------------------------------------------------------------------
(* The server's watcher thread. *)

(* poll, once the tree has settled *)
Poll ==
    /\ watcher.at = "idle" /\ watcher.seen # disk
    /\ watcher' = [seen |-> disk, at |-> "changed", changed |-> Differing(disk, watcher.seen),
                   removed |-> Vanished(disk, watcher.seen)]
    /\ UNCHANGED <<disk, snapshot, posted, sessions, net, overlay, version, app, used>>

(* _on_files_changed: the snapshot first, then a look at the clients, then   *)
(* the message for those that are synced.                                    *)
Publish ==
    /\ watcher.at = "changed"
    /\ snapshot' = watcher.seen
    /\ watcher' = [watcher EXCEPT !.at = "published"]
    /\ UNCHANGED <<disk, posted, sessions, net, overlay, version, app, used>>
Announce ==
    /\ watcher.at = "published"
    /\ watcher' = [watcher EXCEPT !.at = "idle", !.changed = {}, !.removed = {}]
    /\ posted' = IF \E s \in DOMAIN sessions : sessions[s].server # "gone"
                 THEN Append(posted, Message(watcher.seen, watcher.changed, watcher.removed))
                 ELSE posted
    /\ UNCHANGED <<disk, snapshot, sessions, net, overlay, version, app, used>>

---------------------------------------------------------------------------
(* The server's loop. *)

(* _broadcast *)
Broadcast ==
    /\ posted # <<>>
    /\ posted' = Tail(posted)
    /\ sessions' = [s \in DOMAIN sessions |->
           IF sessions[s].server = "synced"
           THEN [sessions[s] EXCEPT !.down = Append(@, Head(posted))]
           ELSE [sessions[s] EXCEPT !.after = IF @ > 0 THEN @ - 1 ELSE @]]
    /\ UNCHANGED <<disk, watcher, snapshot, net, overlay, version, app, used>>

(* Mutants of Hello: files that are gone are not mentioned; the client is    *)
(* not marked as synced.                                                     *)
MutantKeepVanished(s) ==
    /\ sessions[s].server = "open" /\ sessions[s].after = 0
    /\ sessions' = [sessions EXCEPT ![s].server = "synced", ![s].hello = NoVersion, ![s].down =
           Append(@, Message(snapshot, Differing(snapshot, sessions[s].hello), {}))]
    /\ UNCHANGED <<disk, watcher, snapshot, posted, net, overlay, version, app, used>>
MutantNeverSynced(s) ==
    /\ sessions[s].server = "open" /\ sessions[s].after = 0 /\ sessions[s].hello # NoVersion
    /\ sessions' = [sessions EXCEPT ![s].hello = NoVersion, ![s].down =
           Append(@, Message(snapshot, Differing(snapshot, sessions[s].hello),
                             Vanished(snapshot, sessions[s].hello)))]
    /\ UNCHANGED <<disk, watcher, snapshot, posted, net, overlay, version, app, used>>

(* _on_hello: the difference between the snapshot and what the client says   *)
(* it has.  Broadcasts posted before the session came have run by then.      *)
Hello(s) ==
    LET has == sessions[s].hello
    IN  /\ sessions[s].server = "open" /\ sessions[s].after = 0
        /\ sessions' = [sessions EXCEPT ![s].server = "synced", ![s].hello = NoVersion, ![s].down =
               Append(@, Message(snapshot, Differing(snapshot, has), Vanished(snapshot, has)))]
        /\ UNCHANGED <<disk, watcher, snapshot, posted, net, overlay, version, app, used>>

(* _drop_client, when the reader finds the connection closed                 *)
DropClient(s) ==
    /\ net.session # s /\ sessions[s].server # "gone"
    /\ sessions' = [sessions EXCEPT ![s] = [server |-> "gone", hello |-> NoVersion,
                                            after |-> 0, down |-> <<>>]]
    /\ UNCHANGED <<disk, watcher, snapshot, posted, net, overlay, version, app, used>>

---------------------------------------------------------------------------
(* The client's network thread. *)

Idle == net.applying = None

(* connect and the hello of _session: the server registers the client when   *)
(* it connects; the overlay is the network thread's own until it is told.    *)
Connect ==
    /\ Len(sessions) < MaxSessions /\ net.session = None /\ Idle
    /\ sessions' = Append(sessions, [server |-> "open", hello |-> overlay, after |-> Len(posted),
                                     down |-> <<>>])
    /\ net' = [net EXCEPT !.session = Len(sessions) + 1]
    /\ UNCHANGED <<disk, watcher, snapshot, posted, overlay, version, app, used>>

(* The connection breaks; what was under way to the client is lost, and the  *)
(* client notices when it reads next.  Another connection follows.           *)
Lose ==
    /\ net.session # None /\ Idle /\ Len(sessions) < MaxSessions
    /\ net' = [net EXCEPT !.session = None]
    /\ UNCHANGED <<disk, watcher, snapshot, posted, sessions, overlay, version, app, used>>

(* _apply_sync, file by file *)
Receive ==
    LET s == net.session
    IN  /\ s # None /\ Idle /\ sessions[s].down # <<>>
        /\ net' = [net EXCEPT !.applying = 1, !.message = Head(sessions[s].down)]
        /\ sessions' = [sessions EXCEPT ![s].down = Tail(@)]
        /\ UNCHANGED <<disk, watcher, snapshot, posted, overlay, version, app, used>>
WriteFile ==
    /\ ~Idle /\ net.applying <= Len(net.message.files)
    /\ LET file == net.message.files[net.applying]
       IN  overlay' = [overlay EXCEPT ![file[1]] = file[2]]
    /\ net' = [net EXCEPT !.applying = @ + 1]
    /\ UNCHANGED <<disk, watcher, snapshot, posted, sessions, version, app, used>>
Written(message) == [i \in DOMAIN message.files |-> message.files[i][1]] \o message.removed
FinishSync ==
    /\ ~Idle /\ net.applying > Len(net.message.files)
    /\ overlay' = [f \in Modules |-> IF Contains(net.message.removed, f) THEN NoFile ELSE overlay[f]]
    /\ version' = net.message.version
    /\ app' = IF Written(net.message) = <<>> THEN app
              ELSE [app EXCEPT !.reloads = Append(@, Written(net.message))]
    /\ net' = [net EXCEPT !.applying = None, !.message = None]
    /\ UNCHANGED <<disk, watcher, snapshot, posted, sessions, used>>

---------------------------------------------------------------------------
(* The application thread. *)

(* A module whose file is gone is the one the application brought along.     *)
Found(files) ==
    [m \in Modules |-> IF files[m] = NoFile /\ m \in Bundled THEN First[m] ELSE files[m]]

(* _apply of _schedule_reload; with no screen mounted nothing is reloaded.   *)
(* When no module could be executed, the screens are left as they are.       *)
Reload ==
    /\ app.reloads # <<>>
    /\ LET result == Reloaded(Head(app.reloads), app.loaded, Found(overlay))
       IN  app' = IF app.mounted
                  THEN [app EXCEPT !.reloads = Tail(@), !.loaded = result.loaded,
                           !.error = IF result.error \/ result.reloaded THEN result.error ELSE @]
                  ELSE [app EXCEPT !.reloads = Tail(@)]
    /\ UNCHANGED <<disk, watcher, snapshot, posted, sessions, net, overlay, version, used>>

(* The process ends, maybe while a file is written, and is started again on  *)
(* the overlay it left: its screen is mounted when the entry can be imported.*)
Started(files) ==
    LET result == Executed(Unchanged([m \in Modules |-> NoFile]), Entry, <<Entry>>, Found(files))
    IN  [loaded |-> result.loaded, mounted |-> ~result.error, error |-> FALSE, reloads |-> <<>>]
Crash ==
    /\ Spend("crashes")
    /\ Len(sessions) < MaxSessions
    /\ \/ overlay' = overlay
       \/ /\ ~Idle /\ net.applying <= Len(net.message.files)
          /\ overlay' = [overlay EXCEPT ![net.message.files[net.applying][1]] = TornFile]
    /\ app' = Started(overlay')
    /\ net' = [session |-> None, applying |-> None, message |-> None]
    /\ version' = NoVersion
    /\ UNCHANGED <<disk, watcher, snapshot, posted, sessions>>

---------------------------------------------------------------------------
Init ==
    /\ disk = First /\ snapshot = First /\ overlay = First
    /\ watcher = [seen |-> First, at |-> "idle", changed |-> {}, removed |-> {}]
    /\ posted = <<>>
    /\ sessions = <<>>
    /\ net = [session |-> None, applying |-> None, message |-> None]
    /\ version = NoVersion
    /\ app = Started(First)
    /\ used = [saves |-> 1, crashes |-> 0]

Watch == Poll \/ Publish \/ Announce
Serve == Broadcast \/ \E s \in DOMAIN sessions : Hello(s) \/ DropClient(s)
Client == Connect \/ Receive \/ WriteFile \/ FinishSync
Next ==
    \/ \E f \in Modules : Save(f) \/ RemoveFile(f)
    \/ Watch \/ Serve \/ Client \/ Lose \/ Reload \/ Crash

(* The threads run and the client reconnects: while the watcher, the loop or *)
(* the client's network thread has something to do, one of them does it.     *)
Progress == Watch \/ Serve \/ Client
Fairness == WF_vars(Progress)
Spec == Init /\ [][Next]_vars /\ Fairness

---------------------------------------------------------------------------
Quiet == /\ watcher.at = "idle" /\ watcher.seen = disk
         /\ posted = <<>> /\ Idle /\ app.reloads = <<>>
         /\ net.session # None
         /\ sessions[net.session].server = "synced" /\ sessions[net.session].down = <<>>

(* A connected client at rest has exactly the project's files and says so:   *)
(* whatever was saved, removed, lost with a connection, or torn by a crash   *)
(* has reached it.  (_on_files_changed, _on_hello, _apply_sync)              *)
InSync == Quiet => overlay = disk /\ version = disk

(* Code that can be imported runs: no module stays behind its file, whatever *)
(* order the saves came in, unless an error is shown or no screen is mounted *)
(* yet.  Excepted is code with an import against the order of the reload,    *)
(* deepest module first and then by name: its dependents may raise and stay  *)
(* old without an error.  (apply_reload, expand_reload_targets)              *)
RunsTheSavedCode ==
    Quiet /\ app.mounted /\ ~app.error /\ Consistent(disk) /\ InOrder(disk) =>
        \A m \in Modules : disk[m] # NoFile /\ app.loaded[m] # NoFile => app.loaded[m] = disk[m]

(* The developer's last save arrives, in spite of lost connections and       *)
(* crashes.  (_run, _session, _apply_sync)                                   *)
SavesArrive == <>[](overlay = disk)
=============================================================================
