------------------------------ MODULE HotReload ------------------------------
(* apply_reload (hot_reload.py): which modules of the application are        *)
(* executed again after files changed, in which order, and what is left in   *)
(* sys.modules when one of them raises.  A module's content is the number of *)
(* the save that wrote it and the name it imports, if any: a pair of the     *)
(* module that defines it and the save that introduced it.                   *)
EXTENDS Integers, Sequences, SequencesExt, Arrangements

CONSTANT Order    \* the application's modules in sorted order, its entry module last

ASSUME OrderAssumption ==
    Order \in Seq(ToSet(Order)) /\ Order # <<>> /\ IsInjective(Order)

Modules == ToSet(Order)
Entry == Last(Order)
NoFile == [n |-> 0, needs |-> {}]
TornFile == [n |-> -1, needs |-> {}]

(* What executing a module comes to when those of also are imported as well: *)
(* it raises when its file is gone or torn, or a name is not there.          *)
Defined(use, loaded, files, also) ==
    loaded[use[1]].n >= use[2] \/ (use[1] \in also /\ files[use[1]].n >= use[2])
Runs(m, loaded, files, also) ==
    files[m].n > 0 /\ \A use \in files[m].needs : Defined(use, loaded, files, also)

(* The import statement executes modules that are not imported yet, and they *)
(* execute others.  Of those that m asks for, the ones that do not raise     *)
(* stay imported, even if m then raises.                                     *)
Asked(m, loaded, files) == {use[1] : use \in {u \in files[m].needs : loaded[u[1]] = NoFile}}
Wanted(m, loaded, files) ==
    {f \in Modules : \A S \in SUBSET Modules :
        (m \in S /\ \A g \in S : Asked(g, loaded, files) \subseteq S) => f \in S}
Pulled(m, loaded, files) ==
    LET others == Wanted(m, loaded, files) \ {m}
    IN  {f \in others : \A S \in SUBSET others :
            (\A g \in others : Runs(g, loaded, files, S) => g \in S) => f \in S}

(* expand_reload_targets: the changed modules, the others that are imported, *)
(* and the entry module last.                                                *)
(* Mutant of Targets: the changed modules after the others.                  *)
Imported(loaded) == {m \in Modules \ {Entry} : loaded[m] # NoFile}
MutantChangedLast(changed, loaded) ==
    Append(Those(Order, Imported(loaded) \ ToSet(changed)) \o Those(changed, Imported(loaded)), Entry)
Targets(changed, loaded) ==
    Append(Those(changed, Imported(loaded)) \o Those(Order, Imported(loaded) \ ToSet(changed)), Entry)

(* One module: a changed one that raises ends the reload with an error, a    *)
(* dependent that raises is left as it was.                                  *)
Executed(sofar, m, changed, files) ==
    LET partial == [sofar.loaded EXCEPT ![m] = NoFile]
        pulled  == Pulled(m, partial, files)
        after   == [f \in Modules |-> IF f \in pulled THEN files[f] ELSE sofar.loaded[f]]
    IN  IF sofar.error THEN sofar
        ELSE IF Runs(m, partial, files, pulled)
        THEN [sofar EXCEPT !.loaded = [after EXCEPT ![m] = files[m]], !.reloaded = TRUE]
        ELSE [sofar EXCEPT !.loaded = after, !.error = Contains(changed, m)]

(* The modules executed one after the other. *)
Unchanged(loaded) == [loaded |-> loaded, error |-> FALSE, reloaded |-> FALSE]
Run(changed, loaded, files) ==
    LET order == Targets(changed, loaded)
        after[i \in 0..Len(order)] ==
            IF i = 0 THEN Unchanged(loaded)
            ELSE Executed(after[i - 1], order[i], changed, files)
    IN  after[Len(order)]

(* Mutant of Reloaded: the failure that ended it is not reported. *)
MutantSilentFailure(changed, loaded, files) ==
    [Run(changed, loaded, files) EXCEPT !.error = FALSE]
Reloaded(changed, loaded, files) == Run(changed, loaded, files)

(* Files that import one another without an error in a process that starts,  *)
(* and whose order is the one in which dependents are executed again.        *)
Consistent(files) ==
    /\ files[Entry].n > 0
    /\ \A m \in Modules : files[m] # NoFile => Runs(m, files, files, {})
InOrder(files) ==
    \A i \in DOMAIN Order : \A use \in files[Order[i]].needs :
        \E j \in 1..(i - 1) : Order[j] = use[1]
=============================================================================
