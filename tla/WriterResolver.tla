--------------------------- MODULE WriterResolver ---------------------------
(***************************************************************************)
(* The scripts by which a Codex host learns which writer it may spawn      *)
(* (resolve-writer-binding.py, list-codex-models.py): `offer` lists the    *)
(* selectable model/effort pairs, `select` checks a pair the user has      *)
(* chosen and makes a binding request of it, `resolve` answers, before     *)
(* every spawn, with the pair that is bound.                               *)
(*                                                                         *)
(* Each command reads the world piece by piece: the progress log and the   *)
(* projection of the binding in two processes of casefile, config.toml     *)
(* three times, the models the host offers in an app-server, the catalog   *)
(* file.  Set-up, the user, the host and other planners change all of it   *)
(* in between.  A command that cannot go on fails, and no caller retries.  *)
(***************************************************************************)
EXTENDS Naturals, Sequences, SequencesExt

CONSTANTS
    Pair,       \* model/effort pairs
    Profiled,   \* those for which the package has a named writer profile (V1)
    Visible,    \* those whose catalog entry is listed, not hidden
    Pinned,     \* those that are taken as listed whatever the host says
    Neither,    \* no runtime: the flags of config.toml contradict each other
    None,
    MaxChanges  \* bound: changes of the world around the commands

Runtime == {"v1", "v2"}

Process == {"spawner", "chooser"}

VARIABLES
    config,    \* config.toml: the runtime its flags enable and the catalog it names
    catalogs,  \* Runtime -> the pairs of Casefile's catalog file, None if there is none
    listed,    \* pairs the host's app-server lists
    matrix,    \* the pair of the writer in the selected matrix, None: another strategy
    binding,   \* the pair in strategy/bindings.toml, None if there is no such file
    ticket,    \* the status of the ticket in the progress log
    run,       \* Process -> the command it runs and what that has read
    choice,    \* the pair the user chose of those he was shown
    changes    \* changes left

resolverVars ==
    <<config, catalogs, listed, matrix, binding, ticket, run, choice, changes>>

world == <<config, catalogs, listed, matrix, binding, ticket, choice, changes>>

(* None is no selector of a catalog and no source of a pair *)
WriterAssumption == None \notin {"v2", "binding"}

NoRun == [op |-> "none", at |-> "idle", wanted |-> None, source |-> None, runtime |-> Neither,
          again |-> Neither, projected |-> {}, catalog |-> {}, held |-> FALSE]

Status == {"unknown", "in_progress", "complete"}

Steps == {"idle", "permit", "project", "runtime", "list", "again", "path", "catalog", "pairs",
          "request", "resolved"}

TypeOK ==
    /\ config \in [flags : Runtime \cup {Neither}, catalog : Runtime \cup {Neither}]
    /\ \A r \in Runtime : catalogs[r] = None \/ catalogs[r] \subseteq Pair
    /\ listed \subseteq Pair
    /\ {matrix, binding, choice} \subseteq Pair \cup {None}
    /\ ticket \in Status
    /\ \A p \in Process : run[p].at \in Steps /\ run[p].wanted \in Pair \cup {None}
    /\ changes \in 0 .. MaxChanges

-----------------------------------------------------------------------------
(* Mutant: the binding is read before the progress of the ticket is required. *)
ProjectedFirst ==
    <<"project", "permit", "runtime", "list", "again", "path", "catalog", "pairs">>

(* What a resolution does, in this order; `offer` is its last six steps *)
ResolveSpawn ==
    <<"permit", "project", "runtime", "list", "again", "path", "catalog", "pairs">>

FirstOf(op) == IF op = "resolve" THEN ResolveSpawn[1] ELSE "runtime"

After(step) == ResolveSpawn[1 + CHOOSE i \in 1 .. 7 : ResolveSpawn[i] = step]

Starts(p, op, pair) ==
    /\ run[p].at \in {"idle", "resolved"}
    /\ run' = [run EXCEPT ![p] = [NoRun EXCEPT !.op = op, !.at = FirstOf(op), !.wanted = pair]]
    /\ UNCHANGED world

Offer == Starts("chooser", "offer", None)

Select == choice # None /\ Starts("chooser", "select", choice)

Resolve == Starts("spawner", "resolve", None)

At(p, step) == run[p].at = step

(* The step succeeds, having read this *)
Reads(p, result) ==
    /\ run' = [run EXCEPT ![p] = [result EXCEPT !.at = After(@)]]
    /\ UNCHANGED world

Fails(p) ==
    /\ run' = [run EXCEPT ![p] = NoRun]
    /\ UNCHANGED world

(* require_writer_progress, a process of its own *)
Permit(p) ==
    /\ At(p, "permit")
    /\ ticket = "in_progress"
    /\ Reads(p, [run[p] EXCEPT !.held = TRUE])

(* resolve_binding: the pair a writer of the selected matrix gets *)
Effective == IF binding = None THEN matrix ELSE binding

(* binding_projection, another process *)
Project(p) ==
    /\ At(p, "project")
    /\ matrix # None
    /\ Reads(p, [run[p] EXCEPT !.wanted = Effective,
                               !.source = IF binding = None THEN "matrix" ELSE "binding"])

(* active_runtime of offer *)
ReadRuntime(p) ==
    /\ At(p, "runtime")
    /\ config.flags \in Runtime
    /\ Reads(p, [run[p] EXCEPT !.runtime = config.flags])

(* listing: what the app-server lists and what is pinned *)
List(p) ==
    /\ At(p, "list")
    /\ Reads(p, [run[p] EXCEPT !.projected = listed \cup Pinned])

(* active_runtime of active_catalog *)
ReadRuntimeAgain(p) ==
    /\ At(p, "again")
    /\ config.flags \in Runtime
    /\ Reads(p, [run[p] EXCEPT !.again = config.flags])

(* owned_catalog: config.toml names the catalog of that runtime ... *)
CheckCatalogPath(p) ==
    /\ At(p, "path")
    /\ config.catalog = run[p].again
    /\ Reads(p, run[p])

(* ... and the file is there *)
ReadCatalog(p) ==
    /\ At(p, "catalog")
    /\ catalogs[run[p].again] # None
    /\ Reads(p, [run[p] EXCEPT !.catalog = catalogs[run[p].again] \cap run[p].projected])

(* catalog_replacement marks the models of a V2 catalog, and no others *)
Selector(runtime) == IF runtime = "v2" THEN "v2" ELSE None

(* Mutant: the selector of a model is not looked at. *)
AnySelector(runtime, selector) == TRUE

SelectorFits(runtime, selector) == selector = (IF runtime = "v1" THEN None ELSE "v2")

(* resolution_rows: the roles of all strategies for the pair *)
HasRows(runtime, pair) == runtime = "v1" => pair \in Profiled

(* offered_pairs *)
Pairs(r) ==
    {pair \in r.catalog \cap Visible :
       SelectorFits(r.runtime, Selector(r.again)) /\ HasRows(r.runtime, pair)}

(* What may come of the last step: pairs to choose from, a request, a spawn *)
Ends(p) ==
    /\ At(p, "pairs")
    /\ Pairs(run[p]) # {}
    /\ UNCHANGED <<config, catalogs, listed, matrix, binding, ticket, changes>>

Choose(pair) ==
    /\ run["chooser"].op = "offer"
    /\ Ends("chooser")
    /\ pair \in Pairs(run["chooser"])
    /\ choice' = pair
    /\ run' = [run EXCEPT !["chooser"] = NoRun]

(* selected_pair, selection_request *)
MakeRequest ==
    /\ run["chooser"].op = "select"
    /\ Ends("chooser")
    /\ run["chooser"].wanted \in Pairs(run["chooser"])
    /\ run' = [run EXCEPT !["chooser"].at = "request"]
    /\ UNCHANGED choice

(* resolve_spawn: the spawn is of the runtime that was read first *)
Spawn ==
    /\ Ends("spawner")
    /\ run["spawner"].wanted \in Pairs(run["spawner"])
    /\ run' = [run EXCEPT !["spawner"].at = "resolved"]
    /\ UNCHANGED choice

(* apply_writer_binding of the request, which finds the implementation inactive *)
Inactive == ticket # "in_progress"

Persist ==
    /\ At("chooser", "request")
    /\ Inactive
    /\ binding' = run["chooser"].wanted
    /\ run' = [run EXCEPT !["chooser"] = NoRun]
    /\ choice' = None
    /\ UNCHANGED <<config, catalogs, listed, matrix, ticket, changes>>

(* A condition that does not hold, a file that cannot be read, a process that fails *)
Fail == \E p \in Process : ~ run[p].at \in {"idle", "resolved"} /\ Fails(p)

-----------------------------------------------------------------------------
(* the world around the commands *)

Change == changes > 0 /\ changes' = changes - 1

(* Set-up, its removal and its rollbacks replace one file at a time. *)
SetUpWritesConfig(runtime) ==
    /\ Change
    /\ config' = [flags |-> runtime, catalog |-> runtime]
    /\ UNCHANGED <<catalogs, listed, matrix, binding, ticket, run, choice>>

SetUpWritesCatalog(runtime) ==
    /\ Change
    /\ catalogs' = [catalogs EXCEPT ![runtime] = IF @ = None THEN Pair ELSE None]
    /\ UNCHANGED <<config, listed, matrix, binding, ticket, run, choice>>

UserSwitches(runtime) ==
    /\ Change
    /\ runtime # config.flags
    /\ config' = [config EXCEPT !.flags = runtime]
    /\ UNCHANGED <<catalogs, listed, matrix, binding, ticket, run, choice>>

HostLists(pairs) ==
    /\ Change
    /\ pairs # listed
    /\ listed' = pairs
    /\ UNCHANGED <<config, catalogs, matrix, binding, ticket, run, choice>>

(* A governed selection, which asks nothing of the progress *)
Reselect(pair) ==
    /\ Change
    /\ pair # matrix
    /\ matrix' = pair
    /\ UNCHANGED <<config, catalogs, listed, binding, ticket, run, choice>>

(* A transition of the ticket: a permit is held until the ticket leaves in_progress. *)
TicketMoves(status) ==
    /\ Change
    /\ status # ticket
    /\ ticket' = status
    /\ run' = [run EXCEPT !["spawner"].held = FALSE]
    /\ UNCHANGED <<config, catalogs, listed, matrix, binding, choice>>

-----------------------------------------------------------------------------

Init ==
    /\ config \in [flags : Runtime, catalog : Runtime] /\ config.flags = config.catalog
    /\ catalogs = [r \in Runtime |-> Pair]
    /\ listed = Pair
    /\ matrix \in Pair
    /\ binding = None
    /\ ticket = "unknown"
    /\ run = [p \in Process |-> NoRun]
    /\ choice = None
    /\ changes = MaxChanges

Commands ==
    \/ Offer \/ Select \/ Resolve
    \/ \E p \in Process :
         \/ Permit(p) \/ Project(p) \/ ReadRuntime(p) \/ List(p) \/ ReadRuntimeAgain(p)
         \/ CheckCatalogPath(p) \/ ReadCatalog(p)
    \/ \E pair \in Pair : Choose(pair)
    \/ MakeRequest \/ Spawn \/ Persist \/ Fail

World ==
    \/ \E runtime \in Runtime \cup {Neither} : SetUpWritesConfig(runtime) \/ UserSwitches(runtime)
    \/ \E runtime \in Runtime : SetUpWritesCatalog(runtime)
    \/ \E pairs \in SUBSET Pair : HostLists(pairs)
    \/ \E pair \in Pair \cup {None} : Reselect(pair)
    \/ \E status \in Status : TicketMoves(status)

Next == Commands \/ World

Spec == Init /\ [][Next]_resolverVars

-----------------------------------------------------------------------------
(* A spawn never mixes two runtimes: its role is of the runtime whose      *)
(* catalog lists the pair, although config.toml is read three times and    *)
(* set-up may change it in between.  And the pair of a binding that was    *)
(* read under a permit is still the one that is bound when the spawn is    *)
(* returned, as long as the ticket has not left in_progress.               *)
(* resolve-writer-binding.py:117-193, 355-430, governance.rs:635-704;        *)
(* casefile-implement/SKILL.md:53-66.                                       *)
SpawnIsOfTheBoundWriter ==
    LET spawn == run["spawner"] IN
      At("spawner", "resolved") =>
        /\ spawn.runtime = spawn.again
        /\ spawn.held /\ spawn.source = "binding" => spawn.wanted = binding
=============================================================================
