------------------------------- MODULE CodexSetup -------------------------------
(***************************************************************************)
(* The set-up script of the Codex adapter (setup-codex.py) with the        *)
(* migration of its model catalog (codex_model_migration.py).  It owns     *)
(* some keys of the host's config.toml, one catalog per agent runtime and  *)
(* one executable per package version, and keeps receipts that carry the   *)
(* files as they were before Casefile was first installed.                 *)
(*                                                                         *)
(* The home directory is a function from paths to contents, so that a      *)
(* snapshot is a restriction of it and a rollback writes one back, path by *)
(* path.  Each write is a step; any of them may fail, the process may die  *)
(* between two, and the user edits config.toml when he likes.  Checks of   *)
(* the package and of the models the host offers are made before anything  *)
(* is written and only decide whether a command begins.                    *)
(***************************************************************************)
EXTENDS Naturals, Sequences, FiniteSets, SequencesExt

CONSTANTS
    Runtime,      \* multi-agent runtimes; a catalog path each
    Package,      \* versions of the plugin package; an executable path each
    HostOwn,      \* a catalog file, or values of the owned keys, that are the host's own
    Occupied,     \* sets of catalog paths at which the user may have a file of his own
    FirstPackage, \* the package that is there at first
    None,
    Bounds        \* bounds, of which a behaviour has one: its commands, with changes by the
                  \* user or the host between them, and its mishaps, which are failing calls,
                  \* crashes and edits in the middle of a command

Path == Runtime \cup Package \cup {"config", "pointer", "plugin"}

VARIABLES
    home,      \* Path -> content, None where nothing is
    receipts,  \* receipts written so far; home.pointer is the index of the one in force
    approved,  \* the migration the user has seen and approved, by its digest
    job,       \* the command that runs: where it is, its plan and what it remembers
    outcome,   \* how the last command ended
    history,   \* home before the first command (original) and when the last one began
               \* (start), what the user wrote last (text, tail) and at which step (during),
               \* and whether only commands that vouch for their outcome changed it (clean,
               \* quiet)
    budget     \* commands and mishaps left

codexVars == <<home, receipts, approved, job, outcome, history, budget>>

(* config.toml: the user's text, the lines he wrote below Casefile's block with no    *)
(* table header of their own, comments for one (tail), his thread count, and the keys *)
(* and tables that Casefile owns, which are absent, the host's own values, or set by  *)
(* an installation                                                                    *)
Owned == [runtime : Runtime, profiles : Package, executable : Package]

Config == [text : Nat, tail : Nat, threads : {"absent", "enough"},
           keys : {None, HostOwn} \cup Owned]

(* Paths are told apart, and None is no number and no setting *)
CodexAssumption ==
    /\ IsFiniteSet(Runtime) /\ IsFiniteSet(Package)
    /\ Runtime \cap Package = {}
    /\ {"config", "pointer", "plugin"} \cap (Runtime \cup Package) = {}
    /\ \A own \in Occupied : own \subseteq Runtime
    /\ FirstPackage \in Package
    /\ None \notin Nat /\ None \notin Owned

Catalog == [package : Package, runtime : Runtime]

Content(p) ==
    IF p = "config" THEN Config
    ELSE IF p = "pointer" THEN {None} \cup Nat
    ELSE IF p = "plugin" THEN Package \cup {None}
    ELSE IF p \in Runtime THEN Catalog \cup {None, HostOwn}
    ELSE {None, p}

IsHome(h) == DOMAIN h = Path /\ \A p \in Path : h[p] \in Content(p)

Idle == [at |-> "idle", kind |-> "none", package |-> None, runtime |-> None, previous |-> None,
         candidate |-> <<>>, saved |-> <<>>, before |-> <<>>, left |-> <<>>]

Outcomes ==
    {"none", "installed", "migrated", "uninstalled", "undone", "refused", "broken", "dead"}

Steps ==
    {"idle", "snapshot", "compare", "write", "verify", "effective", "again", "receipt", "point",
     "read", "unchanged", "restore", "config", "plugin", "unpoint", "record", "rollback"}

TypeOK ==
    /\ IsHome(home)
    /\ IsHome(history.start)
    /\ IsHome(history.original)
    /\ home.pointer # None => home.pointer <= Len(receipts)
    /\ \A i \in 1 .. Len(receipts) :
         /\ receipts[i].runtime \in Runtime
         /\ receipts[i].owned \subseteq Package
         /\ DOMAIN receipts[i].before \subseteq Runtime \cup Package \cup {"config"}
         /\ receipts[i].owned \cup {"config", receipts[i].runtime}
              \subseteq DOMAIN receipts[i].before
    /\ job.at \in Steps
    /\ \A i \in 1 .. Len(job.left) : job.left[i] \in Path
    /\ outcome \in Outcomes

-----------------------------------------------------------------------------

Goto(step) == job' = [job EXCEPT !.at = step]

Put(p, content) == home' = [home EXCEPT ![p] = content]

Spend(what) == budget[what] > 0 /\ budget' = [budget EXCEPT ![what] = @ - 1]

Ends(as) ==
    /\ job' = Idle
    /\ outcome' = as
    /\ history' = [history EXCEPT !.clean = @ /\ as # "broken"]
    /\ UNCHANGED <<receipts, approved, budget>>

Begins(j) ==
    /\ job.at = "idle"
    /\ Spend("commands")
    /\ job' = j
    /\ history' = [history EXCEPT !.start = home, !.quiet = TRUE, !.during = "idle"]
    /\ UNCHANGED <<home, receipts, approved, outcome>>

(* config.toml is gone *)
NoConfig == [text |-> 0, tail |-> 0, threads |-> "absent", keys |-> None]

(* snapshot *)
Snapshot(paths) == [p \in paths |-> home[p]]

(* managed *)
Managed(runtime, package) == {"config", runtime, package}

(* discover: the plugin the host has is the package's *)
Discovered(package) == home.plugin = package

(* ensure_thread_capacity *)
Capable(config) == [config EXCEPT !.threads = "enough"]

(* split_owned_tables: the block ends in a table of an agent's, and every line up to *)
(* the next header goes with it, those below the end of the block included           *)
WithoutTail(config) == [config EXCEPT !.tail = 0]

(* config_candidate: what the user has, without the keys that Casefile owns, and these *)
Candidate(package, runtime) ==
    [WithoutTail(Capable(home.config)) EXCEPT
        !.keys = [runtime |-> runtime, profiles |-> package, executable |-> package]]

CatalogOf(package, runtime) == [package |-> package, runtime |-> runtime]

(* prepare: what an installation is going to write *)
Plan(package, runtime) ==
    [p \in Managed(runtime, package) |->
       IF p = "config" THEN Candidate(package, runtime)
       ELSE IF p = runtime THEN CatalogOf(package, runtime)
       ELSE package]

(* profile_config: the same configuration with the roles of another package *)
Reprofiled(package) == [WithoutTail(home.config) EXCEPT !.keys.profiles = package]

(* unowned_config *)
Unowned(config) == [WithoutTail(config) EXCEPT !.keys = None]

-----------------------------------------------------------------------------
(* install *)

PrepareInstall(package, runtime) ==
    /\ Discovered(package)
    /\ Begins([Idle EXCEPT
                 !.at = "snapshot", !.kind = "install", !.package = package,
                 !.runtime = runtime, !.previous = home.pointer,
                 !.candidate = Plan(package, runtime)])

(* Mutant: the files as they are now, which are Casefile's own. *)
BeforeNow(paths) == Snapshot(paths)

(* What was there before Casefile: the receipt in force is carried forward *)
Before(paths) ==
    IF job.previous = None THEN Snapshot(paths)
    ELSE LET before == receipts[job.previous].before IN
           [p \in DOMAIN before \cup paths |-> IF p \in DOMAIN before THEN before[p] ELSE home[p]]

(* Mutant: the pointer is not in the snapshot. *)
SavedFiles(paths) == paths

Saved(paths) == paths \cup {"pointer"}

SnapshotInstall ==
    /\ job.at = "snapshot" /\ job.kind = "install"
    /\ LET paths == Managed(job.runtime, job.package) IN
         job' = [job EXCEPT !.at = "write", !.saved = Snapshot(Saved(paths)),
                            !.before = Before(paths),
                            !.left = <<job.package, "config", job.runtime>>]
    /\ UNCHANGED <<home, receipts, approved, outcome, history, budget>>

(* atomic_copy of the executable, atomic_write of the rest *)
Write ==
    /\ job.at = "write"
    /\ Put(Head(job.left), job.candidate[Head(job.left)])
    /\ job' = [job EXCEPT !.left = Tail(@),
                          !.at = IF Len(job.left) = 1 THEN "verify" ELSE "write"]
    /\ UNCHANGED <<receipts, approved, outcome, history, budget>>

(* verify_config: the keys Casefile owns *)
ConfigHolds == home.config.keys = job.candidate.config.keys

(* verify_effective_catalog, and read_catalog *)
CatalogHolds ==
    home[job.runtime] \in Catalog /\ home[job.runtime].runtime = job.runtime

(* The last look: install verifies the keys again, a migration every byte it wrote *)
StillHolds ==
    IF job.kind = "install" THEN ConfigHolds
    ELSE \A p \in DOMAIN job.candidate : home[p] = job.candidate[p]

Holds ==
    CASE job.at = "verify" -> ConfigHolds
      [] job.at = "effective" -> CatalogHolds
      [] job.at = "again" -> StillHolds

Verify ==
    /\ job.at \in {"verify", "effective", "again"}
    /\ Holds
    /\ Goto(CASE job.at = "verify" -> "effective"
              [] job.at = "effective" -> "again"
              [] job.at = "again" -> "receipt")
    /\ UNCHANGED <<home, receipts, approved, outcome, history, budget>>

OwnedExecutables ==
    {job.package} \cup (IF job.previous = None THEN {} ELSE receipts[job.previous].owned)

WriteReceipt ==
    /\ job.at = "receipt"
    /\ receipts' = Append(receipts,
                          IF job.kind = "install"
                            THEN [runtime |-> job.runtime, owned |-> OwnedExecutables,
                                  before |-> job.before]
                            ELSE receipts[job.previous])
    /\ Goto("point")
    /\ UNCHANGED <<home, approved, outcome, history, budget>>

Point ==
    /\ job.at = "point"
    /\ Put("pointer", Len(receipts))
    /\ Ends(IF job.kind = "install" THEN "installed" ELSE "migrated")

-----------------------------------------------------------------------------
(* migrate-models: preview, then application under the digest of what was shown *)

(* prepare: the files that are read and the files that will be written *)
Migration ==
    LET r == receipts[home.pointer].runtime IN
      [observed |-> Snapshot({"config", r, "pointer"}),
       candidate |-> [p \in {"config", r} |->
                        IF p = "config" THEN Reprofiled(home.plugin)
                        ELSE CatalogOf(home.plugin, r)],
       runtime |-> r]

MayMigrate ==
    /\ home.pointer # None
    /\ home.plugin # None
    /\ home.config.keys \in Owned
    /\ home.config.keys.runtime = receipts[home.pointer].runtime
    /\ home[receipts[home.pointer].runtime] \in Catalog

Preview ==
    /\ job.at = "idle"
    /\ MayMigrate
    /\ approved # Migration
    /\ approved' = Migration
    /\ UNCHANGED <<home, receipts, job, outcome, history, budget>>

PrepareMigration ==
    /\ MayMigrate
    /\ approved = Migration
    /\ Begins([Idle EXCEPT
                 !.at = "snapshot", !.kind = "migrate", !.package = home.plugin,
                 !.runtime = Migration.runtime, !.previous = home.pointer,
                 !.candidate = Migration.candidate])

Observed == \A p \in DOMAIN approved.observed : home[p] = approved.observed[p]

(* Mutant: what the migration is going to change is not compared again. *)
ObservedOnce == TRUE

StillObserved == Observed

Changed == {p \in DOMAIN job.candidate : job.candidate[p] # approved.observed[p]}

SnapshotMigration ==
    /\ job.at = "snapshot" /\ job.kind = "migrate"
    /\ Observed
    /\ Changed # {}
    /\ job' = [job EXCEPT !.at = "compare", !.saved = Snapshot(Saved(Changed)),
                          !.left = (IF "config" \in Changed THEN <<"config">> ELSE <<>>)
                                   \o (IF job.runtime \in Changed THEN <<job.runtime>> ELSE <<>>)]
    /\ UNCHANGED <<home, receipts, approved, outcome, history, budget>>

Compare ==
    /\ job.at = "compare"
    /\ StillObserved
    /\ Goto("write")
    /\ UNCHANGED <<home, receipts, approved, outcome, history, budget>>

(* Before anything is written a command ends without a rollback. *)
Refuse ==
    /\ job.kind = "migrate"
    /\ \/ job.at = "snapshot" /\ (~ Observed \/ Changed = {})
       \/ job.at = "compare" /\ ~ StillObserved
    /\ Ends("refused")
    /\ UNCHANGED home

-----------------------------------------------------------------------------
(* uninstall, of the receipt in force or of any other one that is named *)

PrepareRemoval(i) ==
    Begins([Idle EXCEPT !.at = "snapshot", !.kind = "uninstall", !.previous = i,
                        !.runtime = receipts[i].runtime, !.before = receipts[i].before])

Current == {"config", job.runtime} \cup receipts[job.previous].owned \cup DOMAIN job.before

SnapshotRemoval ==
    /\ job.at = "snapshot" /\ job.kind = "uninstall"
    /\ job' = [job EXCEPT !.at = "read", !.saved = Snapshot(Saved(Current) \cup {"plugin"})]
    /\ UNCHANGED <<home, receipts, approved, outcome, history, budget>>

ReadConfig ==
    /\ job.at = "read"
    /\ job' = [job EXCEPT !.at = "unchanged",
                          !.candidate = [p \in {"config"} |-> Unowned(home.config)]]
    /\ UNCHANGED <<home, receipts, approved, outcome, history, budget>>

NothingChanged == \A p \in Current : home[p] = job.saved[p]

Unchanged ==
    /\ job.at = "unchanged"
    /\ NothingChanged
    /\ job' = [job EXCEPT !.at = "restore", !.left = SetToSeq(DOMAIN job.before \ {"config"})]
    /\ UNCHANGED <<home, receipts, approved, outcome, history, budget>>

RestoreOriginal ==
    /\ job.at = "restore"
    /\ Put(Head(job.left), job.before[Head(job.left)])
    /\ job' = [job EXCEPT !.left = Tail(@),
                          !.at = IF Len(job.left) = 1 THEN "config" ELSE "restore"]
    /\ UNCHANGED <<receipts, approved, outcome, history, budget>>

ConfigAfter == job.candidate.config

WriteConfig ==
    /\ job.at = "config"
    /\ Put("config", ConfigAfter)
    /\ Goto("plugin")
    /\ UNCHANGED <<receipts, approved, outcome, history, budget>>

RemovePlugin ==
    /\ job.at = "plugin"
    /\ Put("plugin", None)
    /\ Goto("unpoint")
    /\ UNCHANGED <<receipts, approved, outcome, history, budget>>

Unpoint ==
    /\ job.at = "unpoint"
    /\ Put("pointer", None)
    /\ Goto("record")
    /\ UNCHANGED <<receipts, approved, outcome, history, budget>>

Record ==
    /\ job.at = "record"
    /\ job' = Idle
    /\ outcome' = "uninstalled"
    /\ history' = [history EXCEPT !.clean = @ /\ history.start.pointer = job.previous]
    /\ UNCHANGED <<home, receipts, approved, budget>>

-----------------------------------------------------------------------------
(* a failing call: everything in the snapshot is written back *)

(* The steps inside the try block of a command *)
Guarded ==
    {"write", "verify", "effective", "again", "receipt", "point",
     "read", "unchanged", "restore", "config", "plugin", "unpoint", "record"}

Refuted ==
    \/ job.at \in {"verify", "effective", "again"} /\ ~ Holds
    \/ job.at = "unchanged" /\ ~ NothingChanged

Fails ==
    /\ job.at \in Guarded
    /\ \/ Spend("mishaps")
       \/ Refuted /\ UNCHANGED budget
    /\ job' = [job EXCEPT !.at = "rollback", !.left = SetToSeq(DOMAIN job.saved)]
    /\ UNCHANGED <<home, receipts, approved, outcome, history>>

RollBack ==
    /\ job.at = "rollback"
    /\ job.left # <<>>
    /\ Put(Head(job.left), job.saved[Head(job.left)])
    /\ job' = [job EXCEPT !.left = Tail(@)]
    /\ UNCHANGED <<receipts, approved, outcome, history, budget>>

RolledBack ==
    /\ job.at = "rollback"
    /\ job.left = <<>>
    /\ Ends("undone")
    /\ UNCHANGED home

(* restore removes a path before it copies the saved one there. *)
RollBackFails ==
    /\ job.at = "rollback"
    /\ job.left # <<>>
    /\ Spend("mishaps")
    /\ \/ Put(Head(job.left), IF Head(job.left) = "config" THEN NoConfig ELSE None)
       \/ UNCHANGED home
    /\ job' = Idle
    /\ outcome' = "broken"
    /\ history' = [history EXCEPT !.clean = FALSE]
    /\ UNCHANGED <<receipts, approved>>

-----------------------------------------------------------------------------
(* what no command does *)

Dies ==
    /\ job.at # "idle"
    /\ Spend("mishaps")
    /\ job' = Idle
    /\ outcome' = "dead"
    /\ history' = [history EXCEPT !.clean = FALSE]
    /\ UNCHANGED <<home, receipts, approved>>

(* An edit between two commands is an ordinary one; one in the middle disturbs. *)
Edits(config) ==
    /\ Spend(IF job.at = "idle" THEN "commands" ELSE "mishaps")
    /\ Put("config", config)
    /\ history' = [history EXCEPT !.text = config.text, !.tail = config.tail,
                                  !.during = job.at, !.quiet = FALSE,
                                  !.clean = @ /\ job.at = "idle"]
    /\ UNCHANGED <<receipts, approved, job, outcome>>

UserWrites ==
    Edits([home.config EXCEPT !.text = @ + 1])

UserWritesBelow ==
    /\ home.config.keys \in Owned
    /\ Edits([home.config EXCEPT !.tail = @ + 1])

UserSwitchesRuntime(runtime) ==
    /\ home.config.keys \in Owned
    /\ home.config.keys.runtime # runtime
    /\ Edits([home.config EXCEPT !.keys.runtime = runtime])

HostInstallsPlugin(package) ==
    /\ job.at = "idle"
    /\ home.plugin # package
    /\ Spend("commands")
    /\ Put("plugin", package)
    /\ history' = [history EXCEPT !.quiet = FALSE]
    /\ UNCHANGED <<receipts, approved, job, outcome>>

-----------------------------------------------------------------------------

Init ==
    /\ \E keys \in {None, HostOwn}, own \in Occupied :
         home = [p \in Path |->
                   IF p = "config" THEN [NoConfig EXCEPT !.keys = keys]
                   ELSE IF p \in own THEN HostOwn
                   ELSE IF p = "plugin" THEN FirstPackage
                   ELSE None]
    /\ receipts = <<>>
    /\ approved = None
    /\ job = Idle
    /\ outcome = "none"
    /\ history = [start |-> home, original |-> home, text |-> 0, tail |-> 0,
                  during |-> "idle", quiet |-> TRUE, clean |-> TRUE]
    /\ budget \in Bounds

Install ==
    \/ \E package \in Package, runtime \in Runtime : PrepareInstall(package, runtime)
    \/ SnapshotInstall \/ Write \/ Verify \/ WriteReceipt \/ Point

Migrate == Preview \/ PrepareMigration \/ SnapshotMigration \/ Compare \/ Refuse

Uninstall ==
    \/ \E i \in 1 .. Len(receipts) : PrepareRemoval(i)
    \/ SnapshotRemoval \/ ReadConfig \/ Unchanged \/ RestoreOriginal \/ WriteConfig
    \/ RemovePlugin \/ Unpoint \/ Record

Others ==
    \/ Fails \/ RollBack \/ RolledBack \/ RollBackFails \/ Dies
    \/ UserWrites \/ UserWritesBelow
    \/ \E runtime \in Runtime : UserSwitchesRuntime(runtime)
    \/ \E package \in Package : HostInstallsPlugin(package)

Next == Install \/ Migrate \/ Uninstall \/ Others

Spec == Init /\ [][Next]_codexVars

-----------------------------------------------------------------------------
(* A command that fails, and that nobody disturbed, leaves the whole home  *)
(* as it was: the configuration, the catalogs, the executables, the plugin *)
(* and the receipt in force, wherever the failure fell.                    *)
(* setup-codex.py:916-922, 1048-1054, codex_model_migration.py:196-201.     *)
FailureLeavesHome ==
    outcome = "undone" /\ job.at = "idle" /\ history.quiet => home = history.start

(* Through any sequence of installations of both runtimes and of several   *)
(* packages, migrations and failures that were undone, the user's text in  *)
(* config.toml is not touched, and removal puts every catalog and          *)
(* executable back to what was there before the first installation.  Of    *)
(* the lines he wrote directly below Casefile's block, with no table       *)
(* header of their own, nothing is said: every command that goes through   *)
(* drops them (split_owned_tables, setup-codex.py:466-490).                *)
(* setup-codex.py:863-871, 1030-1041; codex-uninstall/SKILL.md:9-13.        *)
RemovalRestoresHost ==
    job.at = "idle" /\ history.clean =>
        /\ home.config.text = history.text
        /\ outcome = "uninstalled" =>
             /\ home.config.keys = None
             /\ home.pointer = None
             /\ \A p \in Runtime \cup Package : home[p] = history.original[p]

(* A migration writes what the user approved and nothing that he wrote     *)
(* since: an edit made before its last comparison is never overwritten,    *)
(* whatever fails afterwards.  The lines below Casefile's block that were  *)
(* there when he approved go with the profiles that are replaced; those    *)
(* written since are kept.  codex_model_migration.py:153-157, 172-174.     *)
MigrationKeepsEdits ==
    job.kind = "migrate" /\ history.during \in {"snapshot", "compare"} =>
        /\ home.config.text = history.text
        /\ home.config.tail = history.tail \/ history.tail = approved.observed.config.tail
=============================================================================
