---------------------------------- MODULE Host -----------------------------------
(***************************************************************************)
(* The programs beside the Store: the set-up of the Claude and of the      *)
(* Codex adapter, the writer resolver of the Codex adapter and an edit in  *)
(* the workbench.  A behaviour is one of a single program and the          *)
(* variables of the others keep the value None: they share no file, but    *)
(* that what the Codex set-up writes is what changes in the world of the   *)
(* resolver.                                                               *)
(***************************************************************************)
EXTENDS Naturals, Sequences

CONSTANTS
    Release, Root, DepthOf, UserDepth, Foreign, MaxCommands, ClaudeMishaps,  \* of ClaudeSetup
    Runtimes, Package, HostOwn, Occupied, FirstPackage, Bounds,              \* of CodexSetup
    Pair, Profiled, Visible, Pinned, Neither, MaxChanges,                    \* of WriterResolver
    Words, MaxSessions, MaxOthers,                                           \* of EditSession
    None

VARIABLES
    program,  \* which one it is
    claudeHome, claudeReceipts, claudeJob, claudeOutcome, claudeHistory, claudeBudget,
    codexHome, codexReceipts, codexApproved, codexJob, codexOutcome, codexHistory, codexBudget,
    config, catalogs, listed, matrix, binding, ticket, run, choice, changes,
    record, others, number, at, entry, drafts, saved, text, preview, said, written

Claude == INSTANCE ClaudeSetup WITH
    Version <- Release, MaxMishaps <- ClaudeMishaps,
    home <- claudeHome, receipts <- claudeReceipts, job <- claudeJob,
    outcome <- claudeOutcome, history <- claudeHistory, budget <- claudeBudget

Codex == INSTANCE CodexSetup WITH
    Runtime <- Runtimes,
    home <- codexHome, receipts <- codexReceipts, approved <- codexApproved, job <- codexJob,
    outcome <- codexOutcome, history <- codexHistory, budget <- codexBudget

Writer == INSTANCE WriterResolver

Editing == INSTANCE EditSession WITH Absent <- None

(* Paths are told apart, and None is none of the values it stands beside.  *)
ASSUME ClaudeHolds == Claude!ClaudeAssumption
ASSUME CodexHolds == Codex!CodexAssumption
ASSUME WriterHolds == Writer!WriterAssumption
ASSUME EditHolds == Editing!EditAssumption

claudeVars ==
    <<claudeHome, claudeReceipts, claudeJob, claudeOutcome, claudeHistory, claudeBudget>>

codexVars ==
    <<codexHome, codexReceipts, codexApproved, codexJob, codexOutcome, codexHistory, codexBudget>>

writerVars == <<config, catalogs, listed, matrix, binding, ticket, run, choice, changes>>

editVars ==
    <<record, others, number, at, entry, drafts, saved, text, preview, said, written>>

hostVars == <<program, claudeVars, codexVars, writerVars, editVars>>

NoClaude ==
    /\ claudeHome = None /\ claudeReceipts = None /\ claudeJob = None
    /\ claudeOutcome = None /\ claudeHistory = None /\ claudeBudget = None

NoCodex ==
    /\ codexHome = None /\ codexReceipts = None /\ codexApproved = None /\ codexJob = None
    /\ codexOutcome = None /\ codexHistory = None /\ codexBudget = None

NoWriter ==
    /\ config = None /\ catalogs = None /\ listed = None /\ matrix = None /\ binding = None
    /\ ticket = None /\ run = None /\ choice = None /\ changes = None

NoEdit ==
    /\ record = None /\ others = None /\ number = None /\ at = None /\ entry = None
    /\ drafts = None /\ saved = None /\ text = None /\ preview = None /\ said = None
    /\ written = None

HostInit ==
    \/ program = "claude" /\ Claude!Init /\ NoCodex /\ NoWriter /\ NoEdit
    \/ program = "codex" /\ Codex!Init /\ NoClaude /\ NoWriter /\ NoEdit
    \/ program = "writer" /\ Writer!Init /\ NoClaude /\ NoCodex /\ NoEdit
    \/ program = "edit" /\ Editing!Init /\ NoClaude /\ NoCodex /\ NoWriter

HostNext ==
    /\ UNCHANGED program
    /\ \/ program = "claude" /\ Claude!Next /\ UNCHANGED <<codexVars, writerVars, editVars>>
       \/ program = "codex" /\ Codex!Next /\ UNCHANGED <<claudeVars, writerVars, editVars>>
       \/ program = "writer" /\ Writer!Next /\ UNCHANGED <<claudeVars, codexVars, editVars>>
       \/ program = "edit" /\ Editing!Next /\ UNCHANGED <<claudeVars, codexVars, writerVars>>

HostSpec == HostInit /\ [][HostNext]_hostVars

-----------------------------------------------------------------------------
(* A Claude command whose rollback is reported as verified has undone what *)
(* ClaudeSetup!UndoneIsUndone says (setup-claude.py:306-351, 390-401).     *)
UndoneIsUndone == program = "claude" => Claude!UndoneIsUndone

(* Removal leaves the Claude host as it was before the first installation, *)
(* through reinstallations, upgrades and undone failures                   *)
(* (setup-claude.py:289-300, 384).                                         *)
RemovalRestoresOriginal == program = "claude" => Claude!RemovalRestoresOriginal

(* A Codex command that fails leaves the whole home as it was              *)
(* (setup-codex.py:916-922, 1048-1054).                                    *)
FailureLeavesHome == program = "codex" => Codex!FailureLeavesHome

(* Removal of the Codex integration keeps the user's text, but not what he *)
(* wrote directly below Casefile's block, and puts every catalog and       *)
(* executable back to what was there before Casefile                       *)
(* (setup-codex.py:466-490, 863-871, 1030-1041).                           *)
RemovalRestoresHost == program = "codex" => Codex!RemovalRestoresHost

(* A migration of the catalog never overwrites an edit made before its     *)
(* last comparison (codex_model_migration.py:152-177).                     *)
MigrationKeepsEdits == program = "codex" => Codex!MigrationKeepsEdits

(* A spawn is of one runtime and of the writer that is bound               *)
(* (resolve-writer-binding.py:355-430).                                    *)
SpawnIsOfTheBoundWriter == program = "writer" => Writer!SpawnIsOfTheBoundWriter

(* Neither the user's text nor another planner's is lost to an edit in the *)
(* workbench (edit.rs:12-140, main.rs:189-220).                            *)
EditsAreNotLost == program = "edit" => Editing!EditsAreNotLost
=============================================================================
