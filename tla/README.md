# A verification project for Casefile

Casefile keeps a *Store* of governed Markdown and TOML records in a Git
worktree: investigations with tickets, epics, boards, decisions, a progress log
and strategies. No database and no server owns the Store. Any number of
processes (command line, MCP server, HTTP workbench, terminal interface) and of
threads in them read and change the same files, and so do editors and Git,
which know nothing of Casefile's locks. Set-up scripts bind all of it to the
agent hosts Claude Code and Codex, whose configuration belongs to the user.

What can go wrong is therefore of four kinds: optimistic mutations under
advisory file locks, with rollback and retries; caches and presentations
derived from files that change while they are read; threads that hand work
over to each other; and scripts that change a home directory step by step and
promise to undo it. This project models each of them in TLA+, checks it with
TLC on small instances and proves the central invariants with TLAPS for
instances of any size.

## Inventory

Paths are below `casefile/`; the last column says what the models cover.

| Component | State it keeps | Operations | Status |
|---|---|---|---|
| Mutation engine: `casefile-store/src/mutation*.rs`, `writing.rs`, `revision.rs` | record files with metadata revisions; lock files under `.git`; a context per running operation; previews in the hands of clients | preview, apply, batch preview and batch apply | modelled |
| Dependency discovery and cross validation: `mutation_dependencies.rs`, `mutation_projection.rs`, `mutation_metadata.rs`, `references.rs`, `validation.rs` | none (computed from files and the batch) | discover, locks, run, introduced_diagnostics | partly: tickets and epics |
| Publication and rollback: `mutation_restore.rs` | receipts of published files | apply, rollback, restore | modelled, system call by system call |
| Progress mutations: both `progress.rs` | one append-only log per investigation | preview, apply (append, replace, bootstrap) | partly: no malformed logs |
| Governance: `governance.rs`, `strategy*.rs` | matrix per phase, bindings, transition records | select, bind, require a writer | modelled |
| Retained previews: `provider/preview_vault.rs`, `provider/review.rs` | up to 256 previews by id | retain, get, apply by id | partly: the vault, inside the MCP session |
| Derived index: `provider/indexed.rs`, `provider/watching.rs`, `index.rs`, `casefile-store-sqlite` | event epochs, an SQLite file that processes share | refresh, publish, answer | modelled |
| Presentation sessions: `presentation/` | loads, bounded channels, retained scopes with derived facts, content handles | load, receive, cancel, drop, fetch content | modelled |
| Scanning, activation, layout: `scanning/`, `activation.rs`, `layout.rs`, `checking.rs` | none | walk, inventory, classify, check | partly: inventories and reads around them |
| Record formats: `casefile-core/src/*.rs` | none | parse, render | not modelled |
| MCP session: `casefile-cli/src/mcp.rs` | reader, workers, queue, one output | messages, shutdown | modelled |
| HTTP server and workbench: `casefile-server` | none beyond the provider | handlers | not modelled |
| Terminal interface: `casefile-tui` | freshness of scopes, loads, watcher; what is shown, lists kept by increments, selection and filter | observe, refresh, fetch, reduce, merge, promote, browse | partly: no boards and record views |
| Command line: `casefile-cli` | a draft per edit | edit; one provider call per command | partly: the edit |
| Set-up scripts: `adapters/{claude,codex,shared}` | the host's configuration, receipts, backups | install, uninstall, migrate | partly: no symbolic links |
| Writer resolver: `resolve-writer-binding.py`, `list-codex-models.py` | none | offer, select, resolve | partly: no malformed input |
| Web client, packaging, skills, scripts | none | | not modelled |

**How the components meet.** All mutations (records, progress, governance) go
through `MutationContext`. It discovers the dependencies of a change, takes one
lock file per dependency in key order, discovers again under the locks, reads
every dependency and validates that nothing moved. A mutation is a preview
(shared locks) whose revisions travel to the client and come back with the
application (exclusive locks for what is written). Publication writes files one
by one; `mutation_restore` takes them back when a later one fails. The index and
the presentation sessions read the files without locks, compare metadata before
and after, and listen to file events. The MCP session and the terminal are
threads around those. The resolver reads what governance, set-up and the user
write, and decides which writer a host spawns.

**What is hard.** Interleavings of captures and publications; circular waits
for lock files; editors that save between any two system calls; partial failure
and crashes; retries of what was already done; validation of a whole Store from
a few of its files; caches believed after they became stale; threads that sleep,
join or hang up in an unfortunate order; a script that fails half way through a
home directory, or reads one configuration three times. `PROJECT.json` lists
these hazards at their lines, with the properties that would catch each, or why
none does.

## The modules

| Module | Code | State and actions |
|---|---|---|
| `Records` | `references.rs`, `validation.rs`, `mutation_metadata.rs`, `mutation_dependencies.rs`, `writing.rs` | Pure operators: references, resolution, diagnostics, `DependencyPaths`, `Locks`, `Rejected`. A record body is its references and one symbol for the rest. |
| `RecordStore` | the contract of `preview_batch` and `apply_batch` | Abstract: `Approve`, `Forget`, `Commit` on a store without files, locks or failures. |
| `Mutation` | `mutation*.rs`, `writing.rs` | One action per step of an operation: the call, `Discover`, `Acquire` (one key), `Confirm`/`Outdated`, `ReadFiles`, `Prepare*`/`Approve`, `Verify*`, `Publish`/`PublishFails` (one file), `Observe*`, `Restore`, `FinishRollback`; and `Fails`, `Crash`, `Edit`. `want`, `held`, `checked`, `seen` are the fields of `MutationContext`; `approved` is `expected_input_revisions`; `receipts` is the vector of `apply_batch_values`. |
| `Discovery` | `mutation_dependencies.rs`, `writing.rs` | `Accept` and `Refuse` of one client at a time over every small store, broken ones included. |
| `Rollback` | `mutation_restore.rs` | One transaction, one system call per action: `Stage`, `Publish` (rename, link or unlink), `Stamp` (the revision through the handle), `Look`, `Identify`, `Put`; `Edit` between any two. Files have bodies, inodes, which are used again, and revisions. |
| `ProgressLog`, `ProgressLedger`, `Progress` | both `progress.rs` | Operators `Valid`, `Proposed`, `Sound`; the abstract ledger (`Change`, `Move`); the operations with locks, five outcomes of the check, publication, verification, restoration, crashes. |
| `Strategy`, `Governance` | `strategy.rs`, `strategy_transition.rs`, `governance.rs` | Operators for capacity, graphability and overlap of claims; selections, bindings and permits of several clients: `Preview`, `Begin`, `Acquire`, the checks, `Publish` file by file, `Verify`, `Restore`; `Advance` of tickets, `Edit`, `Crash`. |
| `IndexRefresh` | `provider/indexed.rs`, `provider/watching.rs`, `scanning/inventory.rs`, `casefile-store-sqlite` | A call of a process: `Observe`, walks of metadata file by file, `Scan`, reading and comparing the published index, deriving, `Publish` by rename, reconciliation; events that are delivered late, lost or errors; loud and quiet edits; a crash. |
| `Projection` | `presentation/facts.rs`, `derived/*.rs`, `scanning.rs` | `Derived` (facts from all files of a scope) and `Projected` (what `project_scope` keeps of the previous load). |
| `Presentation` | `presentation/*.rs` | `Accepts`, `Opens`, `Receives`, `Cancels`, `Drops` of clients; the thread of a load: catalogue, walk, reads, rechecks, entries, commit, completion, failure; the channel with the token of `park`. |
| `McpSession` | `casefile-cli/src/mcp.rs`, `provider/preview_vault.rs` | Reader thread, main loop behind a rendezvous channel, workers behind a queue, the output, shutdown and joins, retained previews and what applying them does to the revision of each file; others who write and delete files (`Meddles`). |
| `Freshness`, `Terminal` | `casefile-tui/src/watching.rs`, `progressive*.rs` | The reducer as operators; adapter, loop, coordinator, loader and content threads around it. |
| `Browsing` | `browsing.rs`, `browsing/projection.rs`, `workbench.rs`, `workbench/{projection,facts}.rs`, `progressive.rs`, `progressive/{loading,content}.rs` | One turn of the workbench's loop: the events a drain takes (`CatalogueArrives`, `EntriesArrive`, `LoadCompletes`, `LoadFails`, `Content*`), what they change in what is shown (`Shows`: `Merged`, then `Promoted` or `Filled`, then `Asked` for content), and a key (`SetsView`, `Moves`, `Filters`, `Refreshes`, `Edits`, `Idles`); `Changes` of the files at any time. |
| `ClaudeSetup`, `CodexSetup` | `setup-claude.py`, `setup-codex.py`, `codex_model_migration.py`, `casefile_runtime.py` | Commands step by step: each write or call of the host is an action, any may fail or be the last before death; questions to the host that fail and pass for an empty answer (`*Blind`); undoing, receipts and backups; the user's own changes. |
| `WriterResolver` | `resolve-writer-binding.py`, `list-codex-models.py`, `governance.rs` | `offer`, `select`, `resolve`, a read at a time; the world changes between reads. |
| `EditSession` | `casefile-cli/src/edit.rs`, `tui.rs`, `editor.rs`, `main.rs` | Draft, editor, parsing, preview, decision, application, drafts that stay behind; other planners. |
| `Host` | | Composes the last four, which share no file, so that one run and one set of theorems are about them: a behaviour is of one of them, and the variables of the others keep the value `None`. |
| `Workbench` | | Composes `Terminal` and `Browsing` in the same way: a behaviour is of one of the two. |
| `MC*` | | Instances for TLC. `MCPublication` holds several modules that share no state in one run; a behaviour is of one of them. |
| `MutationProofs`, `ProgressProofs`, `RollbackProofs`, `GovernanceProofs`, `IndexRefreshProofs`, `PresentationProofs`, `TerminalProofs`, `HostProofs` | | Theorems; those of `Projection` are in `PresentationProofs`, those of `McpSession` and of everything around the hosts in `HostProofs`, those of `Terminal` and of `Browsing` in `TerminalProofs`. |

`Mutation` composes `Records` and implements `RecordStore`; `Progress` composes
`ProgressLog` and implements `ProgressLedger`; `Governance` composes `Strategy`,
`Presentation` composes `Projection`, `Terminal` composes `Freshness`.
`Rollback` refines the step `Restore` of `Mutation` where editors are
concerned.

### Correspondence, and what is abstracted

* A *revision* is a number that each write draws from a clock. In the code it
  is a hash of device, inode, length and times, so two versions can share it on
  a coarse clock (a test in `revision.rs` admits this). `IndexRefresh` has such
  quiet edits; the other modules assume there are none. Absent files share one
  revision, as in the code.
* *Keys* of `Mutation` are numbers, identities below paths: every `identity:`
  key sorts before every `path:` key. One investigation, so a record's scope is
  left out of its keys. Identity is the stem of the file name, which
  `work_item.rs` requires.
* In `Mutation`, capture, verification and discovery are one step each. They
  read many files in the code, but each is checked by a later one under the same
  locks (`require_unchanged`), and editors come in between all of them.
  `Publish` picks any unpublished target; the code takes the caller's order.
* An approval is the capture itself: target revisions and the diff are
  determined by the same files. A preview is not used up by an application.
* `Progress` and `Governance` grant the locks of an operation together and
  preview in one step, since `Mutation` has those parts one by one. Logs have
  canonical bytes. In `Governance` the progress log is an environment that
  starts and finishes tickets.
* `IndexRefresh`: a file is a revision and a datum, a projection is the data of
  all files; calls of one process follow each other, for they hold its watch
  mutex.
* `Presentation`: a walk, the reads of a scope and the rechecks of its metadata
  are one step each, one batch of entries per scope; kinds and scopes of paths
  are fixed; `validate_target` is among what `Breaks` a load; a content fetch is
  the operator `Selects`, which decides whether a handle still resolves.
  Diagnostics are sets, though repeated read failures append the same
  `presentation_read` diagnostic again. Edits and mishaps share a bound.
* `McpSession`: tools are the two that carry state from call to call, preview
  and apply, in kinds. The Store is a revision per file, and an absent file has none,
  so disjoint previews do not disturb each other. A preview knows the revisions of what
  it changes and of what its validation reads (`reads`, which stands for the dependencies
  of `Mutation`); which of the files that are there it writes, or finds as proposed, is
  open. A preview that cannot be made retains nothing and is left out.
* `Terminal`: events matter only in order; views are scopes.
* `Browsing`: a file is whether it is a work item, its identity, its title and a
  version; the views are projects, investigations, tickets and files; what the
  user may type is one of a few needles that match titles. The session that loads
  is external: a scope arrives as one batch, and a change comes right before it is
  read, where it is indistinguishable from an earlier one. The generation counters
  that key the cache of visible rows are left out: the rows are computed anew.
* `Records`: a reference is made once in each of the two lists of a record (`rel`,
  `sup`), so a diagnostic can occur twice at most, and `Occurrences` numbers it; the
  difference of sets then counts occurrences as `introduced_diagnostics` does.
* Set-up: contents are the version they come from; parsing of what a host
  answers is an outcome. Files are regular. The depth in `settings.json` is of one of
  five kinds, which the scripts treat differently: absent (or `null`), a string as
  Python prints numbers, another string that Python reads as a number, a value that is
  no string, a string that is no number. Of the layout of `config.toml` there is what
  stands directly below Casefile's block without a table header (`tail`); blank lines
  around the block are left out.
* `EditSession`: a record is a text in the form the user typed or `render_draft`
  lays it out. Check and publication of an application are one step among
  cooperating writers, as `Mutation` shows.

## The runs

| Run | Question | Instance |
|---|---|---|
| `mutation_atomic` | Is an application one step of `RecordStore`, with locks that exclude, waits that are ordered and captures that stay current? | 2 writers with 2 calls each, 3 paths (2 share an identity), 7 batches, 3 stores, 1 fault |
| `mutation_hostile` | Does publication start only on what was approved, whatever happens outside the locks, and does every operation return? | 2 crossed batches, 1 edit, 1 crash, 1 fault |
| `publication` | Do the selected files suffice, and are they never too few? What may the engine overwrite, put back and leave unreported? | all 729 stores of 3 paths, every change of one record and a move, a chain of supersessions; 4 transactions of 2 files, 2 edits, 2 faults, 4 inodes (symmetric) |
| `progress` | Is the log one that changes in single steps and loses nothing it acknowledged? | 2 clients (3 and 2 calls), 2 tickets, 5 requests, 2 faults, 1 crash |
| `governance` | Do matrix, record and binding change together, and does a permit stay true? | 2 clients with 2 turns, 2 phases, 7 requests, 4 starts, words of 4 bits, 1 move, 1 mishap |
| `index` | Is an answer that of a Store that existed during the call? | 2 processes, 2 files, 2 reads of the index or 1 of the files, 2 events |
| `presentation` | Are retained facts those from scratch, is a quiet load current, do handles resolve, is every sleeper woken? | 2 loads over 6 files of 2 scopes, channel of 1, 1 edit (one breaks `casefile.toml`) or mishap |
| `session` | Is every request answered, does a preview take effect again only on a file that was deleted, and does the session end? | 2 workers, 2 kinds, 2 files (one is created, one there at first), vault of 1, 4 messages, 1 mishap, which may be that somebody deletes the one and writes the other |
| `workbench` | Is what is stale warned of, and does a refresh clear the warnings? Do lists kept by increments show what was loaded, and does a reload leave the selected record selected? | freshness: a project with 2 nested investigations, 2 files, 2 events, 2 refreshes; browsing: 2 nested investigations, 3 tickets (2 share an identity or come to) and a lazy note, 6 starts with up to 2 changes, 2 keys, 2 refreshes, 1 edit or 1 failed load each |
| `host` | Is what fails undone, does removal give the host back, is a spawn of the bound writer, is no text lost? | per set-up 4 commands, 1 or 2 mishaps (Codex: with 2 mishaps, 2 commands), 2 versions, 5 kinds of depth; resolver: 2 pairs, 3 changes; 2 edits, 2 others |
| `aliased_supersession` | Can accepted batches close a supersession cycle when a record names one target twice? *Violated*, see below | 1 writer, a chain of 4 |
| `restored_freshness` | Is everything stale warned of? *Violated*, see below | as the freshness of `workbench` |

**Why the bounds are enough.** Two actors suffice for each pairwise hazard: one
captures, waits or publishes while the other confirms, commits or rolls back.
(The proofs remove this bound.) Two
calls are a preview and its application; the first client of `progress` has
three, so that it applies again what it already applied. The paths include two
places of one identity, which duplicates, moves and ambiguous references need.
One edit puts a change in every gap; `publication` has two, so that one save can
be followed by another's. Faults: in `mutation_atomic` a second one would let
the rollback itself fail, which the code reports as an incomplete rollback, an
outcome the abstract store does not have; `publication` and `progress` have two
and say what holds then. `mutation_atomic` has neither edits nor crashes for the
same reason: they change the Store outside its contract. A channel of one is
full at once, a vault of one evicts at once; 16 workers and a vault of 256 differ
in when, not in how. Two loads are one that supersedes another; four loads and
four mishaps were simulated without a counterexample. Four set-up commands are
install, upgrade or reinstall, a failed command, and removal. Deadlock is checked
everywhere but in `presentation` and `host`, where behaviours end when the
bounds are used up.

**Properties.** `LockExclusion`, `NoCircularWait`: the advisory locks.
`DependenciesStable`: the locks of an application protect all that the choice of
locks was derived from. `CapturesCurrent`: no cooperative writer changes what
another has captured. `Atomic` (of `Mutation`): refinement of `RecordStore`, in
which a commit requires unchanged targets and introduces no diagnostic of a
*full* scan. `PublishesWhatWasApproved`: every file the preview captured is that
very version when publication starts; its one exception is what the code does:
`require_revisions` takes a path it did not read for an absent one.
`NothingIntroduced`, `NoReferenceInvented`: local against full validation.
`EditsSurvive`: an editor's file is overwritten only inside the last system call
race that the comment in `restore` names (and an in-place rewrite with the very
bytes that were published passes for the publication).
`NothingHalfDoneUnreported`: what remains of a failed transaction. `AcknowledgedStays`,
`Atomic` (of `Progress`): the log. `PermitKeepsBinding`,
`BindingFits`, `SelectionRecorded`, `SelectedIsLawful`, `RecordsStay`:
governance. `AnswersFresh`, `CleanMeansCurrent`: the index. `FactsAsFromScratch`,
`QuietLoadIsCurrent`, `HandlesExact`, `SleepersAreWoken`: presentation.
`CleanEndAnswersAll`, `TakesEffectOnce`, `RefusedOnlyIfEvicted`, `SessionEnds`:
the MCP session. `TakesEffectOnce` says when an approval is good for a second
change of one file: only if the file was absent at the preview and was deleted after the
first change. `StaleIsWarnedUnlessBlind`, `RefreshClearsWarnings`: the
terminal's warnings. `ShownAsLoaded`: however merges, removals and refreshes are
interleaved, indices, lists, counts, filter hits and card paths are those a
computation from nothing gives, and after a completed load they are of what the
coordinator holds; what a load left behind that was given up before any had
completed is the exception (see below). `SelectionIsFollowed`: a completed reload
moves the selection only to the same record, or to nothing with a notice.
`UndoneIsUndone`, `RemovalRestoresOriginal` (Claude),
`FailureLeavesHome`, `RemovalRestoresHost`, `MigrationKeepsEdits` (Codex): the
set-up. What the scripts do not give back is excepted, no more: a depth that was no plain
string, a server that the first installation overlooked, the lines directly below
Casefile's block (see below). `SpawnIsOfTheBoundWriter`, `EditsAreNotLost`: resolver and edit. Every
stateful module has a type invariant `TypeOK`; the runs check that of `Mutation`,
and leave out the others, which say nothing the rest would not trip over.

**Fairness.** `mutation_hostile`: only `WF_vars(Operate(w))`, for an operation
that a client started is a thread the operating system schedules, and its system
calls return. Nobody has to start an operation, crash, edit or fail. A blocked
`Acquire` is not enabled, so a lock that is never released would be a
counterexample. Calls are bounded, so starvation of one waiter under unending
traffic is not addressed; `flock` gives no order that would exclude it.
`session`: weak fairness of the main loop and of each worker, which are threads,
and thereby of the writes of an answer, so of a client that drains the output or
closes it; a client that does neither stalls any process that writes to it. The
input thread waits for the client, so nothing is asked of it: `SessionEnds`
starts from the end of the input or a failed write. `presentation` states none: that a sleeper is
sure to be woken is the state invariant `SleepersAreWoken`, and what a client
does with its stream is up to the client.

## The proofs

For any sets of paths, identities, bodies, requests, entries, tickets, writers,
clients, processes, workers, targets, loads, versions, packages and texts, and any bounds:

| Theorem | Statement |
|---|---|
| `TypeCorrect` | `Spec => []TypeOK` of `Mutation` |
| `LocksExclude` | `Spec => []LockExclusion` |
| `WaitsAreOrdered` | `Spec => []NoCircularWait` |
| `CapturesStayCurrent` | `Spec => []CapturesCurrent` |
| `DependenciesStayStable` | `Spec => []DependenciesStable` |
| `PublishesTheApproved` | `Spec => PublishesWhatWasApproved` |
| `LocalJudgementIsExact` | `Judgements` (what `Discovery` specifies) never accepts a batch that brings a diagnostic of a full scan into the store, and refuses none but for such a diagnostic, in every store in which no request names a superseded record in two ways (`Unaliased`) |
| `JudgementIntroducesNothing` | under `NoAlias`, `Judgements => NothingIntroduced` |
| `JudgementInventsNothing` | under `NoAlias`, `Judgements => []NoReferenceInvented` |
| `EngineImplementsRecordStore` | under `NoAlias`, `Spec /\ []Undisturbed /\ [][~ Abandons]_vars => Atomic` of `Mutation`: while editors keep the locks and nothing is abandoned half way, it implements `RecordStore` |
| `EngineIsAtomic` | under `NoAlias`, with no lockless edits, no crashes and at most one fault, `Spec => Atomic` of `Mutation` |
| `LogStaysSound` | `Spec => []LogSound` of `Progress` |
| `NothingAcknowledgedIsLost` | `Spec => []AcknowledgedStays` of `Progress` |
| `LogIsALedger` | `Spec => Atomic` of `Progress`: it implements `ProgressLedger` |
| `NothingHalfDone` | `Spec => []NothingHalfDoneUnreported` of `Rollback` |
| `EditsAreSpared` | `Spec => EditsSurvive` of `Rollback`, an action property |
| `BindingAlwaysFits` | `Spec => []BindingFits` of `Governance` |
| `PermitsKeepBinding` | `Spec => []PermitKeepsBinding` |
| `RecordsStayAsWritten` | `Spec => RecordsStay`, an action property |
| `SelectionsAreRecorded` | `Spec /\ SelectionRecorded => []SelectionRecorded`: if it is so at first, it stays so |
| `WhatIsSelectedIsLawful` | `Spec /\ SelectedIsLawful => []SelectedIsLawful` |
| `SweepIsExact` | the sweep over sorted claims finds an overlap exactly when two owners claim paths that overlap |
| `AnswersAreFresh` | `Spec => []AnswersFresh` of `IndexRefresh` |
| `CleanIsCurrent` | `Spec => []CleanMeansCurrent` |
| `PreviewTakesEffectOnce` | `Spec => []TakesEffectOnce` of `McpSession` |
| `RefusedIsEvicted` | `Spec => []RefusedOnlyIfEvicted` |
| `CleanEnd` | `Spec => []CleanEndAnswersAll` |
| `ProjectionIsFromScratch` | from a sound previous load and a set of changed files that contains all that differ, `Projected` is `Derived` and is sound again |
| `SessionFromScratch` | `Spec => []FactsAsFromScratch` of `Presentation` |
| `SleepersWake` | `Spec => []SleepersAreWoken` of `Presentation` |
| `QuietLoadsAreCurrent` | `Spec => []QuietLoadIsCurrent` of `Presentation` |
| `HandlesAreExact` | `Spec => []HandlesExact` of `Presentation` |
| `StaleIsAlwaysWarned` | `Spec => []StaleIsWarnedUnlessBlind` of `Terminal` |
| `RefreshClears` | `Spec => RefreshClearsWarnings`, an action property |
| `WhatIsLoadedIsShown` | `WorkbenchSpec => []ShownAsLoaded` of `Workbench`, about `Browsing` |
| `SelectionIsKept` | `WorkbenchSpec => SelectionIsFollowed` of `Workbench`, an action property of `Browsing` |
| `WhatIsToldUndoneIs` | `HostSpec => []UndoneIsUndone` of `Host`, about `ClaudeSetup` |
| `ARemovalRestoresTheOriginal` | `HostSpec => []RemovalRestoresOriginal` of `Host`, about `ClaudeSetup` |
| `AFailureLeavesTheHome` | `HostSpec => []FailureLeavesHome` of `Host`, about `CodexSetup` |
| `ARemovalRestoresTheHost` | `HostSpec => []RemovalRestoresHost` of `Host`, about `CodexSetup` |
| `AMigrationKeepsEdits` | `HostSpec => []MigrationKeepsEdits` of `Host`, about `CodexSetup` |
| `SpawnsAreOfTheBoundWriter` | `HostSpec => []SpawnIsOfTheBoundWriter` of `Host`, about `WriterResolver` |
| `NoEditIsLost` | `HostSpec => []EditsAreNotLost` of `Host`, about `EditSession` |
| `TerminalTypes`, `ProgressInvariant`, `RollbackInvariant`, `GovernanceInvariant`, `RefreshInvariant`, `SessionInvariant` | the inductive invariants behind the rows above |

The assumptions are those the modules name: `KeysAssumption` (paths and
identities are numbers, identities smaller), `DocAssumption` (references are
keys; no body is the absent one), `MutationAssumption` (requests are batches,
starts are stores, `Unread` is no version, bounds are numbers),
`ProgressAssumption` (entries are about tickets of the investigation; requests carry
sequences of entries; the absent log is none), `RollbackAssumption` (a transaction names each of its targets once, as
`apply_batch_values` demands; no body, node or revision is the missing one),
`RequestAssumption`, `StartAssumption` and `RecordAssumption` of `Governance` (requests
are selections, with sequences of workers and of claims, and bindings; a Store starts
with a binding that fits its matrix; a record is a file that is there),
`RefreshAssumption` (a Store has a file, and an index that bears the revision of
the Store as it is at first was derived from it), `SessionAssumption` (there is a
worker, the vault holds at least one preview, and a request reads what it changes), `ProjectionAssumption` and
`PresentationAssumption` (kinds, scopes and targets of paths; a target covers whole
scopes, as the store and an investigation do; the scopes have an order; a channel has
room for one), `FreshnessAssumption` and `TerminalAssumption` (the whole store is no
project; files are in scopes; no load is the missing one), `BrowsingAssumption` (each path
is in a listed project, and its folders are listed investigations; a file is a work item
or not; the disk at the start has a file or none at each path; the missing value is no
scope, catalogue or notice), which `Workbench` assumes as `BrowseHolds`, and of the host programs
`CodexAssumption` (finite sets of runtimes and packages, which are paths of their own),
`WriterAssumption` and `EditAssumption` (no runtime or text is the missing one; sessions
are counted) and `ClaudeAssumption` (what a user sets the depth to is of one of the five kinds),
which `Host` assumes as `CodexHolds`, `WriterHolds`, `EditHolds` and `ClaudeHolds`. TLC evaluates all of them on
the runs.

Three theorems have a premise that is not about constants only. `NoAlias` says that no
body relates by its path a record that another supersedes by its identity alone; without
it they are false, as `aliased_supersession` shows, and there the code is at fault. `Undisturbed` and
`~ Abandons` (no editor without locks; no writer that dies amid its publication and no
file a rollback gives up) are what `apply_batch` needs to be all or nothing: the
code documents that it is not in these cases. `EngineIsAtomic` derives them from bounds:
with one fault, the fault that starts a rollback is the only one.
`WhatIsSelectedIsLawful` and `SelectionsAreRecorded` start from a Store of which the
property is true, since nobody looks at the old files again.

*Types* are not inductive alone: the target of a publication is a path because a
writer past locking has selected its targets (`Targeted`), and a captured version
is one exactly at the selected paths (`Captured`); `TypeInv` joins them. *Locks*:
a writer takes keys in increasing order, so what it holds is a prefix of what it
selected, all of it past locking and nothing before (`Prefix`); with it
`LockExclusion` is inductive, since a key enters `held` only under `Grantable`.
Ordered waits follow: a waiter's next key is above all it holds, so along a chain
of waits keys grow. *Captures*: a receipt names a target of the writer's own batch
and remembers what was captured there (`Receipted`); a writer may thus write only
keys it holds exclusively, which by `LockExclusion` no other has captured. Edits
only ever end the premise (`EditsSpent`). *Approvals*: a revision is drawn from
the clock once, so where the revision of a version that was read is that of the
file, it is the file (`Stamped`); the comparison with the preview made in
preparation still holds at the last look (`Compared`), and equal revisions then
mean equal versions.
*Dependencies*: no lock says that a reference graph stays put. What another
application writes lies outside the dependencies of a settled one (`Covers`), and
its old and new bodies neither refer to what that one writes nor claim an identity
it needs: else both would want the same key, one of them exclusively. Hence a
foreign write or restoration moves no choice of `DependencyPaths` (`ForeignWrite`).
It takes that an application that publishes wants all that the bodies it replaces
and the bodies it puts in place refer to (`Accounted`), and that the chosen
keys are the ones the batch would choose now (`Steady`).

*Local judgement*: a batch is judged by the records it depends on. That this is exact has
two halves. The records that are read contain every one whose diagnostics can change:
what claims an identity the batch touches, what refers to it, and what is reached from it
along supersessions. And a diagnostic of a record that is read needs nothing else: a
cycle, the only one that is not of one record and its neighbours, either passes through
what the batch writes, and is then read whole, or was there before. The flag by which
discovery follows supersessions is right only if `Unaliased`.
*Atomicity*: the committed store, which `RecordStore` is refined to, has at each path
that somebody publishes what its one publisher captured (`CommittedMeans`), since a target is
received once (`Once`) and stays as published (`Standing`). A step within a
publication or a rollback therefore leaves it alone, and the last one of an
application moves it to the whole batch. That the move is one the abstract store
allows takes that locks and choice of files are those the *committed* store would give
(`Steadfast`), although discovery saw files in the middle of other publications, and that
what was judged and consented to (`Valid`, `Consented`) is the committed store too.

*Progress*: the log a writer starts from is read before it holds a lock, so nothing
is known of it until the check; from there to the answer `Prepared` says that the
log is the one that was read (then the one that was published), that every ticket
either log names is locked, and that both are sound. `Leaving` says that a ticket
about to leave the accepted ones is in neither. Both need the locks (`Locks`,
`Apart`), and that equal revisions mean equal logs (`Stamped`). Soundness of the
log alone is not inductive: a rollback puts an older log back, so the tickets that
the older log names must not have moved meanwhile. For the ledger, the committed
log is the one that the only unverified writer read, or the file's; publishing and
restoring leave it alone, and the answer, a failed rollback or the death of the
writer commit. What an append adds is defined by the positions of its new entries,
put in order by rank; that no entry is lost in it is a counting argument
(`OrderIsComplete`).

*Rollback*: `RollbackInv` says for each target who made the file there and what it
says (`AuthorsInv`), that every changed target before the present step is received
once (`ReceiptsInv`), and that what the rollback saw at a target is still there
unless the file is newer than the look (`LookInv`). Neither property is inductive
without it: whether a file may be put back depends on its maker, which the code
cannot see and infers from node and revision. That one fault leaves nothing to
report needs an account (`QuietInv`): without editors, each report takes a failed
system call besides the one that started the rollback, for a receipt is blind
only if the reading of its revision failed.

*Governance*: what a client relies on between its check and its answer it has
locked. `LocksOK` and `Apart` keep two clients off each other's files; `PreviewOK`
says that a version a preview read is the one in place where the revisions are
equal; `WorkOK` says what stays true while a client publishes or rolls back: no
ticket becomes active under a binding (`BindOK`), the matrix and the one it
replaces both fit the binding (`ImplementationOK`), and the record is as it was
previewed until it is written (`RecordOK`). The middle of a transaction is what
makes it necessary: `BindingFits` must survive each single write and each single
restoration, in either order of an interrupted pair. *Records of selections*: the
pair is published matrix first and put back record first, so the property holds only
outside transactions, and `RecordingInv` says what carries it across: a client that
works has a plan of a matrix and a record that name one request, and the matrix it may
have to put back is itself recorded (`SelectionOK`), by a record that nobody has under
way (`Settled`), since such a record neither changes nor gets under way again
(`RecordStep`). A first record is the only one of its phase because two clients that
work select for different phases. *Lawful selections*: the sweep compares each claim with
one cover only. Claims sorted by components keep a subtree together, so the cover of a
claim covers everything up to any claim that it overlaps (`SweepMeans`), in whatever order
equal claims fall, and some sorted order exists. Demand is added with checks for overflow: where no check
fails the sum is the plain one. `LawInv` says the same of what previews hold and of
what they are going to write, for a rollback puts back what a preview read.

*Index*: revisions do not recur, so what was collected and is in place again was
in place all along (`ScanInv`, `ReadInv`). `IndexInv` is the core: whenever the index
bears the revision of the Store, a process that has nothing left to reconcile may
answer what the index says, one that trusts it in a call may answer it in that
call, and may go on to reconcile as long as nothing was reported since it
observed. `ProjectInv` says that a projection is of one publication if the file is
still the publication it started from, since publications are numbered. Quiet
edits are what the proof turns on: they leave the index usable, and only the
epoch tells; after an edit without an event that is the error of the watcher,
which no epoch reconciles (`WatchInv`).

*MCP session*: `EffectInv` says that the vault has the last previews in order, and
what became of each file since a preview changed it: it has another revision than the
preview was made on, or it was absent then and somebody has deleted it since
(`LastingInv`, `SpentInv`). Revisions
are never drawn twice, so what is there never gets an old one back; an absent file does,
and a preview applied by two workers changes it a second time only after a deletion.
`AccountInv` puts each request that was read in one place (reader, main loop, queue
or worker) where it is not answered yet; `NoneLost` says that while nothing failed
each has an answer or a place, and `EndInv` how far the shutdown is, so that a
clean end, in which every place is empty, has answered all.

*Projection*: one lemma per kind of fact (logs, faults, progress, bindings,
binding state, cards) says that when none of the files it is derived from was
read again, its value of the previous load is its value now; the theorem splits
on what was. *Facts of a session*: `FactsInv` says that every scope that is
retained, and every scope a load holds and has not yet committed, is `Sound`, and
that between its reads and its second look a load has, of each file it does not
read again, what the previous load made of it (`Derivable`), which is the premise
`KeptFrom` of `ProjectionIsFromScratch`. Soundness of the shown entries alone is not inductive, since the
next load keeps progress, bindings and cards as well. *Sleepers*: `SleepInv` adds
to the property that a thread parks only where it sends (`Wakeful`) and that a
request names the load of its own target and knows its thread once the stream was
returned (`Requested`); without the latter, superseding could cancel a sleeping
thread and wake another. *Quiet loads*: `CurrentInv` says of every scope that is
retained or about to be that a file of it which need not be read again, and is as it
was found, is what a load makes of its content on disk (`Held`), and the same of a load
between its reads and its second look (`Reading`). An edit gives the file a stamp that
none of them has; so a load that reuses what it finds unchanged is right although the
loads before it were disturbed. That the last completed load is what the session shows
takes that of two loads that overlap only the later is current, and that a commit
touches no scope of another target. *Handles*: `HandlesInv` follows each stream: a
current load tells only what it found and, once committed, all of it (`Faithful`), and
its client has exactly these handles with its order (`Answered`); the end of a load is
the last its client hears (`Stream`). What was told to the end stays fetchable because
every current load that covers the file has found the same handle (`Agrees`), which the
walk takes from the session (`Shown`) as long as the stamps agree. `FromLast` alone is
not inductive: a late event could bring back a handle that a commit has dropped.

*Terminal*: every file that is shown stale is guarded by a record of the reducer, or by an
observation on its way (`ShownGuarded`). A load may settle a record only if it read the file
after the change; so what a load has read, and what has changed since, is on record with a
date after the load began (`LoadGuarded`), what a success that was not yet heard of shows
is too (`CreditGuarded`), and a body that is fetched while a load runs is not settled by it
(`BodyGuarded`). Dates are comparable since the coordinator never knows more than the
reducer (`Dated`), and a lost watcher is known to be lost, or said to be by the last
observation in the channel (`OffIsTold`).

*Browser*: what is shown is an array that a removal fills from its end, so the first
thing is that each shown path has one place, the one the index says (`Placed`); then
that the lists are those of what is shown (`Right`). An update touches paths one by one,
and in between the lists are of neither the old nor the new array: `UpdatedMeans` says
that they are right for the paths it has touched and as before for all others, while scopes,
counts and filter hits stay those of the facts (`Consistent`); so they are right in the end if
the paths updated include every one whose entry or place is another (`IndexChanges`). Counts are those of
finite sets, one more or one less (`TallyPut`, `HitsDrop`), and the folds over paths are
unfolded by the least path at which they would differ (`UpdatedUnfolds`,
`WithoutUnfolds`, `ShowingUnfolds`). That the right things are merged is a matter of the
coordinator (`BrowseInv`): an entry that has not changed is shown as it is, everything
shown is held, about to be removed, or was left by a load that was given up
(`Coherent`); what was removed and is there again has changed, and no load has the body of
a lazy file that the coordinator does not have (`Ordered`); and changes are told in the turn
in which they arrive (`TurnOK`). *Selection*: with the project and investigation kept,
the record is looked up in the merged entries by its path first and by scope and identity
then (`ResolvedMeans`, `PromotedFollows`); that these are the entries drawn is again
`Placed`.

*Claude set-up*: the receipt in force says the depth from before Casefile, if there was
none or it was a plain string, and names every executable that is there (`ClaudeKeeps`), for a home whose history was not disturbed;
`ClaudeInstalls` and `ClaudeRemoves` say, step by step, what a command has changed of the home
it found, and with it what each step of its undoing puts back. *Codex set-up*: what a
command writes is in its snapshot (`CodexSaved`), so that with what is left to put back
(`CodexUndo`) the home is the one at its start; receipts carry what was at each catalogue
and executable before Casefile, and whatever is not in the one in force has never been touched
(`CodexKeeps`). A migration compares before each write and puts back what it compared
(`CodexMigrates`). *Resolver*: a permit is held only while the ticket is in progress, and the
binding changes only while it is not (`WriterPermitted`); the runtime is read twice, and a
resolution is reached only if both agree (`WriterResolved`). *Edit*: a revision names one version of
the record (`EditDated`), so that an application that is accepted replaces what the
session read; `EditUnderWay` says which of draft, saved text and preview a session goes by at each
step.

Only model-checked: liveness (`SessionEnds` and the return of every operation), for the
prover does not reach fairness and ENABLED. What a recursive function computes is proved
where a theorem needs it, by taking the least argument at which it would fail.

## What the checks found

**Aliased supersession.** `discover` keeps a flag per target that says whether to
follow its supersessions, and the last reference in sorted order overwrites it
(`mutation_dependencies.rs:340` and `:355`). A record that supersedes `X` by
identity and also names `X` by path among its related tickets has the
supersessions behind `X` left unread. In `aliased_supersession` two accepted
batches close a cycle of four in this way, though `validation.rs:275` says that
supersession references must not form a cycle. Without the alias (`publication`)
local validation and a full scan agree, and `LocalJudgementIsExact` proves that the
alias is the only thing that keeps them from it.

**Restored freshness.** A refresh begins while the watcher is lost, a file changes
unseen behind it, the watcher is restored and the refresh completes:
`report()` drops the degraded record and the old entry is shown without a warning
(`casefile-tui/src/watching.rs:585`). The test
`restored_health_does_not_claim_freshness` says otherwise. `restored_freshness`
shows it; `StaleIsWarnedUnlessBlind` is what holds.

Observations from the modelling that no run is about, and where a property makes
an exception for one:

* Mutations. Of three records that claim one identity the middle one cannot be
  deleted: the message of the third then names another predecessor and counts as
  introduced. A crash between two publications leaves a part of the batch, with
  nothing that completes or undoes it (documented). After a crash between a matrix
  and its transition record, a replay records the selected strategy as the
  previous one. `ensure_binding_inactive` accepts an absent log, where
  `strategy-binding.md` says that missing progress fails closed.
* Index. An absence has no revision. A quiet edit between another process's scan
  and its publication may leave a stale index that is believed (`muddled`).
* MCP session. A panic loses its answer and ends the session in error; calls that
  are queued when the output fails may still run. A preview stays in the vault, and
  absent files have no revision: a preview that creates a record can be applied again
  once the record was deleted, by Git for one (`TakesEffectOnce` excepts it).
* Terminal. The warning offers `r`, which refreshes what is selected and cannot
  clear a warning inherited from a wider scope. A refresh before the first load has
  completed replaces it (`progressive.rs:213`), and what it had shown of files that
  are gone by then stays listed until the workbench is left, for a completion
  removes only what an earlier completion had (`loading.rs:72`); so
  `ShownAsLoaded` excepts `abandoned`. A content answer that is drained together
  with the completion that removed its file puts the file back. The rule that
  keeps a fetched body over a refresh (`loading.rs:88`) never applies, since a lazy
  entry differs from the fetched one in more than its body: each refresh drops the
  body and fetches it again. After leaving the editor the remembered selection is
  restored when the first load completes, even if the user has navigated
  meanwhile.
* Presentation. The project list of `casefile.toml` is that of the activation read
  before the load; an edit between the two leaves a stale list that is reused
  until the file changes again (`QuietLoadIsCurrent` excepts it). A load that finds
  `casefile.toml` unreadable tells no file and still completes, so it takes all
  handles of its target away while the session keeps what it shows: `HandlesExact`
  excepts it (`FoundInactive`), as the attempt to prove it showed.
* Claude set-up, each while "rollback verified" is reported: a failed `--overwrite`
  reinstallation deletes the executable that the previous receipt names
  (`setup-claude.py:326`); a failed upgrade sets the depth to the one before
  Casefile, not the one before the upgrade (`:290`, `:310`); a failed removal
  does not put the depth back (`:385`). `UndoneIsUndone` leaves these out.
* Claude set-up, what does not come back: removal restores a recorded depth only if it
  is a string, so a user's JSON number is deleted (`:385`), and a failed first
  installation writes it back as a string (`:310`); a string that is no number makes
  each removal fail at `int` (`:385`). `mcp get` that fails for whatever
  reason counts as no server (`:141`): a user's own server named `casefile` then passes
  `prepare`, and `register` removes it for good; likewise a server that is left after a
  failed first installation passes for none. An `env` that is no object is replaced (`:109`). `RemovalRestoresOriginal`
  and `UndoneIsUndone` say what holds of depth and server all the same.
* Codex set-up. `split_owned_tables` (`setup-codex.py:466`) does not end what Casefile
  owns at `TABLE_END`, and the block ends in a table of an agent's. Lines that follow
  it up to the next table header, such as a comment above the user's next table, are
  dropped by reinstallation, removal and migration. `RemovalRestoresHost` and
  `MigrationKeepsEdits` except them. `uninstall --receipt` of an older receipt leaves newer files and
  drops the pointer. After death before the pointer is written, the next
  installation records Casefile's own files as the host's. An edit that a
  verification detects is then overwritten by the rollback, as
  `test_codex_setup.py:600` asserts; so are edits between preparation and write.
  The host's own values of keys that Casefile owns are not given back.
* Resolver. A permit is no lock: once the ticket has left `in_progress` the
  binding may change before the spawn. A reselection of the matrix is not gated by
  progress, so a pair that was derived from the matrix may be old.
* Edit. An incomplete rollback tells its details but not where the draft is; a
  save after the editor has returned would be discarded with the draft.

## Not modelled

* *Record formats, layout, activation, classification of paths, `checking.rs`*:
  functions from text or a tree to values, without state, order or failure of
  their own. What they decide enters the modules as the fields the properties
  distinguish. Modelling the text itself would restate the parser.
* *HTTP server* (`api.rs`, `transport.rs`, `casefile-server/src/workbench.rs`), *web
  client*: each request is one provider call and a projection of its answer; no
  state survives it.
* *`provider.rs`* apart from index and vault: one call each of a component that is
  modelled elsewhere.
* *Discovery for decisions, boards, attachments and reviews*: they are sources of
  references like tickets and add no new kind of dependency; bindings are in
  `Governance`. *Diagnostics of a progress log that is broken already*
  (`writing.rs:187`), *hand-edited logs*: the operations reject a log they cannot
  read, so only an editor gets there.
* *Terminal*: in `Terminal`, entries received before the first load has completed and
  changes of the catalogue once it is known (`Browsing` has both); handles (those
  are in `Presentation`); boards, strategies, the record detail and drawing.
* *Set-up*: symbolic links (rollback aborts at one, since `path_landed` refuses
  it), homes that are not writable, signatures of packages. *Resolver*: invalid or
  pending bindings (refused), a host's own catalogue at Casefile's path, profiles
  of another package than the one installed.
* *Packaging, skills, roles, benchmarks*: instructions and straight-line scripts.

## What is left to do

Every safety invariant and action property of the passing runs is a theorem; liveness
stays with TLC. What would come next is breadth: bindings and boards among the
dependencies of `Records`, handles and boards in the terminal, and `checking.rs`.

## Running

    tlc -workers 2 -config MutationAtomic.cfg MCMutation
    tlapm MutationProofs.tla

Each run of `PROJECT.json` names its module and configuration. The larger ones
visit up to 4.3 million states in one to three minutes.
