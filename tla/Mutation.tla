------------------------------ MODULE Mutation ------------------------------
(***************************************************************************)
(* The optimistic mutation engine of casefile-store: record batches are    *)
(* previewed and applied by any number of processes and threads that share *)
(* a Git worktree and nothing else (mutation.rs, mutation_locks.rs,        *)
(* mutation_restore.rs, writing.rs).  A preview captures the files the     *)
(* batch depends on under shared locks and remembers their revisions.  An  *)
(* application captures them again under locks that are exclusive for the  *)
(* targets and the identities it writes, requires the revisions of the     *)
(* preview, publishes one file after another and, when a step fails, takes *)
(* back the files it published that are still its own.                     *)
(*                                                                         *)
(* Editors that know nothing of the locks may replace any file at any      *)
(* time, a system call may fail, and a writer may crash between any two    *)
(* steps: the operating system then drops its locks and the files stay as  *)
(* they are.                                                               *)
(***************************************************************************)
EXTENDS Records, Sequences

CONSTANTS
  Writer,      \* the processes and threads that mutate the store
  None,        \* no batch, and no approval
  Unread,      \* a path that was not captured
  MaxTurns,    \* bound: previews and applications of one writer
  MaxEdits,    \* bound: edits that take no lock
  MaxFaults,   \* bound: system calls that fail
  MaxCrashes   \* bound: writers that crash

ASSUME MutationAssumption ==
  /\ Request \subseteq Batch
  /\ None \notin Request
  /\ None \notin [batch : Request, seen : UNION { [S -> Doc \cup {Absent}] : S \in SUBSET Path }]
  /\ Start \subseteq [Path -> Doc \cup {Absent}]
  /\ Unread \notin [doc : Doc \cup {Absent}, rev : Nat]
  /\ {MaxTurns, MaxEdits, MaxFaults, MaxCrashes} \subseteq Nat

VARIABLES
  files,     \* the file at each path: its body and its metadata revision
  clock,     \* the next metadata revision
  pc,        \* what each writer does next
  batch,     \* the batch each writer asked for
  applying,  \* whether a writer applies its preview or makes one
  want,      \* the locks each writer selected
  held,      \* the lock keys each writer has been granted
  checked,   \* the paths each writer selected for validation
  seen,      \* the files each writer captured
  approved,  \* the files each writer's preview captured
  receipts,  \* what each writer has published and could take back
  affected,  \* the paths a rollback could not restore
  outcome,   \* what the last operation of each writer returned
  budget     \* what is left of the bounds

lockVars == <<want, held, checked, seen>>
vars == <<files, clock, pc, batch, applying, lockVars, approved, receipts, affected,
          outcome, budget>>

-----------------------------------------------------------------------------
\* A revision identifies one version of a file: device, inode, length and
\* times.  An absent file has the revision of every absent file.
Version == [doc : Doc \cup {Absent}, rev : Nat]

Missing == [doc |-> Absent, rev |-> 0]

Publication(doc) == IF doc = Absent THEN Missing ELSE [doc |-> doc, rev |-> clock]

Docs(versions) == [p \in Path |-> versions[p].doc]

Receipt == [path : Path, prior : Doc \cup {Absent}, written : Doc \cup {Absent}, rev : Nat]

Capture == [Path -> Version \cup {Unread}]

Nothing == [p \in Path |-> Unread]

LockSet == [keys : SUBSET Key, excl : SUBSET Key]

NoLocks == [keys |-> {}, excl |-> {}]

Control == {"idle", "discover", "lock", "capture", "prepare", "ready", "verify",
            "publish", "rollback"}

Failure == {"stale", "invalid", "io"}

Outcome == Failure \cup {"none", "approved", "applied", "incomplete"}

Bounds == [turns : [Writer -> Nat], edits : Nat, faults : Nat, crashes : Nat]

\* The shape of every variable (the types of mutation.rs and writing.rs).
TypeOK ==
  /\ files \in [Path -> Version]
  /\ clock \in Nat \ {0}
  /\ pc \in [Writer -> Control]
  /\ batch \in [Writer -> Request \cup {None}]
  /\ applying \in [Writer -> BOOLEAN]
  /\ want \in [Writer -> LockSet]
  /\ held \in [Writer -> SUBSET Key]
  /\ checked \in [Writer -> SUBSET Path]
  /\ seen \in [Writer -> Capture]
  /\ approved \in [Writer -> Capture]
  /\ receipts \in [Writer -> Seq(Receipt)]
  /\ affected \in [Writer -> SUBSET Path]
  /\ outcome \in [Writer -> Outcome]
  /\ budget \in Bounds

Init ==
  /\ \E store \in Start :
       files = [p \in Path |-> IF store[p] = Absent THEN Missing ELSE [doc |-> store[p], rev |-> 1]]
  /\ clock = 2
  /\ pc = [w \in Writer |-> "idle"]
  /\ batch = [w \in Writer |-> None]
  /\ applying = [w \in Writer |-> FALSE]
  /\ want = [w \in Writer |-> NoLocks]
  /\ held = [w \in Writer |-> {}]
  /\ checked = [w \in Writer |-> {}]
  /\ seen = [w \in Writer |-> Nothing]
  /\ approved = [w \in Writer |-> Nothing]
  /\ receipts = [w \in Writer |-> <<>>]
  /\ affected = [w \in Writer |-> {}]
  /\ outcome = [w \in Writer |-> "none"]
  /\ budget = [turns |-> [w \in Writer |-> MaxTurns], edits |-> MaxEdits,
               faults |-> MaxFaults, crashes |-> MaxCrashes]

-----------------------------------------------------------------------------
At(w, label) == pc[w] = label

Goto(w, label) == pc' = [pc EXCEPT ![w] = label]

SpendTurn(w) ==
  /\ budget.turns[w] > 0
  /\ budget' = [budget EXCEPT !.turns[w] = @ - 1]

Spend(kind) ==
  /\ budget[kind] > 0
  /\ budget' = [budget EXCEPT ![kind] = @ - 1]

\* Dropping the context closes the lock files.
DropContext(w) ==
  /\ want' = [want EXCEPT ![w] = NoLocks]
  /\ held' = [held EXCEPT ![w] = {}]
  /\ checked' = [checked EXCEPT ![w] = {}]
  /\ seen' = [seen EXCEPT ![w] = Nothing]

\* Mutant: a lock file outlives the context that opened it.
ReturnHoldingLocks(w, result) ==
  /\ checked' = [checked EXCEPT ![w] = {}]
  /\ seen' = [seen EXCEPT ![w] = Nothing]
  /\ outcome' = [outcome EXCEPT ![w] = result]
  /\ Goto(w, IF applying[w] \/ result = "approved" THEN "ready" ELSE "idle")
  /\ UNCHANGED <<want, held>>

\* An operation returns.  A preview stays with its owner after an
\* application, whatever came of it.
Return(w, result) ==
  /\ DropContext(w)
  /\ outcome' = [outcome EXCEPT ![w] = result]
  /\ Goto(w, IF applying[w] \/ result = "approved" THEN "ready" ELSE "idle")

-----------------------------------------------------------------------------
\* A client asks for a preview of a batch, giving up the one it had.
Preview(w) ==
  /\ pc[w] \in {"idle", "ready"}
  /\ SpendTurn(w)
  /\ \E request \in Request : batch' = [batch EXCEPT ![w] = request]
  /\ applying' = [applying EXCEPT ![w] = FALSE]
  /\ approved' = [approved EXCEPT ![w] = Nothing]
  /\ affected' = [affected EXCEPT ![w] = {}]
  /\ outcome' = [outcome EXCEPT ![w] = "none"]
  /\ Goto(w, "discover")
  /\ UNCHANGED <<files, clock, lockVars, receipts>>

\* A client applies the preview it has.
Apply(w) ==
  /\ At(w, "ready")
  /\ SpendTurn(w)
  /\ applying' = [applying EXCEPT ![w] = TRUE]
  /\ affected' = [affected EXCEPT ![w] = {}]
  /\ outcome' = [outcome EXCEPT ![w] = "none"]
  /\ Goto(w, "discover")
  /\ UNCHANGED <<files, clock, batch, lockVars, approved, receipts>>

\* Dependencies are discovered before any lock is held.
Discover(w) ==
  /\ At(w, "discover")
  /\ want' = [want EXCEPT ![w] = Locks(Docs(files), batch[w], applying[w])]
  /\ Goto(w, "lock")
  /\ UNCHANGED <<files, clock, batch, applying, held, checked, seen, approved, receipts,
                 affected, outcome, budget>>

Missed(w) == want[w].keys \ held[w]

\* Mutant: the exclusive locks are taken first.
TargetsFirst(w) ==
  LET urgent == Missed(w) \cap want[w].excl
      choice == IF urgent = {} THEN Missed(w) ELSE urgent
  IN  CHOOSE k \in choice : \A j \in choice : k <= j

\* Locks are taken in the order of their keys, each one waited for.
NextKey(w) == CHOOSE k \in Missed(w) : \A j \in Missed(w) : k <= j

\* Mutant: only the mode that is asked for counts.
GrantableToReaders(w, k) ==
  \A v \in Writer \ {w} : k \in held[v] => k \notin want[w].excl

Grantable(w, k) ==
  \A v \in Writer \ {w} :
    k \in held[v] => k \notin want[v].excl /\ k \notin want[w].excl

Acquire(w) ==
  /\ At(w, "lock")
  /\ Missed(w) # {}
  /\ Grantable(w, NextKey(w))
  /\ held' = [held EXCEPT ![w] = @ \cup {NextKey(w)}]
  /\ UNCHANGED <<files, clock, pc, batch, applying, want, checked, seen, approved, receipts,
                 affected, outcome, budget>>

\* Mutant: the locks are believed to be the right ones.
ConfirmedUnseen(w) == want[w].keys # {}

\* Dependencies are discovered again under the locks; a different set of
\* paths or locks makes the operation stale.
Confirmed(w) == Locks(Docs(files), batch[w], applying[w]) = want[w]

Confirm(w) ==
  /\ At(w, "lock")
  /\ Missed(w) = {}
  /\ Confirmed(w)
  /\ checked' = [checked EXCEPT ![w] = ValidationPaths(Docs(files), batch[w])]
  /\ Goto(w, "capture")
  /\ UNCHANGED <<files, clock, batch, applying, want, held, seen, approved, receipts, affected,
                 outcome, budget>>

Outdated(w) ==
  /\ At(w, "lock")
  /\ Missed(w) = {}
  /\ ~ Confirmed(w)
  /\ Return(w, "stale")
  /\ UNCHANGED <<files, clock, batch, applying, approved, receipts, affected, budget>>

\* Mutant: files that do not exist have no entry.
ReadExisting(w) ==
  /\ At(w, "capture")
  /\ seen' = [seen EXCEPT ![w] = [p \in Existing(Docs(files)) \cap want[w].keys |-> files[p]]]
  /\ Goto(w, "prepare")
  /\ UNCHANGED <<files, clock, batch, applying, want, held, checked, approved, receipts, affected,
                 outcome, budget>>

\* Every selected file is read with its revision.
ReadFiles(w) ==
  /\ At(w, "capture")
  /\ seen' = [seen EXCEPT ![w] =
       [p \in Path |-> IF p \in want[w].keys THEN files[p] ELSE Unread]]
  /\ Goto(w, "prepare")
  /\ UNCHANGED <<files, clock, batch, applying, want, held, checked, approved, receipts, affected,
                 outcome, budget>>

-----------------------------------------------------------------------------
Read(w) == { p \in Path : seen[w][p] # Unread }

Unchanged(w) == \A p \in Read(w) : files[p].rev = seen[w][p].rev

RevOf(version) == IF version = Unread THEN 0 ELSE version.rev

\* Mutant: the revisions of the targets only.
TargetsAsApproved(w) ==
  \A p \in DOMAIN batch[w] : approved[w][p] # Unread => RevOf(seen[w][p]) = approved[w][p].rev

\* The captured revisions must be those of the preview.
AsApproved(w) ==
  \A p \in Path : approved[w][p] # Unread => RevOf(seen[w][p]) = approved[w][p].rev

CapturedDocs(w) == [p \in Path |-> IF seen[w][p] = Unread THEN Absent ELSE seen[w][p].doc]

Invalid(w) == Rejected(CapturedDocs(w), batch[w], Read(w), checked[w])

Fresh(w) == Unchanged(w) /\ (applying[w] => AsApproved(w))

\* The capture turns out stale at its end, or is not the one approved.
PrepareStale(w) ==
  /\ At(w, "prepare")
  /\ ~ Fresh(w)
  /\ Return(w, "stale")
  /\ UNCHANGED <<files, clock, batch, applying, approved, receipts, affected, budget>>

\* The batch introduces diagnostics: a preview nobody can apply, or an
\* application whose validation changed.
PrepareInvalid(w) ==
  /\ At(w, "prepare")
  /\ Fresh(w)
  /\ Invalid(w)
  /\ Return(w, "invalid")
  /\ UNCHANGED <<files, clock, batch, applying, approved, receipts, affected, budget>>

\* A preview that is fit to be applied keeps what it captured.
Approve(w) ==
  /\ At(w, "prepare")
  /\ ~ applying[w]
  /\ Fresh(w)
  /\ ~ Invalid(w)
  /\ approved' = [approved EXCEPT ![w] = seen[w]]
  /\ Return(w, "approved")
  /\ UNCHANGED <<files, clock, batch, applying, receipts, affected, budget>>

Prepare(w) ==
  /\ At(w, "prepare")
  /\ applying[w]
  /\ Fresh(w)
  /\ ~ Invalid(w)
  /\ Goto(w, "verify")
  /\ UNCHANGED <<files, clock, batch, applying, lockVars, approved, receipts, affected, outcome,
                 budget>>

\* The last look before the first publication.
Verify(w) ==
  /\ At(w, "verify")
  /\ Unchanged(w)
  /\ Goto(w, "publish")
  /\ UNCHANGED <<files, clock, batch, applying, lockVars, approved, receipts, affected, outcome,
                 budget>>

VerifyStale(w) ==
  /\ At(w, "verify")
  /\ ~ Unchanged(w)
  /\ Return(w, "stale")
  /\ UNCHANGED <<files, clock, batch, applying, approved, receipts, affected, budget>>

\* A system call fails before anything is published.
Fails(w) ==
  /\ pc[w] \in {"discover", "lock", "capture", "prepare", "verify"}
  /\ Spend("faults")
  /\ Return(w, "io")
  /\ UNCHANGED <<files, clock, batch, applying, approved, receipts, affected>>

-----------------------------------------------------------------------------
Published(w) == { receipts[w][i].path : i \in DOMAIN receipts[w] }

\* Targets whose body does not change are never written.
Unpublished(w) ==
  { p \in DOMAIN batch[w] : batch[w][p].doc # seen[w][p].doc } \ Published(w)

\* One system call: creation does not replace what appeared meanwhile,
\* replacement does, deletion needs a file.
CanPublish(w, p) ==
  /\ seen[w][p].doc = Absent => files[p].doc = Absent
  /\ batch[w][p].doc = Absent => files[p].doc # Absent

\* A batch lists its targets in an order of the caller's choice.
Publish(w) ==
  /\ At(w, "publish")
  /\ \E p \in Unpublished(w) :
       /\ CanPublish(w, p)
       /\ files' = [files EXCEPT ![p] = Publication(batch[w][p].doc)]
       /\ clock' = clock + 1
       /\ \E known \in BOOLEAN :
            \* the revision of the published handle may not be readable
            /\ receipts' = [receipts EXCEPT ![w] = Append(@,
                 [path |-> p, prior |-> seen[w][p].doc, written |-> batch[w][p].doc,
                  rev |-> IF known THEN Publication(batch[w][p].doc).rev ELSE 0])]
            /\ IF known THEN UNCHANGED budget ELSE Spend("faults")
  /\ UNCHANGED <<pc, batch, applying, lockVars, approved, affected, outcome>>

\* outcome holds the cause while the rollback runs.
StartRollback(w, cause) ==
  /\ outcome' = [outcome EXCEPT ![w] = cause]
  /\ Goto(w, "rollback")
  /\ UNCHANGED <<files, clock, batch, applying, lockVars, approved, receipts, affected>>

PublishFails(w) ==
  /\ At(w, "publish")
  /\ \E p \in Unpublished(w) :
       \/ /\ ~ CanPublish(w, p)
          /\ StartRollback(w, IF seen[w][p].doc = Absent THEN "stale" ELSE "io")
          /\ UNCHANGED budget
       \/ /\ Spend("faults")
          /\ StartRollback(w, "io")

\* The targets are read back for the result.
Observe(w) ==
  /\ At(w, "publish")
  /\ Unpublished(w) = {}
  /\ receipts' = [receipts EXCEPT ![w] = <<>>]
  /\ Return(w, "applied")
  /\ UNCHANGED <<files, clock, batch, applying, approved, affected, budget>>

ObserveFails(w) ==
  /\ At(w, "publish")
  /\ Unpublished(w) = {}
  /\ Spend("faults")
  /\ StartRollback(w, "io")

\* A published file is still the writer's own when its bytes and its
\* revision are those of the receipt.
Own(receipt) ==
  LET current == files[receipt.path]
  IN  /\ current.doc = receipt.written
      /\ receipt.written # Absent => current.rev = receipt.rev

Restore(w) ==
  /\ At(w, "rollback")
  /\ receipts[w] # <<>>
  /\ LET receipt == receipts[w][Len(receipts[w])]
     IN  /\ receipts' = [receipts EXCEPT ![w] = SubSeq(@, 1, Len(@) - 1)]
         /\ \/ /\ Own(receipt)
               /\ files' = [files EXCEPT ![receipt.path] = Publication(receipt.prior)]
               /\ clock' = clock + 1
               /\ UNCHANGED <<affected, budget>>
            \/ /\ affected' = [affected EXCEPT ![w] = @ \cup {receipt.path}]
               /\ IF Own(receipt) THEN Spend("faults") ELSE UNCHANGED budget
               /\ UNCHANGED <<files, clock>>
  /\ UNCHANGED <<pc, batch, applying, lockVars, approved, outcome>>

FinishRollback(w) ==
  /\ At(w, "rollback")
  /\ receipts[w] = <<>>
  /\ Return(w, IF affected[w] = {} THEN outcome[w] ELSE "incomplete")
  /\ UNCHANGED <<files, clock, batch, applying, approved, receipts, affected, budget>>

-----------------------------------------------------------------------------
\* The process of a writer dies and starts again: its locks, its previews
\* and its receipts are gone, the files it published are not.
Crash(w) ==
  /\ pc[w] # "idle"
  /\ Spend("crashes")
  /\ DropContext(w)
  /\ Goto(w, "idle")
  /\ batch' = [batch EXCEPT ![w] = None]
  /\ applying' = [applying EXCEPT ![w] = FALSE]
  /\ approved' = [approved EXCEPT ![w] = Nothing]
  /\ receipts' = [receipts EXCEPT ![w] = <<>>]
  /\ affected' = [affected EXCEPT ![w] = {}]
  /\ outcome' = [outcome EXCEPT ![w] = "none"]
  /\ UNCHANGED <<files, clock>>

\* An editor that takes no lock replaces, creates or removes a file.
Edit ==
  /\ Spend("edits")
  /\ \E p \in Path, doc \in Doc \cup {Absent} :
       /\ doc # files[p].doc
       /\ files' = [files EXCEPT ![p] = Publication(doc)]
  /\ clock' = clock + 1
  /\ UNCHANGED <<pc, batch, applying, lockVars, approved, receipts, affected, outcome>>

\* Nobody has anything left to ask for.
Finished ==
  /\ \A w \in Writer : pc[w] \in {"idle", "ready"} /\ budget.turns[w] = 0
  /\ UNCHANGED vars

Operate(w) ==
  \/ Discover(w)
  \/ Acquire(w)
  \/ Confirm(w) \/ Outdated(w)
  \/ ReadFiles(w)
  \/ PrepareStale(w) \/ PrepareInvalid(w) \/ Approve(w) \/ Prepare(w)
  \/ Verify(w) \/ VerifyStale(w)
  \/ Fails(w)
  \/ Publish(w) \/ PublishFails(w)
  \/ Observe(w) \/ ObserveFails(w)
  \/ Restore(w) \/ FinishRollback(w)

Next ==
  \/ \E w \in Writer : Preview(w) \/ Apply(w) \/ Operate(w) \/ Crash(w)
  \/ Edit
  \/ Finished

Spec == Init /\ [][Next]_vars

\* An operation that was started is scheduled until it returns; nobody has
\* to start one, to crash or to edit.
FairSpec == Spec /\ \A w \in Writer : WF_vars(Operate(w))

-----------------------------------------------------------------------------
\* Two writers never hold the same lock file unless both share it
\* (mutation_locks::acquire).
LockExclusion ==
  \A v, w \in Writer :
    v # w => held[v] \cap held[w] \cap (want[v].excl \cup want[w].excl) = {}

Waiting(w) == At(w, "lock") /\ Missed(w) # {}

\* A writer that waits for a key another waiting writer holds waits for a
\* smaller key than that writer does: waits cannot form a circle.
NoCircularWait ==
  \A v, w \in Writer :
    Waiting(v) /\ Waiting(w) /\ NextKey(v) \in held[w] => NextKey(v) < NextKey(w)

Undisturbed == budget.edits = MaxEdits

Settled(w) ==
  \/ pc[w] \in {"capture", "prepare", "verify"}
  \/ At(w, "publish") /\ receipts[w] = <<>>

\* While every editor takes the locks, what the confirmed locks of an
\* application protect includes everything the set of locks was derived
\* from: the dependencies of a batch, incoming references of other records
\* included, stay those that were confirmed until the batch itself is
\* published.  (The shared locks of a preview promise less: another record
\* may come to refer to its targets.)
DependenciesStable ==
  Undisturbed =>
    \A w \in Writer : applying[w] /\ Settled(w) =>
      /\ Confirmed(w)
      /\ checked[w] = ValidationPaths(Docs(files), batch[w])

\* While every editor takes the locks, a captured file is what it was when
\* it was captured until the writer itself publishes it.
CapturesCurrent ==
  Undisturbed =>
    \A w \in Writer : pc[w] \in {"prepare", "verify", "publish", "rollback"} =>
      \A p \in Read(w) \ (Published(w) \cup affected[w]) : files[p].doc = seen[w][p].doc

\* Whatever editors, faults and crashes do, a batch is published on exactly
\* the files, targets and dependencies alike, that its preview captured; only
\* an absence that the application does not depend on may have ended.
PublishesWhatWasApproved ==
  [][\A w \in Writer :
       At(w, "verify") /\ pc'[w] = "publish" =>
         \A p \in Path : approved[w][p] # Unread =>
           \/ files[p] = approved[w][p]
           \/ approved[w][p] = Missing /\ p \notin Read(w)]_vars

\* An operation that was started returns: no writer waits for ever, not for
\* a lock, not for a writer that crashed.
EveryOperationReturns ==
  \A w \in Writer : At(w, "discover") ~> pc[w] \in {"idle", "ready"}

-----------------------------------------------------------------------------
(***************************************************************************)
(* The engine implements RecordStore.  A batch whose publication is under  *)
(* way has not happened yet: its published files count as what they were.  *)
(***************************************************************************)
Publishing(p) == { w \in Writer : p \in Published(w) }

PriorOf(w, p) == CHOOSE doc \in Doc \cup {Absent} :
  \E i \in DOMAIN receipts[w] : receipts[w][i].path = p /\ receipts[w][i].prior = doc

CommittedStore ==
  [p \in Path |->
     IF Publishing(p) = {}
       THEN files[p].doc
       ELSE PriorOf(CHOOSE w \in Publishing(p) : TRUE, p)]

Approvals ==
  [w \in Writer |->
     IF approved[w] = Nothing
       THEN None
       ELSE [batch |-> batch[w], seen |-> [p \in DOMAIN batch[w] |-> approved[w][p].doc]]]

Abstract == INSTANCE RecordStore WITH
  Client <- Writer, store <- CommittedStore, approval <- Approvals

\* While every editor takes the locks and nobody crashes, each application
\* happens in one step or not at all, on targets nobody changed since the
\* preview, and no step introduces a diagnostic that a scan of the whole
\* store would report, though only the dependencies were looked at.
Atomic == Abstract!Spec
=============================================================================
