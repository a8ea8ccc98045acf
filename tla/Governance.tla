------------------------------ MODULE Governance ------------------------------
(***************************************************************************)
(* Governed changes of an investigation (governance.rs): the selection of  *)
(* a strategy matrix for a phase, which writes the matrix and a transition *)
(* record; the replacement of the writer binding, refused while a ticket   *)
(* is active; and the permission to spawn a writer for a ticket that is in *)
(* progress.  Tickets move on meanwhile through the progress log.          *)
(*                                                                         *)
(* The locks of an operation are granted together (module Mutation takes   *)
(* them one by one), a preview is one step, and a progress mutation is the *)
(* single step that module Progress implements.  Editors, who know of no   *)
(* locks, remove matrices or convert their line ends.                      *)
(***************************************************************************)
EXTENDS Strategy, FiniteSets

CONSTANTS
  Client,      \* the processes and threads that govern the store
  Phase,       \* the phases that have a matrix
  Ticket,      \* the accepted tickets
  Request,     \* selections and bindings clients may ask for
  Start,       \* the files an investigation may have at first
  None,        \* nothing
  MaxTurns,    \* bound: previews and operations of each client
  MaxMoves,    \* bound: changes of a ticket's status
  MaxMishaps   \* bound: system calls that fail, crashes and edits, together

VARIABLES
  file,      \* content and revision of every governed file
  clock,     \* the next revision
  pc,        \* what each client does next
  task,      \* what each client asked for
  preview,   \* the preview each client holds
  want,      \* the locks of each client
  held,      \* whether they were granted
  receipts,  \* what each client published: path, prior file and revision
  outcome,   \* the answer to each client
  permit,    \* history: the writer each client may spawn, and its binding
  torn,      \* history: matrices whose selection was cut off or not undone
  budget     \* what is left of the bounds

clientVars == <<pc, task, want, held, receipts, outcome>>
vars == <<file, clock, clientVars, preview, permit, torn, budget>>

-----------------------------------------------------------------------------
Implementation == "implementation"

Selections == { r \in Request : r.op = "select" }

OpId == { r.id : r \in Selections }

Matrix(phase) == <<"matrix", phase>>
History(id) == <<"record", id>>
Binding == <<"binding">>
Log == <<"log">>

Path == { Matrix(phase) : phase \in Phase } \cup { History(id) : id \in OpId } \cup {Binding, Log}

Status == {"unknown", "in_progress", "blocked", "complete"}

Active == {"in_progress", "blocked"}

WriterTask == [op : {"writer"}, ticket : Ticket]

\* Both operations that change something name a phase that exists; a selection has workers and
\* claims.
ASSUME RequestAssumption ==
  /\ Implementation \in Phase
  /\ \A r \in Request : r.op = "bind" \/ (r.op = "select" /\ r.matrix.phase \in Phase)
  /\ \A r \in Selections : r.matrix.workers \in Seq(StrategyWorker) /\ r.claims \in Seq(Claim)

\* A store starts with files that are there, a log of its tickets and a binding that fits.
ASSUME StartAssumption ==
  /\ Absent \notin [Ticket -> Status]
  /\ \A start \in Start :
       /\ \A p \in DOMAIN start : start[p] # Absent
       /\ Log \in DOMAIN start => start[Log] \in [Ticket -> Status]
       /\ {Matrix(Implementation), Binding} \subseteq DOMAIN start =>
            BindingDiagnostics(start[Matrix(Implementation)], start[Binding]) = {}

\* What the record of a selection may say.
TransitionRecord ==
  [phase : Phase, selected : { r.matrix : r \in Selections }, first : BOOLEAN,
   available : { r.available : r \in Selections }, claims : { r.claims : r \in Selections }]

\* A record that is written is a file that is there.
ASSUME RecordAssumption == Absent \notin TransitionRecord

At(c, label) == pc[c] = label

Goto(c, label) == pc' = [pc EXCEPT ![c] = label]

Spend(kind) ==
  /\ budget[kind] > 0
  /\ budget' = [budget EXCEPT ![kind] = @ - 1]

SpendTurn(c) ==
  /\ budget.turns[c] > 0
  /\ budget' = [budget EXCEPT !.turns[c] = @ - 1]

Content(p) == file[p].content

Exists(p) == Content(p) # Absent

NoFile == [content |-> Absent, rev |-> 0]

NoLocks == [keys |-> {}, excl |-> {}]

\* Mutant: a file that did not exist is put back as an empty one.
WrittenAlways(content) == [content |-> content, rev |-> clock]

\* A file with this content, or no file.
Written(content) == IF content = Absent THEN NoFile ELSE [content |-> content, rev |-> clock]

\* The shape of every variable.
TypeOK ==
  /\ DOMAIN file = Path
  /\ \A p \in Path : file[p].rev \in 0..(clock - 1) /\ (file[p].rev = 0 <=> ~ Exists(p))
  /\ Exists(Log) => Content(Log) \in [Ticket -> Status]
  /\ clock \in Nat
  /\ pc \in [Client -> {"idle", "lock", "check", "publish", "rollback"}]
  /\ task \in [Client -> Request \cup WriterTask \cup {None}]
  /\ DOMAIN preview = Client
  /\ want \in [Client -> [keys : SUBSET Path, excl : SUBSET Path]]
  /\ held \in [Client -> BOOLEAN]
  /\ DOMAIN receipts = Client
  /\ \A c \in Client : \A i \in DOMAIN receipts[c] : receipts[c][i].path \in Path
  /\ outcome \in [Client -> {"none", "done", "stale", "invalid", "io", "incomplete"}]
  /\ torn \subseteq Path
  /\ DOMAIN permit = Client
  /\ \A c \in Client : permit[c] # None => permit[c].ticket \in Ticket

Init ==
  /\ \E start \in Start : file = [p \in Path |->
       IF p \in DOMAIN start THEN [content |-> start[p], rev |-> 1] ELSE NoFile]
  /\ clock = 2
  /\ pc = [c \in Client |-> "idle"]
  /\ task = [c \in Client |-> None]
  /\ preview = [c \in Client |-> None]
  /\ want = [c \in Client |-> NoLocks]
  /\ held = [c \in Client |-> FALSE]
  /\ receipts = [c \in Client |-> <<>>]
  /\ outcome = [c \in Client |-> "none"]
  /\ permit = [c \in Client |-> None]
  /\ torn = {}
  /\ budget = [turns |-> MaxTurns, moves |-> MaxMoves, mishaps |-> MaxMishaps]

-----------------------------------------------------------------------------
\* What a selection depends on: its two targets, the binding of an
\* implementation, and the phase's records when its matrix is missing.
SelectionReads(r) ==
  LET phase == r.matrix.phase
  IN  {Matrix(phase), History(r.id)}
        \cup (IF phase = Implementation THEN {Binding} ELSE {})
        \cup (IF Exists(Matrix(phase))
                THEN {}
                ELSE { History(id) : id \in
                         { i \in OpId : Exists(History(i)) /\ Content(History(i)).phase = phase } })

\* Mutant: the progress log is not among the dependencies of a binding.
BindingReadsNoLog(r) == {Binding, Matrix(Implementation)}

BindingReads(r) == {Binding, Matrix(Implementation), Log}

Reads(r) ==
  CASE r.op = "select" -> SelectionReads(r)
    [] r.op = "bind" -> BindingReads(r)
    [] r.op = "writer" -> {Log}

Targets(r) ==
  CASE r.op = "select" -> <<Matrix(r.matrix.phase), History(r.id)>>
    [] r.op = "bind" -> <<Binding>>
    [] r.op = "writer" -> <<>>

\* Mutant: the targets are locked as the other dependencies are.
SharedLocks(r) == [keys |-> Reads(r), excl |-> {}]

\* Dependencies are shared, targets exclusive.
LocksOf(r) == [keys |-> Reads(r), excl |-> Reads(r) \cap ToSet(Targets(r))]

Compatible(c, keys, excl) ==
  \A d \in Client \ {c} : held[d] => keys \cap want[d].keys \cap (excl \cup want[d].excl) = {}

-----------------------------------------------------------------------------
\* Equal up to line ends (eol_equivalent).
SameText(content, m) == content # Absent /\ content.matrix = m

\* The record of a selection that is made now.  Of the matrix it replaces, whose strategy and
\* revision it names, only whether there is one is kept here.
FreshRecord(r) ==
  [phase |-> r.matrix.phase, selected |-> r.matrix, first |-> ~ Exists(Matrix(r.matrix.phase)),
   available |-> r.available, claims |-> r.claims]

\* A record with the operation's identity says what the request asks for
\* (transition_matches_request and the two digests).
RecordMatches(record, r) ==
  /\ record.phase = r.matrix.phase
  /\ record.selected = r.matrix
  /\ record.available = r.available
  /\ record.claims = r.claims

\* Mutant: a missing matrix may always be selected.
AnyMissingMatrix(r) ==
  LET current == Content(Matrix(r.matrix.phase))
  IN  current # Absent => current.matrix.complete

\* The matrix that is replaced must be complete; one that is missing may not
\* have been selected before.
PriorAllowsSelection(r) ==
  LET current == Content(Matrix(r.matrix.phase))
  IN  IF current # Absent
        THEN current.matrix.complete
        ELSE \A id \in OpId : Exists(History(id)) => Content(History(id)).phase # r.matrix.phase

\* Mutant: an operation that has its record is taken for done.
ReplayByIdentity(r) ==
  Exists(History(r.id)) => Content(History(r.id)).phase = r.matrix.phase

\* An operation that has its record may only be asked for again as it was,
\* and while its matrix is still in place.
ReplayIsExact(r) ==
  Exists(History(r.id)) =>
    /\ SameText(Content(Matrix(r.matrix.phase)), r.matrix)
    /\ RecordMatches(Content(History(r.id)), r)

\* Mutant: the proposed matrix is missing from the scan that is compared.
IntroducedByRecord(r) ==
  IF SweepFindsOverlap(r.claims) /\ ~ Exists(History(r.id))
    THEN {"overlapping_strategy_ownership"} ELSE {}

\* The diagnostics of the proposed matrix and record that were not there.
SelectionIntroduces(r) ==
  LET before == BindingDiagnostics(Content(Matrix(Implementation)), Content(Binding))
      after == BindingDiagnostics([matrix |-> r.matrix, eol |-> "lf"], Content(Binding))
  IN  (IF r.matrix.phase = Implementation THEN after \ before ELSE {})
        \cup (IF SweepFindsOverlap(r.claims) /\ ~ Exists(History(r.id))
                THEN {"overlapping_strategy_ownership"} ELSE {})

SelectionPasses(r) ==
  /\ Selectable(r.matrix)
  /\ PriorAllowsSelection(r)
  /\ r.matrix.needs \subseteq r.available
  /\ ReplayIsExact(r)
  /\ SelectionIntroduces(r) = {}

\* Mutant: only a ticket in progress counts as active.
InactiveUnlessStarted ==
  Exists(Log) => \A t \in Ticket : Content(Log)[t] # "in_progress"

\* No ticket is being worked on (ensure_binding_inactive).
Inactive == Exists(Log) => \A t \in Ticket : Content(Log)[t] \notin Active

BindingPasses(r) ==
  /\ Exists(Matrix(Implementation))
  /\ OneWriter(Content(Matrix(Implementation)).matrix)
  /\ r.binding.adapter = Content(Matrix(Implementation)).matrix.adapter
  /\ Inactive

Passes(r) == IF r.op = "select" THEN SelectionPasses(r) ELSE BindingPasses(r)

\* What the targets of an operation shall say: files that say it already stay as they are.
ProposedMatrix(r) ==
  LET current == Content(Matrix(r.matrix.phase))
  IN  IF SameText(current, r.matrix) THEN current ELSE [matrix |-> r.matrix, eol |-> "lf"]

ProposedRecord(r) == IF Exists(History(r.id)) THEN Content(History(r.id)) ELSE FreshRecord(r)

Proposed(r) ==
  IF r.op = "bind"
    THEN [p \in {Binding} |-> r.binding]
    ELSE [p \in {Matrix(r.matrix.phase), History(r.id)} |->
            IF p = History(r.id) THEN ProposedRecord(r) ELSE ProposedMatrix(r)]

IfChanged(r, p) == IF Proposed(r)[p] # Content(p) THEN <<p>> ELSE <<>>

\* The files that change, in the order in which they are written.
Writes(r) ==
  IF r.op = "bind"
    THEN IfChanged(r, Binding)
    ELSE IfChanged(r, Matrix(r.matrix.phase)) \o IfChanged(r, History(r.id))

Prepared(r) ==
  [request |-> r, changes |-> Proposed(r),
   inputs |-> [p \in Reads(r) |-> file[p]], writes |-> Writes(r)]

\* A change that is none (GovernedChange::no_op) is not written.
NoOp(change) == change.writes = <<>>

-----------------------------------------------------------------------------
\* A preview takes its locks shared; one that is refused leaves none.
Preview(c) ==
  \E r \in Request :
    /\ At(c, "idle")
    /\ SpendTurn(c)
    /\ Compatible(c, Reads(r), {})
    /\ preview' = [preview EXCEPT ![c] = IF Passes(r) THEN Prepared(r) ELSE None]
    /\ outcome' = [outcome EXCEPT ![c] = "none"]
    /\ UNCHANGED <<file, clock, pc, task, want, held, receipts, permit, torn>>

\* An operation starts and discovers its dependencies without locks.
Begin(c, r) ==
  /\ At(c, "idle")
  /\ SpendTurn(c)
  /\ task' = [task EXCEPT ![c] = r]
  /\ want' = [want EXCEPT ![c] = LocksOf(r)]
  /\ outcome' = [outcome EXCEPT ![c] = "none"]
  /\ Goto(c, "lock")
  /\ UNCHANGED <<file, clock, preview, held, receipts, permit, torn>>

\* A preview may be applied again; altering it is left out.
Apply(c) == preview[c] # None /\ Begin(c, preview[c].request)

RequireWriter(c) == \E r \in WriterTask : Begin(c, r)

Acquire(c) ==
  /\ At(c, "lock")
  /\ Compatible(c, want[c].keys, want[c].excl)
  /\ held' = [held EXCEPT ![c] = TRUE]
  /\ Goto(c, "check")
  /\ UNCHANGED <<file, clock, task, preview, want, receipts, outcome, permit, torn, budget>>

\* An operation returns and drops its locks.
Return(c, answer) ==
  /\ outcome' = [outcome EXCEPT ![c] = answer]
  /\ Goto(c, "idle")
  /\ task' = [task EXCEPT ![c] = None]
  /\ want' = [want EXCEPT ![c] = NoLocks]
  /\ held' = [held EXCEPT ![c] = FALSE]
  /\ receipts' = [receipts EXCEPT ![c] = <<>>]

-----------------------------------------------------------------------------
\* The dependencies, discovered again under the locks, are those locked.
Confirmed(c) == LocksOf(task[c]) = want[c]

\* Every file the preview read has the revision it had.
AsPreviewed(c) == \A p \in DOMAIN preview[c].inputs : file[p].rev = preview[c].inputs[p].rev

IsWriter(r) == r.op = "writer"

CheckStale(c) ==
  /\ At(c, "check")
  /\ Confirmed(c) => ~ IsWriter(task[c]) /\ ~ AsPreviewed(c)
  /\ Return(c, "stale")
  /\ UNCHANGED <<file, clock, preview, permit, torn, budget>>

\* What was approved is what would be prepared now.
StillPasses(c) == Passes(task[c]) /\ Proposed(task[c]) = preview[c].changes

CheckRefused(c) ==
  /\ At(c, "check")
  /\ ~ IsWriter(task[c])
  /\ Confirmed(c) /\ AsPreviewed(c) /\ ~ StillPasses(c)
  /\ Return(c, "invalid")
  /\ UNCHANGED <<file, clock, preview, permit, torn, budget>>

CheckNoOp(c) ==
  /\ At(c, "check")
  /\ ~ IsWriter(task[c])
  /\ Confirmed(c) /\ AsPreviewed(c) /\ StillPasses(c) /\ NoOp(preview[c])
  /\ Return(c, "done")
  /\ UNCHANGED <<file, clock, preview, permit, torn, budget>>

CheckPassed(c) ==
  /\ At(c, "check")
  /\ ~ IsWriter(task[c])
  /\ Confirmed(c) /\ AsPreviewed(c) /\ StillPasses(c) /\ ~ NoOp(preview[c])
  /\ Goto(c, "publish")
  /\ UNCHANGED <<file, clock, task, preview, want, held, receipts, outcome, permit, torn, budget>>

InProgress(t) == Exists(Log) /\ Content(Log)[t] = "in_progress"

\* A writer may be spawned for a ticket that is in progress.  The locks are
\* dropped with the answer: the spawn itself comes later.
Permit(c) ==
  /\ At(c, "check")
  /\ IsWriter(task[c])
  /\ Confirmed(c)
  /\ InProgress(task[c].ticket)
  /\ permit' = [permit EXCEPT ![c] = [ticket |-> task[c].ticket, binding |-> Content(Binding)]]
  /\ Return(c, "done")
  /\ UNCHANGED <<file, clock, preview, torn, budget>>

Deny(c) ==
  /\ At(c, "check")
  /\ IsWriter(task[c])
  /\ Confirmed(c)
  /\ ~ InProgress(task[c].ticket)
  /\ Return(c, "invalid")
  /\ UNCHANGED <<file, clock, preview, permit, torn, budget>>

\* A system call fails before anything is published.
Fails(c) ==
  /\ pc[c] \in {"lock", "check"}
  /\ Spend("mishaps")
  /\ Return(c, "io")
  /\ UNCHANGED <<file, clock, preview, permit, torn>>

-----------------------------------------------------------------------------
\* The next file is written, the matrix before its record; what was captured
\* of it is kept for a rollback.
Publish(c) ==
  /\ At(c, "publish")
  /\ Len(receipts[c]) < Len(preview[c].writes)
  /\ LET p == preview[c].writes[Len(receipts[c]) + 1]
     IN  /\ file' = [file EXCEPT ![p] = Written(preview[c].changes[p])]
         /\ receipts' = [receipts EXCEPT ![c] = Append(@,
              [path |-> p, prior |-> preview[c].inputs[p].content, rev |-> clock])]
  /\ clock' = clock + 1
  /\ UNCHANGED <<pc, task, preview, want, held, outcome, permit, torn, budget>>

PublishFails(c) ==
  /\ At(c, "publish")
  /\ Len(receipts[c]) < Len(preview[c].writes)
  /\ Spend("mishaps")
  /\ Goto(c, "rollback")
  /\ UNCHANGED <<file, clock, task, preview, want, held, receipts, outcome, permit, torn>>

\* All targets are read back and compared byte for byte.
Reread(c) == \A p \in DOMAIN preview[c].changes : Content(p) = preview[c].changes[p]

Verify(c) ==
  /\ At(c, "publish")
  /\ Len(receipts[c]) = Len(preview[c].writes)
  /\ Reread(c)
  /\ Return(c, "done")
  /\ UNCHANGED <<file, clock, preview, permit, torn, budget>>

VerifyFails(c) ==
  /\ At(c, "publish")
  /\ Len(receipts[c]) = Len(preview[c].writes)
  /\ IF Reread(c) THEN Spend("mishaps") ELSE UNCHANGED budget
  /\ Goto(c, "rollback")
  /\ UNCHANGED <<file, clock, task, preview, want, held, receipts, outcome, permit, torn>>

DropReceipt(c) ==
  receipts' = [receipts EXCEPT ![c] = SubSeq(@, 1, Len(@) - 1)]

\* The last file published is put back, if it still is what was published.
Restore(c) ==
  /\ At(c, "rollback")
  /\ receipts[c] # <<>>
  /\ LET receipt == Last(receipts[c])
     IN  /\ file[receipt.path].rev = receipt.rev
         /\ file' = [file EXCEPT ![receipt.path] = Written(receipt.prior)]
  /\ clock' = clock + 1
  /\ DropReceipt(c)
  /\ UNCHANGED <<pc, task, preview, want, held, outcome, permit, torn, budget>>

\* A file that is another one by now, or cannot be put back, is reported.
RestoreFails(c) ==
  /\ At(c, "rollback")
  /\ receipts[c] # <<>>
  /\ LET receipt == Last(receipts[c])
     IN  /\ IF file[receipt.path].rev = receipt.rev THEN Spend("mishaps") ELSE UNCHANGED budget
         /\ torn' = torn \cup {receipt.path}
  /\ outcome' = [outcome EXCEPT ![c] = "incomplete"]
  /\ DropReceipt(c)
  /\ UNCHANGED <<file, clock, pc, task, preview, want, held, permit>>

FinishRollback(c) ==
  /\ At(c, "rollback")
  /\ receipts[c] = <<>>
  /\ Return(c, IF outcome[c] = "incomplete" THEN "incomplete" ELSE "io")
  /\ UNCHANGED <<file, clock, preview, permit, torn, budget>>

\* The process dies and its locks go with it; what it published stays.
Crash(c) ==
  /\ ~ At(c, "idle")
  /\ Spend("mishaps")
  /\ torn' = torn \cup { receipts[c][i].path : i \in DOMAIN receipts[c] }
  /\ Return(c, "none")
  /\ UNCHANGED <<file, clock, preview, permit>>

-----------------------------------------------------------------------------
\* A progress mutation takes the log exclusively, and is one step.
Advance ==
  /\ Spend("moves")
  /\ \A c \in Client : held[c] => Log \notin want[c].keys
  /\ \E t \in Ticket, status \in Status :
       LET statuses == IF Exists(Log) THEN Content(Log) ELSE [u \in Ticket |-> "unknown"]
       IN  /\ status # statuses[t]
           /\ file' = [file EXCEPT ![Log] = Written([statuses EXCEPT ![t] = status])]
           /\ permit' = [c \in Client |->
                IF permit[c] # None /\ permit[c].ticket = t /\ status \notin Active
                  THEN None ELSE permit[c]]
  /\ clock' = clock + 1
  /\ UNCHANGED <<clientVars, preview, torn>>

\* An editor, or Git, removes a matrix or converts its line ends.
Edit ==
  /\ Spend("mishaps")
  /\ \E phase \in Phase :
       /\ Exists(Matrix(phase))
       /\ \/ file' = [file EXCEPT ![Matrix(phase)] = NoFile]
          \/ file' = [file EXCEPT ![Matrix(phase)] =
                       Written([matrix |-> Content(Matrix(phase)).matrix, eol |-> "crlf"])]
  /\ clock' = clock + 1
  /\ UNCHANGED <<clientVars, preview, permit, torn>>

Finished ==
  /\ \A c \in Client : At(c, "idle") /\ budget.turns[c] = 0
  /\ UNCHANGED vars

Operate(c) ==
  \/ Preview(c) \/ Apply(c) \/ RequireWriter(c)
  \/ Acquire(c)
  \/ CheckStale(c) \/ CheckRefused(c) \/ CheckNoOp(c) \/ CheckPassed(c)
  \/ Permit(c) \/ Deny(c)
  \/ Publish(c) \/ PublishFails(c) \/ Verify(c) \/ VerifyFails(c)
  \/ Restore(c) \/ RestoreFails(c) \/ FinishRollback(c)
  \/ Fails(c) \/ Crash(c)

Next == (\E c \in Client : Operate(c)) \/ Advance \/ Edit \/ Finished

Spec == Init /\ [][Next]_vars

-----------------------------------------------------------------------------
\* A client that may spawn a writer for a ticket finds the writer binding it
\* was permitted under for as long as the ticket is active: nobody rebinds
\* the writer between the permission and the end of the work.
PermitKeepsBinding ==
  \A c \in Client : permit[c] # None => Content(Binding) = permit[c].binding

\* The binding always applies to the implementation matrix: one client
\* selects a matrix and another rebinds the writer, each against what the
\* other may be about to replace.
BindingFits ==
  BindingDiagnostics(Content(Matrix(Implementation)), Content(Binding)) = {}

Busy(p) == \E c \in Client : \E i \in DOMAIN receipts[c] : receipts[c][i].path = p

\* Outside a transaction a matrix that was selected has the record of its
\* selection, unless a crash or an editor cut the transaction off; and a phase
\* is selected for the first time once: its matrix is not silently selected
\* anew after an editor removed it.
SelectionRecorded ==
  /\ \A phase \in Phase :
       \/ Busy(Matrix(phase)) \/ Matrix(phase) \in torn \/ ~ Exists(Matrix(phase))
       \/ \A r \in Selections : r.matrix # Content(Matrix(phase)).matrix
       \/ \E id \in OpId : /\ Exists(History(id))
                          /\ Content(History(id)).selected = Content(Matrix(phase)).matrix
  /\ \A i, j \in { id \in OpId : Exists(History(id)) /\ Content(History(id)).first } :
       Content(History(i)).phase = Content(History(j)).phase => i = j

\* A record outside a transaction is neither rewritten nor removed, by
\* whatever operation asks for its identity again.
RecordsStay ==
  [][\A id \in OpId : Exists(History(id)) /\ ~ Busy(History(id)) =>
       Content(History(id))' = Content(History(id))]_vars

\* No record lets two owners claim overlapping paths, however deep a claim is
\* nested, and the workers a selected matrix demands at least fit its capacity,
\* counted without a limit on the size of numbers.
SelectedIsLawful ==
  /\ \A id \in OpId : Exists(History(id)) => ~ OwnersOverlap(Content(History(id)).claims)
  /\ \A r \in Selections, phase \in Phase :
       Exists(Matrix(phase)) /\ Content(Matrix(phase)).matrix = r.matrix =>
         Demand(r.matrix.workers) <= r.matrix.capacity
=============================================================================
