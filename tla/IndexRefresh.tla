----------------------------- MODULE IndexRefresh -----------------------------
(***************************************************************************)
(* Reads of the Store and of the index derived from it.  A read collects   *)
(* the metadata revisions of files, opens and reads them, and collects the *)
(* revisions again (scanning.rs, inventory.rs, read_context.rs,            *)
(* selected.rs).  A provider process answers from an SQLite file that all  *)
(* processes share: it trusts the file when its own watcher has reported   *)
(* nothing and the revision fits, and derives and publishes it anew        *)
(* otherwise (indexed.rs, watching.rs, casefile-store-sqlite).             *)
(*                                                                         *)
(* The calls of one process follow each other, for they hold its watch     *)
(* mutex.  A removal is an edit like any other.  A quiet edit keeps the    *)
(* revision, as two writes within one tick of a coarse clock do.           *)
(***************************************************************************)
EXTENDS Naturals, Sequences, SequencesExt

CONSTANTS
  Process,   \* provider processes over one Store and one index file
  Files,     \* the files of the Store, in the order a walk meets them
  Index0,    \* the index files there may be at first
  None,      \* nothing
  Cost,      \* bound: what a call of each kind takes of MaxCalls
  MaxCalls,  \* bound: calls of all processes together
  MaxEvents  \* bound: edits, watcher errors, failed starts and crashes, together

VARIABLES
  file,      \* revision and data of every file
  clock,     \* the next revision, datum and publication
  index,     \* the index file
  upgrade,   \* whether the index was of an older schema when it was opened
  watch,     \* watcher, epoch, reconciled epoch and error of each process
  pending,   \* edits whose events a watcher has not delivered yet
  pc,        \* what each process does next
  walk,      \* the files a walk has still to visit
  work,      \* what a call observed, collected, scanned and read
  answer,    \* what the last call returned: its kind and its data
  versions,  \* history: all states of the Store
  seen,      \* history: what a call may answer
  noticed,   \* history: the edits each process was told of
  synced,    \* history: what was answered at the last reconciliation
  disturbed, \* history: whether something interfered with the last call
  muddled,   \* history: a quiet edit passed between a scan and its publication
  budget     \* what is left of the bounds

indexVars == <<index, upgrade>>
watchVars == <<watch, pending>>
histVars == <<versions, seen, noticed, synced, disturbed, muddled>>
vars == <<file, clock, indexVars, watchVars, pc, walk, work, answer, histVars, budget>>

-----------------------------------------------------------------------------
File == ToSet(Files)

\* A Store has a file, and an index that bears the revision of the Store as it is at first was
\* derived from that Store.
ASSUME RefreshAssumption ==
  /\ Files \in Seq(File) /\ Files # <<>>
  /\ Index0 \ {None} \subseteq
       [id : {0}, legacy : BOOLEAN, rev : [File -> 0..1], data : [File -> Nat]]
  /\ \A i \in Index0 \ {None} :
       ~ i.legacy /\ i.rev = [f \in File |-> 1] => i.data = [f \in File |-> 1]
  /\ None \notin [File -> Nat]
  /\ None \notin [id : Nat, legacy : BOOLEAN, rev : [File -> Nat], data : [File -> Nat]]

Label == {"idle", "observe", "baseline", "inspect", "project", "project again", "confirm",
          "check", "reconcile", "collect", "open", "read", "verify", "compare", "publish"}

Revs == [f \in File |-> file[f].rev]

Datas == [f \in File |-> file[f].data]

NoWork == [kind |-> "none", epoch |-> 0, inv |-> [f \in File |-> 0], scan |-> None,
           source |-> None, id |-> 0, read |-> <<>>]

NoWatch == [running |-> FALSE, epoch |-> 0, reconciled |-> 0, error |-> FALSE]

At(p, label) == pc[p] = label

\* The process goes on with a walk over all files, or with a single step.
Goto(p, label) ==
  /\ pc' = [pc EXCEPT ![p] = label]
  /\ walk' = [walk EXCEPT ![p] = Files]

Spend(kind) ==
  /\ budget[kind] > 0
  /\ budget' = [budget EXCEPT ![kind] = @ - 1]

\* The shape of every variable; no epoch is reconciled before it came.
TypeOK ==
  /\ file \in [File -> [rev : 0..(clock - 1), data : 0..(clock - 1)]]
  /\ clock \in Nat
  /\ index # None => index.id \in 0..(clock - 1) /\ index.legacy \in BOOLEAN
  /\ upgrade \in [Process -> BOOLEAN]
  /\ watch \in [Process -> [running : BOOLEAN, epoch : Nat, reconciled : Nat, error : BOOLEAN]]
  /\ \A p \in Process : watch[p].reconciled <= watch[p].epoch
  /\ \A p \in Process : pending[p] \in Seq(1..(clock - 1))
  /\ pc \in [Process -> Label]
  /\ \A p \in Process : IsSuffix(walk[p], Files)
  /\ \A p \in Process : work[p].inv \in [File -> 0..(clock - 1)]
  /\ \A p \in Process : answer[p].kind \in {"none", "value", "degraded", "error"}

Init ==
  /\ file = [f \in File |-> [rev |-> 1, data |-> 1]]
  /\ clock = 2
  /\ index \in Index0
  /\ upgrade = [p \in Process |-> index # None /\ index.legacy]
  /\ watch = [p \in Process |-> NoWatch]
  /\ pending = [p \in Process |-> <<>>]
  /\ pc = [p \in Process |-> "idle"]
  /\ walk = [p \in Process |-> Files]
  /\ work = [p \in Process |-> NoWork]
  /\ answer = [p \in Process |-> [kind |-> "none", data |-> <<>>]]
  /\ versions = {[at |-> 1, rev |-> Revs, data |-> Datas]}
  /\ seen = [p \in Process |-> {}]
  /\ noticed = [p \in Process |-> {}]
  /\ synced = [p \in Process |-> None]
  /\ disturbed = [p \in Process |-> FALSE]
  /\ muddled = FALSE
  /\ budget = [calls |-> MaxCalls, events |-> MaxEvents]

-----------------------------------------------------------------------------
\* What a call may answer at its start: the Store as it is, or as it was
\* before quiet edits that nobody told this process of.
Unnoticed(p) ==
  { v.data : v \in { v \in versions :
      /\ v.rev = Revs
      /\ \A w \in versions : w.at > v.at => w.at \notin noticed[p] } }

\* A read of the index (full_cache_phase), or of the files themselves.
Call(p) ==
  \E kind \in {"index", "files"} :
    /\ At(p, "idle")
    /\ budget.calls >= Cost[kind]
    /\ budget' = [budget EXCEPT !.calls = @ - Cost[kind]]
    /\ Goto(p, IF kind = "index" THEN "observe" ELSE "collect")
    /\ work' = [work EXCEPT ![p] = [NoWork EXCEPT !.kind = kind]]
    /\ answer' = [answer EXCEPT ![p] = [kind |-> "none", data |-> <<>>]]
    /\ seen' = [seen EXCEPT ![p] = Unnoticed(p)]
    /\ disturbed' = [disturbed EXCEPT ![p] = FALSE]
    /\ UNCHANGED <<file, clock, indexVars, watchVars, versions, noticed, synced, muddled>>

Return(p, kind, data) ==
  /\ answer' = [answer EXCEPT ![p] = [kind |-> kind, data |-> data]]
  /\ work' = [work EXCEPT ![p] = NoWork]
  /\ Goto(p, "idle")

\* Mutant: the error of a watcher stays when another one was started.
StartedWithError(w) == [w EXCEPT !.running = TRUE]

\* A watcher was started.
Started(w) == [w EXCEPT !.running = TRUE, !.error = FALSE]

FailedStart(w) == [w EXCEPT !.running = FALSE, !.epoch = @ + 1, !.error = TRUE]

NeedsStart(w) == ~ w.running \/ w.error

\* Mutant: only an error makes the index doubtful.
DirtyByError(w) == w.error

Dirty(w) == w.epoch # w.reconciled \/ w.error

\* The watcher is started if need be and its epoch observed.  Events of a
\* watcher that is replaced are lost.
Observe(p) ==
  /\ At(p, "observe")
  /\ IF NeedsStart(watch[p])
       THEN /\ \/ watch' = [watch EXCEPT ![p] = Started(@)] /\ UNCHANGED <<budget, disturbed>>
               \/ /\ Spend("events")
                  /\ watch' = [watch EXCEPT ![p] = FailedStart(@)]
                  /\ disturbed' = [disturbed EXCEPT ![p] = TRUE]
            /\ pending' = [pending EXCEPT ![p] = <<>>]
       ELSE UNCHANGED <<watchVars, budget, disturbed>>
  /\ work' = [work EXCEPT ![p].epoch = watch'[p].epoch]
  /\ Goto(p, IF Dirty(watch'[p]) THEN "collect" ELSE "baseline")
  /\ UNCHANGED <<file, clock, indexVars, answer, versions, seen, noticed, synced, muddled>>

-----------------------------------------------------------------------------
\* A walk that is only compared finds what one step between its ends would
\* find, as revisions do not recur: it is one step here.
CollectAll(p, label, next) ==
  /\ At(p, label)
  /\ work' = [work EXCEPT ![p].inv = Revs]
  /\ Goto(p, next)
  /\ UNCHANGED <<file, clock, indexVars, watchVars, answer, histVars, budget>>

\* The walk of a scan collects the revision of the next file
\* (metadata_inventory).
Collect(p) ==
  /\ At(p, "collect")
  /\ work' = [work EXCEPT ![p].inv[Head(walk[p])] = file[Head(walk[p])].rev]
  /\ IF Len(walk[p]) = 1
       THEN Goto(p, "open")
       ELSE walk' = [walk EXCEPT ![p] = Tail(@)] /\ UNCHANGED pc
  /\ UNCHANGED <<file, clock, indexVars, watchVars, answer, histVars, budget>>

Unchanged(p) == work[p].inv[Head(walk[p])] = file[Head(walk[p])].rev

\* The next file is opened if its revision is the one collected.
Open(p) ==
  /\ At(p, "open")
  /\ IF Unchanged(p)
       THEN pc' = [pc EXCEPT ![p] = "read"] /\ UNCHANGED <<walk, work, answer>>
       ELSE Return(p, "error", <<>>)
  /\ UNCHANGED <<file, clock, indexVars, watchVars, histVars, budget>>

\* Its bytes are read, whatever they are by then.
Read(p) ==
  /\ At(p, "read")
  /\ LET f == Head(walk[p])
         before == IF work[p].scan = None THEN [g \in File |-> 0] ELSE work[p].scan
     IN  work' = [work EXCEPT ![p].scan = [before EXCEPT ![f] = file[f].data]]
  /\ IF Len(walk[p]) = 1
       THEN Goto(p, "verify")
       ELSE /\ walk' = [walk EXCEPT ![p] = Tail(@)]
            /\ pc' = [pc EXCEPT ![p] = "open"]
  /\ UNCHANGED <<file, clock, indexVars, watchVars, answer, histVars, budget>>

\* Mutant: the files are not looked at again once they are read.
NotVerified(p) == TRUE

\* The next file still has its revision (require_inventory_unchanged).
Verified(p) == Unchanged(p)

\* A read of files answers what it read; a scan for the index goes on.
Verify(p) ==
  /\ At(p, "verify")
  /\ IF ~ Verified(p)
       THEN Return(p, "error", <<>>)
       ELSE IF Len(walk[p]) > 1
         THEN walk' = [walk EXCEPT ![p] = Tail(@)] /\ UNCHANGED <<pc, work, answer>>
         ELSE IF work[p].kind = "files"
           THEN Return(p, "value", <<work[p].scan>>)
           ELSE /\ work' = [work EXCEPT ![p].source = work[p].inv]
                /\ Goto(p, "compare")
                /\ UNCHANGED answer
  /\ UNCHANGED <<file, clock, indexVars, watchVars, histVars, budget>>

\* The revision an index bears: that of the scan it was derived from.
Stamp(p) == work[p].source

\* The index is prepared and, after the Store's revision was compared once
\* more, renamed into place.
Publish(p) ==
  /\ At(p, "publish")
  /\ IF work[p].inv = Stamp(p)
       THEN /\ index' = [id |-> clock, legacy |-> FALSE, rev |-> Stamp(p),
                         data |-> work[p].scan]
            /\ upgrade' = [upgrade EXCEPT ![p] = FALSE]
            /\ clock' = clock + 1
            /\ disturbed' = [q \in Process |-> disturbed[q] \/ q # p]
            /\ Goto(p, "baseline")
            /\ UNCHANGED <<work, answer>>
       ELSE Return(p, "degraded", <<>>) /\ UNCHANGED <<indexVars, clock, disturbed>>
  /\ UNCHANGED <<file, watchVars, versions, seen, noticed, synced, muddled, budget>>

-----------------------------------------------------------------------------
\* Mutant: any index file of this schema is taken for current.
AnyIndex(p) == index # None /\ ~ upgrade[p]

\* The index file is of this schema and of the collected revision.
Current(p) == index # None /\ ~ upgrade[p] /\ index.rev = work[p].inv

Scanned(p) == work[p].source # None

\* The revision just collected is looked up in the index.  A process that
\* has not scanned the Store does so now if the index is missing or stale.
Inspect(p) ==
  /\ At(p, "inspect")
  /\ IF Scanned(p) /\ work[p].inv # work[p].source
       THEN Return(p, "degraded", <<>>)
       ELSE IF Current(p)
         THEN /\ work' = [work EXCEPT ![p].id = index.id]
              /\ Goto(p, "project")
              /\ UNCHANGED answer
         ELSE IF Scanned(p)
           THEN Return(p, "degraded", <<>>)
           ELSE Goto(p, "collect") /\ UNCHANGED <<work, answer>>
  /\ UNCHANGED <<file, clock, indexVars, watchVars, histVars, budget>>

\* A projection opens the index file for each of its reads.
Project(p, label, next) ==
  /\ At(p, label)
  /\ IF Current(p)
       THEN /\ work' = [work EXCEPT ![p].read = Append(@, index.data)]
            /\ Goto(p, next)
            /\ UNCHANGED answer
       ELSE Return(p, "degraded", <<>>)
  /\ UNCHANGED <<file, clock, indexVars, watchVars, histVars, budget>>

\* It counts only when the file is still the publication it started from.
Confirm(p) ==
  /\ At(p, "confirm")
  /\ IF Current(p) /\ index.id = work[p].id
       THEN Goto(p, "check") /\ UNCHANGED <<work, answer>>
       ELSE Return(p, "degraded", <<>>)
  /\ UNCHANGED <<file, clock, indexVars, watchVars, histVars, budget>>

\* The files still have the revisions the projection was compared with.
Check(p) ==
  /\ At(p, "check")
  /\ IF work[p].inv = Revs
       THEN Goto(p, "reconcile") /\ UNCHANGED <<work, answer>>
       ELSE Return(p, "degraded", <<>>)
  /\ UNCHANGED <<file, clock, indexVars, watchVars, histVars, budget>>

\* Mutant: the epoch of now is reconciled, whatever was observed.
ReconcileNow(p) ==
  IF watch[p].error THEN watch[p] ELSE [watch[p] EXCEPT !.reconciled = watch[p].epoch]

\* Mutant: the epoch after the observed one is reconciled.
ReconcileNext(p) ==
  IF watch[p].error THEN watch[p] ELSE [watch[p] EXCEPT !.reconciled = work[p].epoch + 1]

\* The observed epoch is reconciled if it is still the last one.
Reconciled(p) ==
  IF watch[p].error \/ watch[p].epoch # work[p].epoch
    THEN watch[p]
    ELSE [watch[p] EXCEPT !.reconciled = work[p].epoch]

\* The call returns its projection if the watcher reported nothing since.
Reconcile(p) ==
  /\ At(p, "reconcile")
  /\ watch' = [watch EXCEPT ![p] = Reconciled(p)]
  /\ IF Dirty(watch'[p])
       THEN Return(p, "degraded", <<>>) /\ UNCHANGED synced
       ELSE /\ Return(p, "value", work[p].read)
            /\ synced' = [synced EXCEPT ![p] = Head(work[p].read)]
  /\ UNCHANGED <<file, clock, indexVars, pending, versions, seen, noticed, disturbed,
                 muddled, budget>>

-----------------------------------------------------------------------------
\* A scan of another process was begun and is not published yet.
Publishing(p) == At(p, "open") \/ At(p, "read") \/ At(p, "verify") \/ At(p, "compare")
                   \/ At(p, "publish")

\* A file is edited in place; running watchers will deliver an event.
Edit(f, rev) ==
  /\ Spend("events")
  /\ file' = [file EXCEPT ![f] = [rev |-> rev, data |-> clock]]
  /\ clock' = clock + 1
  /\ pending' = [p \in Process |->
       IF watch[p].running /\ ~ watch[p].error THEN Append(pending[p], clock) ELSE pending[p]]
  /\ noticed' = [p \in Process |->
       IF watch[p].error THEN noticed[p] \cup {clock} ELSE noticed[p]]
  /\ LET now == [at |-> clock, rev |-> [Revs EXCEPT ![f] = rev],
                 data |-> [Datas EXCEPT ![f] = clock]]
     IN  /\ versions' = versions \cup {now}
         /\ seen' = [p \in Process |->
              IF At(p, "idle") THEN seen[p] ELSE seen[p] \cup {now.data}]
  /\ disturbed' = [p \in Process |-> TRUE]
  /\ UNCHANGED <<indexVars, watch, pc, walk, work, answer, synced>>

LoudEdit == \E f \in File : Edit(f, clock) /\ UNCHANGED muddled

\* Bound: there is at most one quiet edit.
QuietEdit ==
  \E f \in File :
    /\ \A v, w \in versions : v.rev = w.rev => v = w
    /\ Edit(f, file[f].rev)
    /\ muddled' = (muddled \/ \E p \in Process : work[p].kind = "index" /\ Publishing(p))

\* An event reaches its process and starts an epoch (invalidate).
Deliver(p) ==
  /\ pending[p] # <<>>
  /\ watch' = [watch EXCEPT ![p].epoch = @ + 1]
  /\ pending' = [pending EXCEPT ![p] = Tail(@)]
  /\ noticed' = [noticed EXCEPT ![p] = @ \cup {Head(pending[p])}]
  /\ disturbed' = [disturbed EXCEPT ![p] = TRUE]
  /\ UNCHANGED <<file, clock, indexVars, pc, walk, work, answer, versions, seen, synced,
                 muddled, budget>>

\* The watcher reports an error; the events it still has are lost.
WatchError(p) ==
  /\ watch[p].running /\ ~ watch[p].error
  /\ Spend("events")
  /\ watch' = [watch EXCEPT ![p].epoch = @ + 1, ![p].error = TRUE]
  /\ pending' = [pending EXCEPT ![p] = <<>>]
  /\ noticed' = [noticed EXCEPT ![p] = { v.at : v \in versions }]
  /\ disturbed' = [disturbed EXCEPT ![p] = TRUE]
  /\ UNCHANGED <<file, clock, indexVars, pc, walk, work, answer, versions, seen, synced,
                 muddled>>

\* A process dies and starts again; the index file stays.
Crash(p) ==
  /\ ~ At(p, "idle")
  /\ Spend("events")
  /\ upgrade' = [upgrade EXCEPT ![p] = index # None /\ index.legacy]
  /\ watch' = [watch EXCEPT ![p] = NoWatch]
  /\ pending' = [pending EXCEPT ![p] = <<>>]
  /\ noticed' = [noticed EXCEPT ![p] = {}]
  /\ synced' = [synced EXCEPT ![p] = None]
  /\ Return(p, "none", <<>>)
  /\ UNCHANGED <<file, clock, index, versions, seen, disturbed, muddled>>

Finished ==
  /\ \A p \in Process : At(p, "idle") /\ budget.calls = 0
  /\ UNCHANGED vars

Step(p) ==
  \/ Call(p) \/ Observe(p)
  \/ CollectAll(p, "baseline", "inspect") \/ Inspect(p)
  \/ Project(p, "project", "project again") \/ Project(p, "project again", "confirm")
  \/ Confirm(p) \/ Check(p) \/ Reconcile(p)
  \/ Collect(p) \/ Open(p) \/ Read(p) \/ Verify(p)
  \/ CollectAll(p, "compare", "publish") \/ Publish(p)
  \/ Deliver(p) \/ WatchError(p) \/ Crash(p)

Next == (\E p \in Process : Step(p)) \/ LoudEdit \/ QuietEdit \/ Finished

Spec == Init /\ [][Next]_vars

-----------------------------------------------------------------------------
\* Every value returned is what one state of the Store says that existed
\* during the call, even if the files change as they are walked, another
\* process replaces the index between two reads, or an edit left no trace
\* in the revisions but its event was delivered before the call.  And a call
\* has no value to return only if an edit, an event, a fault or another
\* process's publication came between.
AnswersFresh ==
  \A p \in Process :
    /\ answer[p].kind = "value" /\ ~ muddled =>
         \E data \in seen[p] : ToSet(answer[p].data) = {data}
    /\ answer[p].kind \in {"degraded", "error"} => disturbed[p]

\* A process that believes its index reconciled, and has no event on its
\* way, has answered the Store as it is now, but for quiet edits it was not
\* told of: no event that arrives while a projection is computed is lost.
CleanMeansCurrent ==
  \A p \in Process :
    At(p, "idle") /\ synced[p] # None /\ pending[p] = <<>> /\ ~ Dirty(watch[p]) /\ ~ muddled =>
      synced[p] \in Unnoticed(p)
=============================================================================
