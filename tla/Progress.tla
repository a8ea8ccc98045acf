------------------------------ MODULE Progress ------------------------------
(***************************************************************************)
(* Progress mutations (progress.rs): clients append entries to the log of  *)
(* an investigation, replace it or bootstrap it, while others move tickets *)
(* in and out of the accepted ones through record batches (writing.rs).    *)
(* The entries an append adds are computed from a log that is read before  *)
(* any lock is held; an append whose preview is out of date succeeds all   *)
(* the same when its entries are found recorded, so that a client that got *)
(* no answer may apply again.                                              *)
(*                                                                         *)
(* The locks of an operation are granted together here: module Mutation    *)
(* takes them one by one and shows that their order lets nobody wait for   *)
(* ever.  A preview is one step, and every file has its canonical bytes.   *)
(***************************************************************************)
EXTENDS ProgressLog

CONSTANTS
  Request,     \* appends, replacements and the bootstrap of a log
  Client,      \* the processes and threads that mutate the store
  None,        \* nothing: no request, no preview
  MaxTurns,    \* bound: previews and operations of each client
  MaxFaults,   \* bound: system calls that fail
  MaxCrashes   \* bound: clients that crash

ASSUME ProgressAssumption ==
  /\ \A e \in Entry : e.ticket \in Ticket
  /\ Missing \notin Seq(Entry)
  /\ Request \subseteq [op : {"append", "bootstrap", "replace"}, entries : Seq(Entry)]
  /\ MaxTurns \in [Client -> Nat] /\ MaxFaults \in Nat /\ MaxCrashes \in Nat

VARIABLES
  file,          \* the progress log: its content and revision
  tickets,       \* where each ticket is, and the revision of its file
  clock,         \* the next revision
  pc,            \* what each client does next
  task,          \* what each client asked for
  preview,       \* the progress preview each client holds
  base,          \* the log each client read before it took locks
  want,          \* the locks of each client
  held,          \* whether they were granted
  outcome,       \* the answer to each client
  acknowledged,  \* history: the entries answered as recorded since a replacement
  budget         \* what is left of the bounds

clientVars == <<pc, task, preview, base, want, held, outcome>>
vars == <<file, tickets, clock, clientVars, acknowledged, budget>>

-----------------------------------------------------------------------------
Place == {"accepted", "provisional"}

Content == {Missing} \cup Seq(Entry)

MoveTask == [op : {"move"}, ticket : Ticket, to : Place]

TicketFile == Ticket \X Place

TheLog == <<"log">>

LockKey == {TheLog} \cup { <<t>> : t \in Ticket } \cup TicketFile

Version == [content : Content, rev : Nat]

Preview ==
  [request : Request, rev : Nat, inputs : SUBSET (TicketFile \X Nat), content : Content,
   noOp : BOOLEAN]

\* The shape of every variable (ProgressChangeRequest, ProgressPreview).
TypeOK ==
  /\ file \in Version
  /\ tickets \in [Ticket -> [at : Place, rev : Nat]]
  /\ clock \in Nat
  /\ pc \in [Client -> {"idle", "lock", "check", "publish", "verify", "rollback"}]
  /\ task \in [Client -> Request \cup MoveTask \cup {None}]
  /\ preview \in [Client -> Preview \cup {None}]
  /\ base \in [Client -> Version]
  /\ want \in [Client -> [keys : SUBSET LockKey, excl : SUBSET LockKey]]
  /\ held \in [Client -> BOOLEAN]
  /\ outcome \in [Client -> {"none", "done", "stale", "invalid", "io", "incomplete"}]
  /\ acknowledged \subseteq Entry
  /\ budget \in [turns : [Client -> Nat], faults : Nat, crashes : Nat]

NoFile == [content |-> Missing, rev |-> 0]

NoLocks == [keys |-> {}, excl |-> {}]

Init ==
  /\ file = NoFile
  /\ tickets \in [Ticket -> [at : Place, rev : {1}]]
  /\ clock = 2
  /\ pc = [c \in Client |-> "idle"]
  /\ task = [c \in Client |-> None]
  /\ preview = [c \in Client |-> None]
  /\ base = [c \in Client |-> NoFile]
  /\ want = [c \in Client |-> NoLocks]
  /\ held = [c \in Client |-> FALSE]
  /\ outcome = [c \in Client |-> "none"]
  /\ acknowledged = {}
  /\ budget = [turns |-> MaxTurns, faults |-> MaxFaults,
               crashes |-> MaxCrashes]

-----------------------------------------------------------------------------
At(c, label) == pc[c] = label

Goto(c, label) == pc' = [pc EXCEPT ![c] = label]

SpendTurn(c) ==
  /\ budget.turns[c] > 0
  /\ budget' = [budget EXCEPT !.turns[c] = @ - 1]

SpendFault ==
  /\ budget.faults > 0
  /\ budget' = [budget EXCEPT !.faults = @ - 1]

SpendCrash ==
  /\ budget.crashes > 0
  /\ budget' = [budget EXCEPT !.crashes = @ - 1]

Accepted == { t \in Ticket : tickets[t].at = "accepted" }

IsMove(request) == request.op = "move"

\* Mutant: operation ids alone tell what is recorded.
CompletedById(request, content) ==
  /\ content # Missing
  /\ request.op = "append" =>
       { e.id : e \in Recorded(request.entries) } \subseteq { e.id : e \in Recorded(content) }
  /\ request.op = "replace" => content = request.entries

\* What an operation asks for is there already (completed_no_op).
Completed(request, content) ==
  /\ content # Missing
  /\ request.op = "append" => Recorded(request.entries) \subseteq Recorded(content)
  /\ request.op = "replace" => content = request.entries

\* The tickets a progress mutation depends on: those of both logs, and for a
\* bootstrap every accepted one.
Depends(request, content) ==
  About(content) \cup About(Proposed(request, content))
    \cup (IF request.op = "bootstrap" THEN Accepted ELSE {})

\* Mutant: the log is shared.
LocksShared(request, content) ==
  [keys |-> {TheLog}, excl |-> {}]

\* The identities and the files of some tickets.
TicketKeys(some) == { <<t>> : t \in some } \cup { <<t, tickets[t].at>> : t \in some }

\* A progress mutation locks its log exclusively, the files and identities
\* of the tickets it depends on it shares.
ProgressLocks(request, content) ==
  [ keys |-> {TheLog} \cup TicketKeys(Depends(request, content)), excl |-> {TheLog} ]

\* A ticket that moves locks its identity and both files exclusively.  When
\* the log has entries about it, it shares the log and all that is named there.
MoveLocks(request, content) ==
  LET written == {<<request.ticket>>} \cup { <<request.ticket, place>> : place \in Place }
      logged == {TheLog} \cup TicketKeys(About(content))
  IN  [ keys |-> written \cup (IF request.ticket \in About(content) THEN logged ELSE {}),
        excl |-> written ]

LocksOf(request, content) ==
  IF IsMove(request) THEN MoveLocks(request, content) ELSE ProgressLocks(request, content)

\* Mutant: revisions are kept by identity, not by path.
InputsByIdentity(request, content) ==
  { <<t, tickets[t].rev>> : t \in Depends(request, content) }

\* The revisions a preview keeps of what it depends on.
Inputs(request, content) ==
  { <<<<t, tickets[t].at>>, tickets[t].rev>> : t \in Depends(request, content) }

\* The diagnostics of preparation: operation ids in conflict, an invalid
\* log, entries about tickets that are not accepted.  A bootstrap of a log
\* that exists only reports.
Refused(request, content) ==
  \/ /\ request.op = "append"
     /\ \/ \E i, j \in DOMAIN request.entries :
             i # j /\ request.entries[i].id = request.entries[j].id
        \/ \E e \in Recorded(request.entries), f \in Recorded(content) :
             e.id = f.id /\ e # f
  \/ ~ Sound(Proposed(request, content), Accepted)

NoOp(request, content) == content # Missing /\ Proposed(request, content) = content

-----------------------------------------------------------------------------
\* A client previews a progress request; the preview of a request that is
\* refused carries diagnostics and cannot be applied.
PreviewProgress(c) ==
  /\ At(c, "idle")
  /\ SpendTurn(c)
  /\ \E request \in Request :
       preview' = [preview EXCEPT ![c] =
         IF Refused(request, file.content)
           THEN None
           ELSE [request |-> request, rev |-> file.rev,
                 inputs |-> Inputs(request, file.content),
                 content |-> Proposed(request, file.content),
                 noOp |-> NoOp(request, file.content)]]
  /\ outcome' = [outcome EXCEPT ![c] = "none"]
  /\ UNCHANGED <<file, tickets, clock, pc, task, base, want, held, acknowledged>>

\* An operation starts: the log is read and the dependencies are discovered.
\* A preview is not used up and may be applied again.
Begin(c, request) ==
  /\ At(c, "idle")
  /\ SpendTurn(c)
  /\ task' = [task EXCEPT ![c] = request]
  /\ base' = [base EXCEPT ![c] = file]
  /\ want' = [want EXCEPT ![c] = LocksOf(request, file.content)]
  /\ outcome' = [outcome EXCEPT ![c] = "none"]
  /\ Goto(c, "lock")
  /\ UNCHANGED <<file, tickets, clock, preview, held, acknowledged>>

ApplyProgress(c) ==
  /\ preview[c] # None
  /\ Begin(c, preview[c].request)

MoveTicket(c) ==
  \E request \in MoveTask :
    /\ tickets[request.ticket].at # request.to
    /\ Begin(c, request)

Acquire(c) ==
  /\ At(c, "lock")
  /\ \A d \in Client \ {c} : held[d] =>
       want[c].keys \cap want[d].keys \cap (want[c].excl \cup want[d].excl) = {}
  /\ held' = [held EXCEPT ![c] = TRUE]
  /\ Goto(c, "check")
  /\ UNCHANGED <<file, tickets, clock, task, preview, base, want, outcome, acknowledged, budget>>

\* An operation returns and drops its locks.
Return(c, answer) ==
  /\ outcome' = [outcome EXCEPT ![c] = answer]
  /\ Goto(c, "idle")
  /\ task' = [task EXCEPT ![c] = None]
  /\ base' = [base EXCEPT ![c] = NoFile]
  /\ want' = [want EXCEPT ![c] = NoLocks]
  /\ held' = [held EXCEPT ![c] = FALSE]

\* A progress mutation answers that what was asked for is recorded.
Acknowledge(c) ==
  /\ Return(c, "done")
  /\ acknowledged' =
       IF task[c].op = "bootstrap"
         THEN acknowledged
         ELSE acknowledged \cup Recorded(task[c].entries)

-----------------------------------------------------------------------------
\* Under the locks the dependencies are discovered again and the log must
\* be the one that was read.
Captured(c) ==
  /\ LocksOf(task[c], file.content) = want[c]
  /\ ~ IsMove(task[c]) => file.rev = base[c].rev

OnTarget(c) == file.rev = preview[c].rev

InputsAsPreviewed(c) ==
  \A input \in preview[c].inputs : input \in Inputs(task[c], file.content)

AsPreviewed(c) ==
  /\ ~ Refused(task[c], file.content)
  /\ Proposed(task[c], base[c].content) = preview[c].content
  /\ NoOp(task[c], file.content) = preview[c].noOp

CheckStale(c) ==
  /\ At(c, "check")
  /\ \/ ~ Captured(c)
     \/ /\ ~ IsMove(task[c])
        /\ IF OnTarget(c) THEN ~ InputsAsPreviewed(c) ELSE ~ Completed(task[c], file.content)
  /\ Return(c, "stale")
  /\ UNCHANGED <<file, tickets, clock, preview, acknowledged, budget>>

\* The target is not what was previewed, but says what it should say.
CheckCompleted(c) ==
  /\ At(c, "check")
  /\ ~ IsMove(task[c])
  /\ Captured(c)
  /\ ~ OnTarget(c)
  /\ Completed(task[c], file.content)
  /\ Acknowledge(c)
  /\ UNCHANGED <<file, tickets, clock, preview, budget>>

Passed(c) == Captured(c) /\ OnTarget(c) /\ InputsAsPreviewed(c)

CheckInvalid(c) ==
  /\ At(c, "check")
  /\ IF IsMove(task[c])
       THEN /\ Captured(c)
            /\ task[c].to # "accepted"
            /\ task[c].ticket \in About(file.content)
       ELSE Passed(c) /\ ~ AsPreviewed(c)
  /\ Return(c, "invalid")
  /\ UNCHANGED <<file, tickets, clock, preview, acknowledged, budget>>

CheckNoOp(c) ==
  /\ At(c, "check")
  /\ ~ IsMove(task[c])
  /\ Passed(c) /\ AsPreviewed(c)
  /\ preview[c].noOp
  /\ Acknowledge(c)
  /\ UNCHANGED <<file, tickets, clock, preview, budget>>

CheckPassed(c) ==
  /\ At(c, "check")
  /\ IF IsMove(task[c])
       THEN /\ Captured(c)
            /\ task[c].to = "accepted" \/ task[c].ticket \notin About(file.content)
       ELSE Passed(c) /\ AsPreviewed(c) /\ ~ preview[c].noOp
  /\ Goto(c, "publish")
  /\ UNCHANGED <<file, tickets, clock, task, preview, base, want, held, outcome, acknowledged,
                 budget>>

\* A system call fails before anything is published.
Fails(c) ==
  /\ pc[c] \in {"lock", "check", "publish"}
  /\ SpendFault
  /\ Return(c, "io")
  /\ UNCHANGED <<file, tickets, clock, preview, acknowledged>>

Publish(c) ==
  /\ At(c, "publish")
  /\ ~ IsMove(task[c])
  /\ file' = [content |-> preview[c].content, rev |-> clock]
  /\ clock' = clock + 1
  /\ acknowledged' = IF task[c].op = "replace" THEN {} ELSE acknowledged
  /\ Goto(c, "verify")
  /\ UNCHANGED <<tickets, task, preview, base, want, held, outcome, budget>>

\* The batch that moves a ticket; module Mutation has its parts.
PublishMove(c) ==
  /\ At(c, "publish")
  /\ IsMove(task[c])
  /\ tickets' = [tickets EXCEPT ![task[c].ticket] = [at |-> task[c].to, rev |-> clock]]
  /\ clock' = clock + 1
  /\ Return(c, "done")
  /\ UNCHANGED <<file, preview, acknowledged, budget>>

\* The log is read back and validated once more.
Verify(c) ==
  /\ At(c, "verify")
  /\ Sound(file.content, Accepted)
  /\ Acknowledge(c)
  /\ UNCHANGED <<file, tickets, clock, preview, budget>>

VerifyFails(c) ==
  /\ At(c, "verify")
  /\ IF Sound(file.content, Accepted) THEN SpendFault ELSE UNCHANGED budget
  /\ Goto(c, "rollback")
  /\ UNCHANGED <<file, tickets, clock, task, preview, base, want, held, outcome, acknowledged>>

\* The log that was read is put back; the failure is reported.
Restore(c) ==
  /\ At(c, "rollback")
  /\ file' = IF base[c].content = Missing THEN NoFile ELSE [base[c] EXCEPT !.rev = clock]
  /\ clock' = clock + 1
  /\ Return(c, "io")
  /\ UNCHANGED <<tickets, preview, acknowledged, budget>>

RestoreFails(c) ==
  /\ At(c, "rollback")
  /\ SpendFault
  /\ Return(c, "incomplete")
  /\ UNCHANGED <<file, tickets, clock, preview, acknowledged>>

\* The process dies; its preview may be with its client, who applies again.
Crash(c) ==
  /\ ~ At(c, "idle")
  /\ SpendCrash
  /\ Return(c, "none")
  /\ UNCHANGED <<file, tickets, clock, preview, acknowledged>>

Finished ==
  /\ \A c \in Client : At(c, "idle") /\ budget.turns[c] = 0
  /\ UNCHANGED vars

Next ==
  \/ \E c \in Client :
       \/ PreviewProgress(c) \/ ApplyProgress(c) \/ MoveTicket(c)
       \/ Acquire(c)
       \/ CheckStale(c) \/ CheckCompleted(c) \/ CheckInvalid(c) \/ CheckNoOp(c) \/ CheckPassed(c)
       \/ Fails(c)
       \/ Publish(c) \/ PublishMove(c)
       \/ Verify(c) \/ VerifyFails(c) \/ Restore(c) \/ RestoreFails(c)
       \/ Crash(c)
  \/ Finished

Spec == Init /\ [][Next]_vars

-----------------------------------------------------------------------------
\* Whatever fails or crashes, the log is a valid one, and every entry is
\* about a ticket that is accepted: neither the mutation that appends nor
\* the batch that moves the ticket away may miss the other one.
LogSound == Sound(file.content, Accepted)

\* What was answered as recorded stays recorded, entry for entry, until a
\* replacement takes its place: no writer that started from an older log,
\* rolls back or applies again loses it.
AcknowledgedStays == acknowledged \subseteq Recorded(file.content)

\* A log that is published but not verified has not changed yet.
Unverified == { c \in Client : pc[c] \in {"verify", "rollback"} }

CommittedLog ==
  IF Unverified = {} THEN file.content ELSE base[CHOOSE c \in Unverified : TRUE].content

Ledger == INSTANCE ProgressLedger WITH log <- CommittedLog, accepted <- Accepted

\* Each mutation adds all of its entries at the end of the log in one step,
\* those that are there already only once, or leaves the log as it is.
Atomic == Ledger!Spec
=============================================================================
