------------------------------ MODULE McpSession ------------------------------
(***************************************************************************)
(* One MCP session over standard input and output: the input thread, the   *)
(* main loop behind a rendezvous channel, the pool of tool workers behind  *)
(* a queue, and the vault of retained previews the workers share.  Of the  *)
(* Store there is the revision of each file: what a mutation does inside   *)
(* it is the business of Mutation, which applies a preview in one step, on *)
(* the revisions it was made on, or not at all.  A revision is never that  *)
(* of another file or an earlier time (it is a digest of the file's        *)
(* identity, length and times); only a file that is not there has none,    *)
(* and is as absent each time it is deleted.                               *)
(***************************************************************************)
EXTENDS Naturals, Sequences, FiniteSets, SequencesExt

CONSTANTS
  Worker,       \* the tool workers (TOOL_WORKERS of them)
  Kind,         \* the kinds of preview that one tool makes and another applies
  RecordKind,   \* the kind whose tool looks the preview up twice
  Path,         \* the files of the Store
  Initial,      \* those that are there at first
  Request,      \* what a client may ask a preview of
  PreviewLimit, \* how many previews the vault retains
  MaxMessages,  \* bound: messages a client sends
  Others,       \* bound: what others write and delete at once
  MaxMishaps    \* bound: panics, broken outputs and what others do, together

Change == {"create", "replace", "delete", "put"}

\* What a preview changes, file by file, and the revisions it was made on.
Changes == UNION {[S -> Change] : S \in SUBSET Path}
Revisions == UNION {[S -> Nat] : S \in SUBSET Path}

\* A request reads what it changes, and what the validation of that depends on.
ASSUME SessionAssumption ==
  /\ Worker # {} /\ RecordKind \in Kind /\ PreviewLimit \in Nat \ {0} /\ Initial \subseteq Path
  /\ Others \subseteq [written : SUBSET Path, deleted : SUBSET Path]
  /\ Request \subseteq [kind : Kind, changes : Changes, reads : SUBSET Path]
  /\ \A r \in Request : DOMAIN r.changes \subseteq r.reads

VARIABLES
  asked,       \* the messages read so far, in order: a request is named by its place
  reader,      \* the input thread: where it is, and the event it hands over
  main,        \* the main loop: where it is, and the request it answers itself
  initialized, \* Session.initialized
  stopped,     \* the flag every thread sees
  queue,       \* tool calls admitted and not yet taken
  worker,      \* each worker: where it is, its call, the preview it made or holds, how it went
  issued,      \* every preview made so far: the id is the place (PreviewVault.next)
  vault,       \* PreviewVault: order, and the ids of values
  store,       \* the revision of each file
  effects,     \* history: every change of files, what it wrote and deleted, and what made it
  answers,     \* how often each request was answered on the output
  shown,       \* the preview ids an answer has told the client
  pipe,        \* the output: open, or broken
  fatal,       \* the first output failure of a worker was recorded
  result       \* what the input loop returned, then what the session returned

inputVars == <<asked, reader>>
toolVars == <<worker, issued, vault, store, effects>>
outputVars == <<answers, shown, pipe>>
vars == <<asked, reader, main, initialized, stopped, queue, worker, issued, vault, store, effects,
          answers, shown, pipe, fatal, result>>

\* Messages the main loop deals with itself: "other" is what it only answers, be it a ping, a
\* list of tools, an unknown method or no message at all.
Other == {"initialize", "notification", "other"}
Tool == {"preview", "apply"}

Message == [what : Other] \cup [what : {"preview"}, request : Request]
             \cup [what : {"apply"}, kind : Kind, id : Nat]

\* An id no vault gave out, and the tool of whoever changes files without a preview.
Unknown == 0
Nobody == "nobody"

\* The revision of a file that is not there.
Absent == 0

Preview ==
  {p \in [kind : Kind, changes : Changes, expected : Revisions] :
     DOMAIN p.changes \subseteq DOMAIN p.expected}

Effect ==
  [id : Nat, tool : Kind \cup {Nobody}, written : SUBSET Path, deleted : SUBSET Path]

IsToolCall(m) == m.what \in Tool

Open == pipe = "open"

\* The files that were there at first are what somebody wrote before.
Mishaps ==
  Cardinality({w \in Worker : worker[w].at = "panicked"}) + (IF Open THEN 0 ELSE 1)
    + Cardinality({i \in 2 .. Len(effects) : effects[i].id = Unknown})

\* A write fails: the client has closed its end of the output, for good.  That it did so earlier
\* makes no difference to anyone.
WriteFails ==
  /\ Open => Mishaps < MaxMishaps
  /\ pipe' = "broken"

\* Where a worker may be, how a call may have gone, and what a worker has in hand.
Place ==
  {"take", "tool", "remember", "get", "commit", "answer", "fail", "gone", "panicked"}

Outcome == {"none", "made", "missing", "other kind", "applied", "failed"}

Hand == [at : Place, call : Nat, made : Preview, preview : Nat, outcome : Outcome]

NoPreview ==
  [kind |-> RecordKind, changes |-> [f \in {} |-> "put"], expected |-> [f \in {} |-> Absent]]

Idle == [at |-> "take", call |-> 0, made |-> NoPreview, preview |-> 0, outcome |-> "none"]

\* The types, but for the flags.
InputOK ==
  /\ asked \in Seq(Message)
  /\ reader \in [at : {"read", "send", "gone"}, event : {"none", "request", "finished", "failed"}]
  /\ main \in [at : {"receive", "answer", "stop", "hang up", "join", "done"}, call : Nat]
  /\ result \in {"none", "ok", "error"}

ToolsOK ==
  /\ queue \in Seq(Nat)
  /\ worker \in [Worker -> Hand]
  /\ issued \in Seq(Preview)
  /\ vault \in [order : Seq(Nat), ids : SUBSET Nat]
  /\ store \in [Path -> Nat]
  /\ effects \in Seq(Effect)

OutputOK ==
  /\ answers \in Seq(Nat) /\ Len(answers) = Len(asked)
  /\ shown \subseteq Nat
  /\ pipe \in {"open", "broken"}

TypeOK == InputOK /\ ToolsOK /\ OutputOK

\* Session::new and run_with_input up to its threads.
Init ==
  /\ asked = <<>>
  /\ reader = [at |-> "read", event |-> "none"]
  /\ main = [at |-> "receive", call |-> 0]
  /\ initialized = FALSE
  /\ stopped = FALSE
  /\ queue = <<>>
  /\ worker = [w \in Worker |-> Idle]
  /\ issued = <<>>
  /\ vault = [order |-> <<>>, ids |-> {}]
  /\ store = [f \in Path |-> IF f \in Initial THEN 1 ELSE Absent]
  /\ effects = <<[id |-> Unknown, tool |-> Nobody, written |-> Initial, deleted |-> {}]>>
  /\ answers = <<>>
  /\ shown = {}
  /\ pipe = "open"
  /\ fatal = FALSE
  /\ result = "none"

-----------------------------------------------------------------------------
(* The input thread. *)

\* The loop of read_session_input ends when it sees the flag; until it looks again it reads on.
ReaderStops ==
  /\ reader.at = "read"
  /\ stopped
  /\ reader' = [reader EXCEPT !.at = "gone"]
  /\ UNCHANGED <<asked, main, initialized, stopped, queue, toolVars, outputVars, fatal, result>>

\* What a client may send next: it applies only an id it was told, or one it made up.
Sendable ==
  [what : Other] \cup [what : {"preview"}, request : Request]
    \cup [what : {"apply"}, kind : Kind, id : shown \cup {Unknown}]

\* read_frame returned a whole frame.
ReadsFrame ==
  /\ reader.at = "read"
  /\ Len(asked) < MaxMessages
  /\ \E m \in Sendable : asked' = Append(asked, m)
  /\ answers' = Append(answers, 0)
  /\ reader' = [at |-> "send", event |-> "request"]
  /\ UNCHANGED <<main, initialized, stopped, queue, toolVars, shown, pipe, fatal, result>>

\* read_frame saw the end of the input, or failed: half a frame, a frame too long, a read error.
ReadsEnd ==
  /\ reader.at = "read"
  /\ \E event \in {"finished", "failed"} : reader' = [at |-> "send", event |-> event]
  /\ UNCHANGED <<asked, main, initialized, stopped, queue, toolVars, outputVars, fatal, result>>

\* Mutant: the receiver lives as long as the session.
NeverHungUp == main.at = "done"

\* The receiver is dropped before the main loop joins: whoever is about to send gives up.
HungUp == main.at \in {"join", "done"}

ReaderUnheard ==
  /\ reader.at = "send"
  /\ HungUp
  /\ reader' = [reader EXCEPT !.at = "gone"]
  /\ UNCHANGED <<asked, main, initialized, stopped, queue, toolVars, outputVars, fatal, result>>

-----------------------------------------------------------------------------
(* The main loop. *)

\* The reader goes on after a request, and ends with the input.
Received(at) == [reader EXCEPT !.at = at]

\* A request arrives once a worker's output has failed: it is let go.
ReceivesTooLate ==
  /\ main.at = "receive" /\ reader.at = "send" /\ reader.event = "request"
  /\ stopped
  /\ reader' = Received("read")
  /\ UNCHANGED <<asked, main, initialized, stopped, queue, toolVars, outputVars, fatal, result>>

\* Tool calls wait for a worker once the session is initialized.
Queued(m) == initialized /\ IsToolCall(m)

ReceivesCall ==
  /\ main.at = "receive" /\ reader.at = "send" /\ reader.event = "request"
  /\ ~stopped
  /\ Queued(Last(asked))
  /\ queue' = Append(queue, Len(asked))
  /\ reader' = Received("read")
  /\ UNCHANGED <<asked, main, initialized, stopped, toolVars, outputVars, fatal, result>>

\* Everything else the loop answers itself (handle, initialize): a notification not at all.
ReceivesOther ==
  /\ main.at = "receive" /\ reader.at = "send" /\ reader.event = "request"
  /\ ~stopped
  /\ ~Queued(Last(asked))
  /\ LET m == Last(asked) IN
     /\ initialized' = (initialized \/ m.what = "initialize")
     /\ main' = IF m.what = "notification" THEN main ELSE [at |-> "answer", call |-> Len(asked)]
  /\ reader' = Received("read")
  /\ UNCHANGED <<asked, stopped, queue, toolVars, outputVars, fatal, result>>

\* InputFinished: the loop returns what the reader says of the input.
ReceivesEnd ==
  /\ main.at = "receive" /\ reader.at = "send" /\ reader.event \in {"finished", "failed"}
  /\ result' = IF reader.event = "finished" THEN "ok" ELSE "error"
  /\ main' = [main EXCEPT !.at = "stop"]
  /\ reader' = Received("gone")
  /\ UNCHANGED <<asked, initialized, stopped, queue, toolVars, outputVars, fatal>>

\* WorkerFailed: the loop returns, and the recorded failure speaks for it.
ReceivesFailure(w) ==
  /\ main.at = "receive" /\ worker[w].at = "fail"
  /\ result' = "ok"
  /\ main' = [main EXCEPT !.at = "stop"]
  /\ worker' = [worker EXCEPT ![w].at = "gone"]
  /\ UNCHANGED <<inputVars, initialized, stopped, queue, issued, vault, store, effects, outputVars,
                 fatal>>

\* write_message for an answer of the loop's own.
MainAnswers ==
  /\ main.at = "answer"
  /\ Open
  /\ answers' = [answers EXCEPT ![main.call] = @ + 1]
  /\ main' = [at |-> "receive", call |-> 0]
  /\ UNCHANGED <<inputVars, initialized, stopped, queue, toolVars, shown, pipe, fatal, result>>

\* A failure ends the loop.
MainFails ==
  /\ main.at = "answer"
  /\ WriteFails
  /\ result' = "error"
  /\ main' = [main EXCEPT !.at = "stop"]
  /\ UNCHANGED <<inputVars, initialized, stopped, queue, toolVars, answers, shown, fatal>>

Stops ==
  /\ main.at = "stop"
  /\ stopped' = TRUE
  /\ main' = [main EXCEPT !.at = "hang up"]
  /\ UNCHANGED <<inputVars, initialized, queue, toolVars, outputVars, fatal, result>>

\* Mutant: the queued calls are dropped with the sender.
DroppedQueue == <<>>

\* What the workers still find once both channels are dropped: the queue stays theirs.
Drained == queue

\* drop(incoming), drop(sender).
HangsUp ==
  /\ main.at = "hang up"
  /\ main' = [main EXCEPT !.at = "join"]
  /\ queue' = Drained
  /\ UNCHANGED <<inputVars, initialized, stopped, toolVars, outputVars, fatal, result>>

\* Mutant: the session ends with its input, its workers detached.
NeverJoined == TRUE

Joinable == \A w \in Worker : worker[w].at \in {"gone", "panicked"}

\* Mutant: a join that fails is let pass.
VerdictOfLoop == IF fatal THEN "error" ELSE result

\* A worker's recorded failure, a panic, or else what the loop returned.
Verdict ==
  IF fatal \/ \E w \in Worker : worker[w].at = "panicked" THEN "error" ELSE result

Joins ==
  /\ main.at = "join"
  /\ Joinable
  /\ result' = Verdict
  /\ main' = [main EXCEPT !.at = "done"]
  /\ UNCHANGED <<inputVars, initialized, stopped, queue, toolVars, outputVars, fatal>>

-----------------------------------------------------------------------------
(* The preview vault. *)

\* Mutant: the oldest leave the order, and stay in the map.
RememberedLeaky(id) ==
  LET order == Append(vault.order, id)
      over == IF Len(order) > PreviewLimit THEN Len(order) - PreviewLimit ELSE 0
  IN  [order |-> SubSeq(order, over + 1, Len(order)), ids |-> vault.ids \cup {id}]

\* Mutant: room is made for one more than is coming.
RememberedTight(id) ==
  LET order == Append(vault.order, id)
      over == IF Len(order) >= PreviewLimit THEN Len(order) - PreviewLimit + 1 ELSE 0
      kept == SubSeq(order, over + 1, Len(order))
  IN  [order |-> kept, ids |-> Range(kept)]

\* remember: the new id goes last, and the oldest make room.
Remembered(id) ==
  LET order == Append(vault.order, id)
      over == IF Len(order) > PreviewLimit THEN Len(order) - PreviewLimit ELSE 0
      kept == SubSeq(order, over + 1, Len(order))
  IN  [order |-> kept, ids |-> Range(kept)]

Retained(id) == id \in vault.ids

-----------------------------------------------------------------------------
(* The tool workers. *)

Call(w) == asked[worker[w].call]

Goes(w, at) == worker' = [worker EXCEPT ![w].at = at]

Ends(w, outcome) == worker' = [worker EXCEPT ![w].at = "answer", ![w].outcome = outcome]

Takes(w) ==
  /\ worker[w].at = "take"
  /\ queue # <<>>
  /\ worker' = [worker EXCEPT ![w] = [Idle EXCEPT !.at = "tool", !.call = Head(queue)]]
  /\ queue' = Tail(queue)
  /\ UNCHANGED <<inputVars, main, initialized, stopped, issued, vault, store, effects, outputVars,
                 fatal, result>>

\* recv fails only when the queue is empty and its sender is gone.
Leaves(w) ==
  /\ worker[w].at = "take"
  /\ queue = <<>> /\ HungUp
  /\ Goes(w, "gone")
  /\ UNCHANGED <<inputVars, main, initialized, stopped, queue, issued, vault, store, effects,
                 outputVars, fatal, result>>

\* A preview tool: the files are read without the vault, and the preview made on what was read.
MadeOf(request) ==
  [kind |-> request.kind, changes |-> request.changes,
   expected |-> [f \in request.reads |-> store[f]]]

Previews(w) ==
  /\ worker[w].at = "tool" /\ Call(w).what = "preview"
  /\ worker' = [worker EXCEPT ![w].at = "remember", ![w].made = MadeOf(Call(w).request)]
  /\ UNCHANGED <<inputVars, main, initialized, stopped, queue, issued, vault, store, effects,
                 outputVars, fatal, result>>

Remembers(w) ==
  /\ worker[w].at = "remember"
  /\ issued' = Append(issued, worker[w].made)
  /\ vault' = Remembered(Len(issued) + 1)
  /\ worker' = [worker EXCEPT ![w].at = "answer", ![w].preview = Len(issued) + 1,
                              ![w].outcome = "made"]
  /\ UNCHANGED <<inputVars, main, initialized, stopped, queue, store, effects, outputVars, fatal,
                 result>>

\* casefile_apply_record asks the vault for the kind first, and lets go of it again.
AsksKind(w) ==
  /\ worker[w].at = "tool" /\ Call(w).what = "apply" /\ Call(w).kind = RecordKind
  /\ IF ~Retained(Call(w).id) THEN Ends(w, "missing")
     ELSE IF issued[Call(w).id].kind # RecordKind THEN Ends(w, "other kind")
     ELSE Goes(w, "get")
  /\ UNCHANGED <<inputVars, main, initialized, stopped, queue, issued, vault, store, effects,
                 outputVars, fatal, result>>

\* Mutant: any preview is applied.
AnyKindFits(w) == TRUE

\* The kind a preview must have for the tool that applies it.
KindFits(w) == issued[Call(w).id].kind = Call(w).kind

\* retained: the worker keeps the preview it found, whatever the vault does next.
Gets(w) ==
  /\ \/ worker[w].at = "get"
     \/ worker[w].at = "tool" /\ Call(w).what = "apply" /\ Call(w).kind # RecordKind
  /\ IF ~Retained(Call(w).id) THEN Ends(w, "missing")
     ELSE IF ~KindFits(w) THEN Ends(w, "other kind")
     ELSE worker' = [worker EXCEPT ![w].at = "commit", ![w].preview = Call(w).id]
  /\ UNCHANGED <<inputVars, main, initialized, stopped, queue, issued, vault, store, effects,
                 outputVars, fatal, result>>

\* Mutant: it is enough that what was there is there, and what was not is not.
StillThere(p) == \A f \in DOMAIN p.expected : store[f] = Absent <=> p.expected[f] = Absent

\* Every file the preview was made on has the revision it had then, or none as it had none then.
StillCurrent(p) == \A f \in DOMAIN p.expected : store[f] = p.expected[f]

\* A preview whose target was there, or was not, against its request has diagnostics, and so
\* cannot be applied; it is retained like any other.
Sound(p) ==
  \A f \in DOMAIN p.changes :
    /\ p.changes[f] = "create" => p.expected[f] = Absent
    /\ p.changes[f] \in {"replace", "delete"} => p.expected[f] # Absent

Deletes(p) == {f \in DOMAIN p.changes : p.changes[f] = "delete"}

\* What is written is all that was not there, and of the rest what its proposal is not already.
MayWrite(p) ==
  {written \in SUBSET (DOMAIN p.changes \ Deletes(p)) :
     \A f \in DOMAIN p.changes \ Deletes(p) : p.expected[f] = Absent => f \in written}

\* A file that is written has a revision nothing had before.
Changed(id, tool, written, deleted) ==
  /\ effects' =
       Append(effects, [id |-> id, tool |-> tool, written |-> written, deleted |-> deleted])
  /\ store' = [f \in Path |-> IF f \in written THEN Len(effects) + 1
                             ELSE IF f \in deleted THEN Absent ELSE store[f]]

\* apply_ref and the like, one step of the store.
Commits(w) ==
  /\ worker[w].at = "commit"
  /\ LET p == issued[worker[w].preview] IN
     /\ Sound(p) /\ StillCurrent(p)
     /\ \E written \in MayWrite(p) :
          Changed(worker[w].preview, Call(w).kind, written, Deletes(p))
  /\ Ends(w, "applied")
  /\ UNCHANGED <<inputVars, main, initialized, stopped, queue, issued, vault, outputVars, fatal,
                 result>>

\* A stale preview of progress whose entries are all in the log by now is as good as applied.
Settles(w) ==
  /\ worker[w].at = "commit" /\ Call(w).kind # RecordKind
  /\ ~ StillCurrent(issued[worker[w].preview])
  /\ Ends(w, "applied")
  /\ UNCHANGED <<inputVars, main, initialized, stopped, queue, issued, vault, store, effects,
                 outputVars, fatal, result>>

\* An application fails: the preview is stale or has diagnostics, the Store is not active, a file
\* cannot be read or written.  (A preview that cannot be made at all is left out: it is answered,
\* and nothing is retained.)
CallFails(w) ==
  /\ worker[w].at = "commit"
  /\ Ends(w, "failed")
  /\ UNCHANGED <<inputVars, main, initialized, stopped, queue, issued, vault, store, effects,
                 outputVars, fatal, result>>

Panics(w) ==
  /\ worker[w].at \in {"tool", "commit"}
  /\ Mishaps < MaxMishaps
  /\ Goes(w, "panicked")
  /\ UNCHANGED <<inputVars, main, initialized, stopped, queue, issued, vault, store, effects,
                 outputVars, fatal, result>>

\* The worker writes its answer under the lock of the output and goes for the next call.
Answers(w) ==
  /\ worker[w].at = "answer"
  /\ Open
  /\ answers' = [answers EXCEPT ![worker[w].call] = @ + 1]
  /\ shown' = IF worker[w].outcome = "made" THEN shown \cup {worker[w].preview} ELSE shown
  /\ worker' = [worker EXCEPT ![w] = Idle]
  /\ UNCHANGED <<inputVars, main, initialized, stopped, queue, issued, vault, store, effects, pipe,
                 fatal, result>>

\* The write failed: the first failure is kept, and the loop is told.
AnswerFails(w) ==
  /\ worker[w].at = "answer"
  /\ WriteFails
  /\ fatal' = TRUE
  /\ stopped' = TRUE
  /\ Goes(w, "fail")
  /\ UNCHANGED <<inputVars, main, initialized, queue, issued, vault, store, effects, answers, shown,
                 result>>

\* Nobody receives any more: the failing worker ends all the same.
FailsUnheard(w) ==
  /\ worker[w].at = "fail"
  /\ HungUp
  /\ Goes(w, "gone")
  /\ UNCHANGED <<inputVars, main, initialized, stopped, queue, issued, vault, store, effects,
                 outputVars, fatal, result>>

-----------------------------------------------------------------------------
(* Whoever else works on the files: an editor, another session, the command line. *)

Meddles ==
  /\ Mishaps < MaxMishaps
  /\ \E other \in Others :
       /\ \A f \in other.deleted : store[f] # Absent
       /\ Changed(Unknown, Nobody, other.written, other.deleted)
  /\ UNCHANGED <<inputVars, main, initialized, stopped, queue, worker, issued, vault, outputVars,
                 fatal, result>>

-----------------------------------------------------------------------------
(* The whole. *)

Finished ==
  /\ main.at = "done"
  /\ UNCHANGED vars

ReaderNext == ReaderStops \/ ReadsFrame \/ ReadsEnd \/ ReaderUnheard

MainNext ==
  \/ ReceivesTooLate \/ ReceivesCall \/ ReceivesOther \/ ReceivesEnd
  \/ \E w \in Worker : ReceivesFailure(w)
  \/ MainAnswers \/ MainFails \/ Stops \/ HangsUp \/ Joins

WorkerNext(w) ==
  \/ Takes(w) \/ Leaves(w) \/ Previews(w) \/ Remembers(w) \/ AsksKind(w) \/ Gets(w) \/ Commits(w)
  \/ Settles(w) \/ CallFails(w) \/ Panics(w) \/ Answers(w) \/ AnswerFails(w) \/ FailsUnheard(w)

Next == ReaderNext \/ MainNext \/ (\E w \in Worker : WorkerNext(w)) \/ Meddles \/ Finished

Spec == Init /\ [][Next]_vars

\* Threads are scheduled; the client owes nothing, not even the end of its input, so nothing is
\* asked of the thread that waits for it.
Fairness ==
  /\ WF_vars(MainNext)
  /\ \A w \in Worker : WF_vars(WorkerNext(w))

FairSpec == Spec /\ Fairness

-----------------------------------------------------------------------------
(* Properties. *)

\* No request is ever answered twice, a notification not at all, and a session that ends well has
\* answered every request it read (run_with_input, read_session_input): nothing is left in the
\* queue, lost with a worker, or read and let go.
CleanEndAnswersAll ==
  /\ \A i \in DOMAIN asked : answers[i] <= (IF asked[i].what = "notification" THEN 0 ELSE 1)
  /\ (main.at = "done" /\ result = "ok") =>
       \A i \in DOMAIN asked : asked[i].what # "notification" => answers[i] = 1

\* A preview is never used up (PreviewVault::get hands the same one to two workers at once, and
\* again after it was applied), but it changes a file a second time only if it found the file
\* absent, and somebody has deleted the file since it first changed it: what is there is never
\* overwritten or deleted twice on one approval.  Only the tool of its own kind applies it.
TakesEffectOnce ==
  /\ \A i, j \in DOMAIN effects :
       (i < j /\ effects[i].id = effects[j].id /\ effects[i].id # Unknown) =>
         \A f \in effects[i].written \cup effects[i].deleted :
           /\ issued[effects[i].id].expected[f] = Absent
           /\ \E k \in i + 1 .. j - 1 : f \in effects[k].deleted
  /\ \A i \in DOMAIN effects :
       effects[i].id # Unknown => issued[effects[i].id].kind = effects[i].tool

\* A client that is told its preview is not there made it up, or has seen PreviewLimit newer ones
\* made since (PreviewVault::remember).
RefusedOnlyIfEvicted ==
  \A w \in Worker :
    (worker[w].outcome = "missing" /\ Call(w).id # Unknown) =>
      Call(w).id + PreviewLimit <= Len(issued)

\* Once the input has ended, or a worker could not write its answer, the session ends: no thread
\* waits for another that is waiting for it (run_with_input drops its ends before it joins).
SessionEnds ==
  (reader.event \in {"finished", "failed"} \/ fatal) ~> (main.at = "done")
=============================================================================
