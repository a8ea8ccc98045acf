------------------------------ MODULE Rollback ------------------------------
(***************************************************************************)
(* The publication of one transaction and its rollback, one system call    *)
(* after another (mutation_restore.rs, called from writing.rs), among      *)
(* editors that take no lock.  Module Mutation takes a publication and a   *)
(* restoration for one step each; here an editor may come in between any   *)
(* two system calls, rewrite a file in place, save over it by renaming a   *)
(* new file, remove it or create it.                                       *)
(*                                                                         *)
(* A file is the version of a directory entry: its body, its node (device  *)
(* and inode), its revision (every change of a file gives it a new one)    *)
(* and who made it.  The nodes of removed files are used again.            *)
(***************************************************************************)
EXTENDS Integers, Sequences, FiniteSets

CONSTANTS
  Target,       \* the files of the transaction
  Body,         \* file contents
  Gone,         \* the content of a file that does not exist
  Transaction,  \* what may be asked: an order of the targets, bodies before and after
  Node,         \* inode numbers
  NoNode,       \* the node of a file that does not exist
  Unknown,      \* a revision or a version that could not be observed
  MaxEdits,     \* bound: system calls of editors
  MaxFaults     \* bound: system calls of the engine that fail

Content == Body \cup {Gone}

\* The order of a transaction names each of its targets once (apply_batch_values: the targets of a
\* batch must be distinct).
ASSUME RollbackAssumption ==
  /\ Gone \notin Body /\ NoNode \notin Node
  /\ Transaction \subseteq
       [order : Seq(Target), prior : [Target -> Content], written : [Target -> Content]]
  /\ \A t \in Transaction :
       /\ \A i, j \in 1..Len(t.order) : t.order[i] = t.order[j] => i = j
       /\ \A target \in Target : \E i \in 1..Len(t.order) : t.order[i] = target
  /\ Unknown \notin Nat
  /\ MaxEdits \in Nat /\ MaxFaults \in Nat

VARIABLES
  file,        \* the version at each target
  clock,       \* the next revision
  txn,         \* the transaction
  pc,          \* the next system call
  step,        \* the position in the order of the target being published
  temporary,   \* the node of the temporary file
  receipts,    \* the published targets with node and revision, in order
  current,     \* what the rollback found at the target it looks at
  affected,    \* the targets a rollback reports
  outcome,     \* what the transaction returns
  looked,      \* when each target was last read
  identified,  \* when the identity at each target was last checked
  budget       \* what is left of the bounds

vars == <<file, clock, txn, pc, step, temporary, receipts, current, affected, outcome, looked,
          identified, budget>>

-----------------------------------------------------------------------------
Version == [body : Content, node : Node \cup {NoNode}, rev : Nat,
            by : {"store", "engine", "editor"}]

Receipt == [path : Target, node : Node \cup {NoNode}, rev : Nat \cup {Unknown}]

\* The shape of every variable (Receipt and the locals of apply and restore).
TypeOK ==
  /\ file \in [Target -> Version]
  /\ clock \in Nat \ {0}
  /\ txn \in Transaction
  /\ pc \in {"stage", "publish", "stamp", "observe", "look", "identify", "put", "done"}
  /\ step \in Nat \ {0}
  /\ temporary \in Node \cup {NoNode}
  /\ receipts \in Seq(Receipt)
  /\ current \in Version \cup {Unknown}
  /\ affected \in SUBSET Target
  /\ outcome \in {"none", "applied", "stale", "io"}
  /\ looked \in [Target -> Nat]
  /\ identified \in [Target -> Nat]
  /\ budget \in [edits : Nat, faults : Nat]

\* The files are what the engine read and verified last.
Init ==
  /\ txn \in Transaction
  /\ \E node \in [Target -> Node \cup {NoNode}] :
       /\ \A t \in Target : node[t] = NoNode <=> txn.prior[t] = Gone
       /\ \A t, u \in Target : node[t] = node[u] /\ node[t] # NoNode => t = u
       /\ file = [t \in Target |->
                   [body |-> txn.prior[t], node |-> node[t], rev |-> 0, by |-> "store"]]
  /\ clock = 1
  /\ pc = "stage"
  /\ step = 1
  /\ temporary = NoNode
  /\ receipts = <<>>
  /\ current = Unknown
  /\ affected = {}
  /\ outcome = "none"
  /\ looked = [t \in Target |-> 0]
  /\ identified = [t \in Target |-> 0]
  /\ budget = [edits |-> MaxEdits, faults |-> MaxFaults]

-----------------------------------------------------------------------------
Spend(kind) ==
  /\ budget[kind] > 0
  /\ budget' = [budget EXCEPT ![kind] = @ - 1]

\* Nodes of directory entries and of the open temporary file are in use.
FreeNode == Node \ ({ file[t].node : t \in Target } \cup {temporary})

Place(t, body, node, who) ==
  /\ file' = [file EXCEPT ![t] =
       [body |-> body, node |-> IF body = Gone THEN NoNode ELSE node, rev |-> clock, by |-> who]]
  /\ clock' = clock + 1

Here == txn.order[step]

\* Targets whose body does not change are passed over.
Pass ==
  /\ pc = "stage"
  /\ step <= Len(txn.order)
  /\ txn.written[Here] = txn.prior[Here]
  /\ step' = step + 1
  /\ UNCHANGED <<file, clock, txn, pc, temporary, receipts, current, affected, outcome, looked,
                 identified, budget>>

\* The new body goes to a temporary file beside the target, whose identity
\* is noted; a deletion needs none.
Stage ==
  /\ pc = "stage"
  /\ step <= Len(txn.order)
  /\ txn.written[Here] # txn.prior[Here]
  /\ IF txn.written[Here] = Gone THEN temporary' = NoNode ELSE temporary' \in FreeNode
  /\ pc' = "publish"
  /\ UNCHANGED <<file, clock, txn, step, receipts, current, affected, outcome, looked, identified,
                 budget>>

\* Mutant: persist instead of persist_noclobber.
ObstructedDeletion == txn.written[Here] = Gone /\ file[Here].body = Gone

Obstructed ==
  \/ txn.prior[Here] = Gone /\ file[Here].body # Gone
  \/ txn.written[Here] = Gone /\ file[Here].body = Gone

\* persist, persist_noclobber or remove_file.
Publish ==
  /\ pc = "publish"
  /\ ~ Obstructed
  /\ Place(Here, txn.written[Here], temporary, "engine")
  /\ pc' = "stamp"
  /\ UNCHANGED <<txn, step, temporary, receipts, current, affected, outcome, looked, identified,
                 budget>>

\* Mutant: the revision is that of the temporary file, which the rename
\* changes (ctime).
StagedRevision == clock - 2

\* The revision is read through the handle of the published file.  When an
\* editor has replaced the file it is that of an unlinked file, which no
\* file at a path ever has.
HandleRevision ==
  IF file[Here].node = temporary /\ file[Here].body # Gone THEN file[Here].rev ELSE clock

Stamp ==
  /\ pc = "stamp"
  /\ \/ /\ receipts' = Append(receipts, [path |-> Here, node |-> temporary, rev |-> HandleRevision])
        /\ UNCHANGED budget
     \/ /\ txn.written[Here] # Gone
        /\ receipts' = Append(receipts, [path |-> Here, node |-> temporary, rev |-> Unknown])
        /\ Spend("faults")
  /\ clock' = clock + 1
  /\ temporary' = NoNode
  /\ step' = step + 1
  /\ pc' = "stage"
  /\ UNCHANGED <<file, txn, current, affected, outcome, looked, identified>>

Fail(cause) ==
  /\ outcome' = cause
  /\ temporary' = NoNode
  /\ pc' = "look"
  /\ UNCHANGED <<file, clock, txn, step, receipts, current, affected, looked, identified>>

\* Staging or publishing fails, or an editor's file is in the way.
StepFails ==
  \/ /\ pc = "publish"
     /\ Obstructed
     /\ Fail(IF txn.prior[Here] = Gone THEN "stale" ELSE "io")
     /\ UNCHANGED budget
  \/ /\ pc = "publish" \/ (pc = "stage" /\ step <= Len(txn.order))
     /\ Spend("faults")
     /\ Fail("io")

\* The targets are read back for the result.
Observe ==
  /\ pc = "stage"
  /\ step > Len(txn.order)
  /\ \/ /\ outcome' = "applied"
        /\ pc' = "done"
        /\ UNCHANGED <<file, clock, txn, step, temporary, receipts, current, affected, looked,
                       identified, budget>>
     \/ /\ Spend("faults")
        /\ Fail("io")

-----------------------------------------------------------------------------
Last == receipts[Len(receipts)]

Back == Last.path

\* Mutant: what could not be restored is not reported.
LeaveUnreported(reported) ==
  /\ affected' = affected \ reported
  /\ receipts' = SubSeq(receipts, 1, Len(receipts) - 1)
  /\ current' = Unknown
  /\ pc' = "look"

\* The next receipt, or the end.
Leave(reported) ==
  /\ affected' = affected \cup reported
  /\ receipts' = SubSeq(receipts, 1, Len(receipts) - 1)
  /\ current' = Unknown
  /\ pc' = "look"

\* Mutant: equal bytes are taken for the file that was published.
SameBytes == current.body = txn.written[Back]

Mine ==
  \/ current.body = Gone /\ txn.written[Back] = Gone
  \/ /\ current.body = txn.written[Back]
     /\ current.rev = Last.rev

\* Mutant: only the bytes are read.
LookAtBytes ==
  /\ pc = "look"
  /\ receipts # <<>>
  /\ current' = file[Back].body
  /\ looked' = [looked EXCEPT ![Back] = clock]
  /\ clock' = clock + 1
  /\ pc' = "identify"
  /\ UNCHANGED <<file, txn, step, temporary, receipts, affected, outcome, identified, budget>>

\* read_entry: bytes and revision belong together, or it fails.
Look ==
  /\ pc = "look"
  /\ receipts # <<>>
  /\ current' = file[Back]
  /\ looked' = [looked EXCEPT ![Back] = clock]
  /\ clock' = clock + 1
  /\ pc' = "identify"
  /\ UNCHANGED <<file, txn, step, temporary, receipts, affected, outcome, identified, budget>>

LookFails ==
  /\ pc = "look"
  /\ receipts # <<>>
  /\ Spend("faults")
  /\ Leave({Back})
  /\ UNCHANGED <<file, clock, txn, step, temporary, outcome, looked, identified>>

\* filesystem_identity names what is at the path now.
Identify ==
  /\ pc = "identify"
  /\ Mine
  /\ current.body # Gone => file[Back].node = Last.node
  /\ identified' = [identified EXCEPT ![Back] = clock]
  /\ clock' = clock + 1
  /\ pc' = "put"
  /\ UNCHANGED <<file, txn, step, temporary, receipts, current, affected, outcome, looked, budget>>

Spare ==
  /\ pc = "identify"
  /\ \/ ~ Mine
     \/ current.body # Gone /\ file[Back].node # Last.node
  /\ Leave({Back})
  /\ UNCHANGED <<file, clock, txn, step, temporary, outcome, looked, identified, budget>>

InTheWay ==
  \/ current.body = Gone /\ file[Back].body # Gone
  \/ txn.prior[Back] = Gone /\ file[Back].body = Gone

Put ==
  /\ pc = "put"
  /\ ~ InTheWay
  /\ IF txn.prior[Back] = Gone
       THEN Place(Back, Gone, NoNode, "engine")
       ELSE \E node \in FreeNode : Place(Back, txn.prior[Back], node, "engine")
  /\ Leave({})
  /\ UNCHANGED <<txn, step, temporary, outcome, looked, identified, budget>>

PutFails ==
  /\ pc = "put"
  /\ InTheWay \/ budget.faults > 0
  /\ budget' = IF InTheWay THEN budget ELSE [budget EXCEPT !.faults = @ - 1]
  /\ Leave({Back})
  /\ UNCHANGED <<file, clock, txn, step, temporary, outcome, looked, identified>>

Finish ==
  /\ pc = "look"
  /\ receipts = <<>>
  /\ pc' = "done"
  /\ UNCHANGED <<file, clock, txn, step, temporary, receipts, current, affected, outcome, looked,
                 identified, budget>>

Engine ==
  \/ Pass \/ Stage \/ Publish \/ Stamp \/ StepFails \/ Observe
  \/ Look \/ LookFails \/ Identify \/ Spare \/ Put \/ PutFails \/ Finish

-----------------------------------------------------------------------------
\* One system call of an editor: a write in place, an atomic save, the
\* creation or the removal of a file.
Edit ==
  /\ pc # "done"
  /\ Spend("edits")
  /\ \E t \in Target, body \in Content :
       \/ /\ body # Gone /\ file[t].body # Gone
          /\ Place(t, body, file[t].node, "editor")
       \/ /\ body # Gone
          /\ \E node \in FreeNode : Place(t, body, node, "editor")
       \/ /\ body = Gone /\ file[t].body # Gone
          /\ Place(t, Gone, NoNode, "editor")
  /\ UNCHANGED <<txn, pc, step, temporary, receipts, current, affected, outcome, looked,
                 identified>>

Done ==
  /\ pc = "done"
  /\ UNCHANGED vars

Next == Engine \/ Edit \/ Done

Spec == Init /\ [][Next]_vars

-----------------------------------------------------------------------------
\* The engine writes over what an editor made only if it was made after the
\* engine last looked: a rewrite in place after the file was read, a save
\* by renaming or a removal after the identity at the path was checked.  (The
\* comment in restore: a last-syscall race is not a CAS guarantee.)  The one
\* exception is a rewrite in place with the very bytes that were published,
\* before their revision was read: it passes for the publication.  A file that
\* appeared where the engine found none is never written over, not even at
\* the last moment: not by a creation and not by a rollback that puts a
\* deleted file back.
RewrittenInPlace(t) ==
  \E i \in DOMAIN receipts :
    /\ receipts[i].path = t
    /\ receipts[i].node = file[t].node /\ file[t].node # NoNode
    /\ receipts[i].rev # file[t].rev

SavedElsewhere(t) ==
  \A i \in DOMAIN receipts : receipts[i].path = t => receipts[i].node # file[t].node

EditsSurvive ==
  [][\A t \in Target :
       file[t].by = "editor" /\ file'[t] # file[t] /\ file'[t].by = "engine" =>
         /\ RewrittenInPlace(t) => file[t].rev >= looked[t]
         /\ SavedElsewhere(t) => file[t].rev >= identified[t]
         /\ file[t].body # Gone =>
              IF pc = "publish" THEN txn.prior[t] # Gone ELSE txn.written[t] # Gone]_vars

Changed == { t \in Target : txn.written[t] # txn.prior[t] }

Undisturbed(t) == file[t].by # "editor"

\* When the transaction returns, every target that no editor was at last has
\* its new body after a success and its old one after a failure that is not
\* reported as incomplete; what a failure leaves behind is reported, path by
\* path, and a target that was to stay as it is was never written.  Without
\* editors a rollback that loses no further system call is complete.
NothingHalfDoneUnreported ==
  /\ pc = "done" =>
       \A t \in Target \ affected : Undisturbed(t) =>
         file[t].body = IF outcome = "applied" THEN txn.written[t] ELSE txn.prior[t]
  /\ affected \subseteq Changed
  /\ \A t \in Target \ Changed : file[t].by # "engine"
  /\ pc = "done" /\ budget.edits = MaxEdits /\ budget.faults >= MaxFaults - 1 => affected = {}
=============================================================================
