----------------------------- MODULE EditSession -----------------------------
(***************************************************************************)
(* Editing a record from the workbench (casefile-cli: tui.rs, edit.rs):    *)
(* the record is copied to a draft beside it, an editor runs on the draft  *)
(* for as long as the user likes, the text is parsed and previewed, the    *)
(* user reviews the difference and applies or cancels.  Meanwhile other    *)
(* planners replace or remove the record.  A command of the process that   *)
(* goes wrong ends it with a message; the user starts another one.         *)
(*                                                                         *)
(* The engine is that of module Mutation: among cooperating writers the    *)
(* check of an application and its publication are one step, and a failure *)
(* after it is undone or reported as an incomplete rollback.               *)
(***************************************************************************)
EXTENDS Naturals

CONSTANTS
  Words,        \* what a record may say
  Absent,       \* no record, no draft
  MaxSessions,  \* bound: drafts
  MaxOthers     \* bound: changes by other planners

VARIABLES
  record,   \* the record: its text and its revision, a new one for every change
  others,   \* changes by others that are left
  number,   \* the number of the session, which is also that of its draft
  at,       \* where the session is
  entry,    \* the record as it was read for the draft of each session
  drafts,   \* the draft file of each session
  saved,    \* what the user saved last in each session and has not given up
  text,     \* what was read from the draft
  preview,  \* the revision the preview expects and the text it proposes
  said,     \* what each session told the user at its end
  written   \* what each session replaced and by what, Absent if nothing

editVars ==
  <<record, others, number, at, entry, drafts, saved, text, preview, said, written>>

\* A text as the user types it, or as render_draft lays it out.
Text == [words : Words, form : {"typed", "rendered"}]

Rendered(t) == [t EXCEPT !.form = "rendered"]

\* A record as it is at one time, and what a session did to it.
Version == [text : Text \cup {Absent}, revision : Nat]

Replacement == [old : Version, new : Text]

\* Absent is none of the values it stands beside.
EditAssumption ==
  /\ MaxSessions \in Nat
  /\ Absent \notin Text \cup Version \cup Replacement

Session == 1 .. MaxSessions

\* The shape of every variable.
TypeOK ==
  /\ record.text \in Text \cup {Absent}
  /\ at \in {"workbench", "editing", "read", "compare", "parse", "preview", "review", "cancel",
             "unchanged", "apply", "clean", "over"}
  /\ number \in 0 .. MaxSessions
  /\ \A s \in Session : {drafts[s], saved[s]} \subseteq Text \cup {Absent}
  /\ text \in Text \cup {Absent}
  /\ \A s \in Session :
       said[s] \in {"nothing", "no_changes", "cancelled", "applied", "unchanged", "incomplete",
                    "cleanup_failed"}

Init ==
  /\ \E t \in Text : record = [text |-> t, revision |-> 0]
  /\ others = MaxOthers
  /\ number = 0
  /\ at = "workbench"
  /\ entry = [s \in Session |-> Absent]
  /\ drafts = [s \in Session |-> Absent]
  /\ saved = [s \in Session |-> Absent]
  /\ text = Absent
  /\ preview = Absent
  /\ said = [s \in Session |-> "nothing"]
  /\ written = [s \in Session |-> Absent]

-----------------------------------------------------------------------------
Goes(from, to) == at = from /\ at' = to

Says(message) == said' = [said EXCEPT ![number] = message]

\* read_editable_entry: the record is there and has been read whole.
Editable == record.text # Absent

\* create_draft, beside the record.
Open ==
  /\ number < MaxSessions
  /\ Editable
  /\ Goes("workbench", "editing")
  /\ number' = number + 1
  /\ entry' = [entry EXCEPT ![number + 1] = record]
  /\ drafts' = [drafts EXCEPT ![number + 1] = record.text]
  /\ UNCHANGED <<record, others, saved, text, preview, said, written>>

\* The user saves the draft, any number of times.
Save(t) ==
  /\ at = "editing"
  /\ t # drafts[number]
  /\ drafts' = [drafts EXCEPT ![number] = t]
  /\ saved' = [saved EXCEPT ![number] = t]
  /\ UNCHANGED <<record, others, number, at, entry, text, preview, said, written>>

\* open_draft returns.
Close ==
  /\ Goes("editing", "read")
  /\ UNCHANGED <<record, others, number, entry, drafts, saved, text, preview, said, written>>

ReadDraft ==
  /\ at = "read"
  /\ text' = drafts[number]
  /\ at' = IF drafts[number] = entry[number].text THEN "unchanged" ELSE "parse"
  /\ UNCHANGED <<record, others, number, entry, drafts, saved, preview, said, written>>

\* parse_draft; what it refuses is an error like any other (Retain).
Parse ==
  /\ Goes("parse", "preview")
  /\ UNCHANGED <<record, others, number, entry, drafts, saved, text, preview, said, written>>

\* Mutant: a change since the draft was made is not noticed.
AnyVersion == TRUE

\* The preview is of the version that was copied to the draft.
SameVersion == record.revision = entry[number].revision

\* Store::preview of the replacement, and the comparison of its target.
MakePreview ==
  /\ Goes("preview", "review")
  /\ record.text # Absent
  /\ SameVersion
  /\ preview' = [expected |-> record.revision, proposed |-> Rendered(text)]
  /\ UNCHANGED <<record, others, number, entry, drafts, saved, text, said, written>>

Decide ==
  /\ \/ Goes("review", "apply") /\ UNCHANGED saved
     \/ Goes("review", "cancel") /\ saved' = [saved EXCEPT ![number] = Absent]
  /\ UNCHANGED <<record, others, number, entry, drafts, text, preview, said, written>>

\* An error before anything was published: the draft is kept.  It may come
\* at any of these steps, of the editor, of a file, of the terminal, of the
\* parser or of the Store, and ends the process.
Retain ==
  /\ at \in {"editing", "read", "parse", "preview", "review", "apply"}
  /\ at' = "over"
  /\ Says("unchanged")
  /\ UNCHANGED <<record, others, number, entry, drafts, saved, text, preview, written>>

\* The Store publishes the proposal.
Publish ==
  /\ at = "apply"
  /\ record.revision = preview.expected
  /\ record' = [text |-> preview.proposed, revision |-> record.revision + 1]
  /\ written' = [written EXCEPT ![number] = [old |-> record, new |-> preview.proposed]]

Apply ==
  /\ Publish
  /\ at' = "clean"
  /\ UNCHANGED <<others, number, entry, drafts, saved, text, preview, said>>

\* Published, not verified and not restored: the report has the details of
\* the rollback and nothing else.
ApplyIncomplete ==
  /\ Publish
  /\ at' = "over"
  /\ Says("incomplete")
  /\ UNCHANGED <<others, number, entry, drafts, saved, text, preview>>

\* discard_draft, after no change, a cancellation or an application; the
\* process goes on with the workbench.
DiscardDraft ==
  /\ at \in {"unchanged", "cancel", "clean"}
  /\ drafts' = [drafts EXCEPT ![number] = Absent]
  /\ \/ /\ at' = "workbench"
        /\ Says(CASE at = "unchanged" -> "no_changes"
                  [] at = "cancel" -> "cancelled"
                  [] at = "clean" -> "applied")
     \/ /\ at' = "over"  \* its directory cannot be removed
        /\ Says(IF at = "clean" THEN "cleanup_failed" ELSE "nothing")
  /\ UNCHANGED <<record, others, number, entry, saved, text, preview, written>>

DiscardFails ==
  /\ at \in {"unchanged", "cancel", "clean"}
  /\ at' = "over"
  /\ Says(IF at = "clean" THEN "cleanup_failed" ELSE "nothing")
  /\ UNCHANGED <<record, others, number, entry, drafts, saved, text, preview, written>>

-----------------------------------------------------------------------------
Dies ==
  /\ at \notin {"workbench", "over"}
  /\ at' = "over"
  /\ UNCHANGED <<record, others, number, entry, drafts, saved, text, preview, said, written>>

\* Another process, with nothing in memory and the retained drafts on disk.
Restart ==
  /\ Goes("over", "workbench")
  /\ text' = Absent
  /\ preview' = Absent
  /\ UNCHANGED <<record, others, number, entry, drafts, saved, said, written>>

OtherWrites(t) ==
  /\ others > 0
  /\ others' = others - 1
  /\ t # record.text
  /\ record' = [text |-> t, revision |-> record.revision + 1]
  /\ UNCHANGED <<number, at, entry, drafts, saved, text, preview, said, written>>

\* The workbench waits for the user, who may quit.
Wait ==
  /\ at = "workbench"
  /\ UNCHANGED editVars

Next ==
  \/ Open \/ Close \/ ReadDraft \/ Parse \/ MakePreview \/ Decide \/ Retain \/ Apply
  \/ ApplyIncomplete \/ DiscardDraft \/ DiscardFails \/ Dies \/ Restart \/ Wait
  \/ \E t \in Text : Save(t)
  \/ \E t \in Text \cup {Absent} : OtherWrites(t)

Spec == Init /\ [][Next]_editVars

-----------------------------------------------------------------------------
\* The work of nobody is lost.  A session replaces the version that it showed
\* the user and no other, by what he saved last; his text is there until he
\* has given it up or it was published; and a message that the canonical files
\* are unchanged is true.  edit.rs:12-140, main.rs:189-220.
EditsAreNotLost ==
  \A s \in Session :
    /\ written[s] # Absent =>
         written[s].old = entry[s] /\ written[s].new = Rendered(saved[s])
    /\ drafts[s] = Absent /\ saved[s] # Absent /\ saved[s] # entry[s].text =>
         written[s] # Absent
    /\ said[s] = "unchanged" => written[s] = Absent
=============================================================================
