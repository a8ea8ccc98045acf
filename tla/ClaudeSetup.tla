------------------------------ MODULE ClaudeSetup ------------------------------
(***************************************************************************)
(* The set-up script of the Claude Code adapter (setup-claude.py): it      *)
(* copies the packaged executable into the user's configuration directory, *)
(* registers it with the host as an MCP server, raises the host's depth of *)
(* nested agents and keeps a receipt of what it found, so that a failed    *)
(* command can be undone and the integration can be removed.               *)
(*                                                                         *)
(* Every call that changes a file or asks the host to change one is a step *)
(* of its own; any of them may fail, the process may die between two, and  *)
(* the user may change the same settings meanwhile.  Parsing of the host's *)
(* answers and the probe of the executable are outcomes.  The script asks  *)
(* the host which server is registered, and takes a question that fails    *)
(* for the answer that there is none: it looks, and is blind.              *)
(***************************************************************************)
EXTENDS Naturals, Sequences

CONSTANTS
    Version,      \* versions of the plugin package
    Root,         \* planning roots the server can be bound to
    DepthOf,      \* the deepest nesting the matrices of a version declare
    UserDepth,    \* what a user may have set the depth to, None among them
    Foreign,      \* an MCP server of that name that the script did not add
    None,
    MaxCommands,  \* bound: commands
    MaxMishaps    \* bound: failing calls, crashes and changes by the user

(* What the settings may say of the depth: nothing (None), a string that   *)
(* is a number as Python prints it, one that Python reads as a number and  *)
(* prints otherwise, a JSON number, or a string that is no number.         *)
Depth == {None} \cup [type : {"decimal", "padded", "number", "word"}, value : Nat]

Decimal(n) == [type |-> "decimal", value |-> n]

(* None and a decimal are what the script writes, and writes back as it    *)
(* was.                                                                    *)
Plain(d) == d = None \/ d.type = "decimal"

(* What the users of the module owe it. *)
ClaudeAssumption == UserDepth \subseteq Depth /\ DepthOf \in [Version -> Nat]

Entry == [version : Version, root : Root]

Receipt == [version : Version, root : Root, owned : SUBSET Version, before : Depth]

VARIABLES
    home,      \* what the commands change: executables, server, depth, receipt in force
    receipts,  \* receipts written so far; home.pointer is an index, 0 for none
    job,       \* the command that runs: where it is, its plan and what it remembers
    outcome,   \* how the last command ended
    history,   \* home before the first command (original) and when the last one began
               \* (start), the version that installs (target), whether only commands
               \* that vouch for their outcome changed it since (clean, quiet), and
               \* whether a blind installation passed over a server (overlooked)
    budget     \* commands and mishaps left

claudeVars == <<home, receipts, job, outcome, history, budget>>

Outcomes == {"none", "installed", "uninstalled", "undone", "unverified", "broken", "dead"}

InstallSteps ==
    {"begin", "copy", "probe", "register", "remove", "add", "check", "readDepth", "writeDepth",
     "receipt", "point"}
UndoSteps == {"undoDepth", "undoConfig", "undoCheck", "undoCopy", "report"}
RemovalSteps == {"unregister", "clearDepth", "unlink", "unpoint"}
RestoreSteps == {"putBack", "register", "remove", "add", "check", "repoint"}

Steps == {"idle"} \cup InstallSteps \cup UndoSteps \cup RemovalSteps \cup RestoreSteps

Homes == [executables : SUBSET Version, server : Entry \cup {None, Foreign},
          depth : Depth, pointer : 0 .. MaxCommands]

TypeOK ==
    /\ home \in Homes
    /\ receipts \in Seq(Receipt)
    /\ Len(receipts) <= MaxCommands
    /\ home.pointer <= Len(receipts)
    /\ job.at \in Steps
    /\ job.previous <= Len(receipts)
    /\ job.left \subseteq Version
    /\ job.done \subseteq {"copied", "registering", "deepened", "failed"}
    /\ outcome \in Outcomes
    /\ history.start \in Homes

Idle == [at |-> "idle", kind |-> "none", server |-> None, previous |-> 0, overwrite |-> FALSE,
         done |-> {}, found |-> None, before |-> None, left |-> {}]

-----------------------------------------------------------------------------

Goto(step) == job' = [job EXCEPT !.at = step]

Set(field, value) == home' = [home EXCEPT ![field] = value]

(* A command ends; whoever cannot vouch for what is left no longer has a clean history. *)
Ends(as) ==
    /\ job' = Idle
    /\ outcome' = as
    /\ history' = [history EXCEPT !.clean =
                     @ /\ as \in {"installed", "uninstalled", "undone"}]
    /\ UNCHANGED <<receipts, budget>>

Spend(what) == budget[what] > 0 /\ budget' = [budget EXCEPT ![what] = @ - 1]

Previous == receipts[job.previous]

EntryOf(r) == [version |-> r.version, root |-> r.root]

(* binding_matches, of the server the job wants registered *)
Matches == home.server = job.server

(* uninstall: int() of a string, and nothing for anything else *)
Restored(d) == IF d # None /\ d.type \in {"decimal", "padded"} THEN Decimal(d.value) ELSE None

(* int() of a word raises *)
Unreadable(d) == d # None /\ d.type = "word"

(* what a failed installation writes back: str() of what it found *)
Printed(d) == IF d # None /\ d.type = "number" THEN Decimal(d.value) ELSE d

-----------------------------------------------------------------------------
(* install *)

MayInstall(v, overwrite) ==
    /\ v \in home.executables => overwrite
    /\ IF home.pointer = 0
         THEN home.server = None
         ELSE /\ receipts[home.pointer].version = v => overwrite
              /\ home.server = EntryOf(receipts[home.pointer])

Starts(v, r, overwrite) ==
    /\ job' = [Idle EXCEPT !.at = "begin", !.kind = "install",
                           !.server = [version |-> v, root |-> r],
                           !.previous = home.pointer, !.overwrite = overwrite]
    /\ UNCHANGED <<home, receipts, outcome>>

Prepare(v, r, overwrite) ==
    /\ job.at = "idle"
    /\ MayInstall(v, overwrite)
    /\ Spend("commands")
    /\ Starts(v, r, overwrite)
    /\ history' = [history EXCEPT !.start = home, !.quiet = TRUE, !.target = v]

(* A blind look finds no server in the way of a first installation.  (One  *)
(* that should find the server of the receipt refuses the command.)        *)
PrepareBlind(v, r, overwrite) ==
    /\ job.at = "idle"
    /\ home.pointer = 0 /\ home.server # None
    /\ v \in home.executables => overwrite
    /\ budget.commands > 0 /\ budget.mishaps > 0
    /\ budget' = [commands |-> budget.commands - 1, mishaps |-> budget.mishaps - 1]
    /\ Starts(v, r, overwrite)
    /\ history' = [history EXCEPT !.start = home, !.quiet = TRUE, !.target = v,
                                  !.overlooked = TRUE]

Begin ==
    /\ job.at = "begin"
    /\ job' = [job EXCEPT !.at = "copy", !.found = home.server]
    /\ UNCHANGED <<home, receipts, outcome, history, budget>>

Copy ==
    /\ job.at = "copy"
    /\ Set("executables", home.executables \cup {job.server.version})
    /\ job' = [job EXCEPT !.at = "probe", !.done = @ \cup {"copied"}]
    /\ UNCHANGED <<receipts, outcome, history, budget>>

Probe ==
    /\ job.at = "probe"
    /\ job' = [job EXCEPT !.at = "register", !.done = @ \cup {"registering"}]
    /\ UNCHANGED <<home, receipts, outcome, history, budget>>

(* register: the host refuses to add over a server of that name *)
Register ==
    /\ job.at = "register"
    /\ Goto(IF Matches THEN "check" ELSE IF home.server = None THEN "add" ELSE "remove")
    /\ UNCHANGED <<home, receipts, outcome, history, budget>>

(* A blind look finds nothing to remove, and the host refuses what is added. *)
RegisterBlind ==
    /\ job.at = "register"
    /\ home.server # None
    /\ Spend("mishaps")
    /\ Goto("add")
    /\ UNCHANGED <<home, receipts, outcome, history>>

RemoveOther ==
    /\ job.at = "remove"
    /\ Set("server", None)
    /\ Goto("add")
    /\ UNCHANGED <<receipts, outcome, history, budget>>

Add ==
    /\ job.at = "add"
    /\ home.server = None
    /\ Set("server", job.server)
    /\ Goto("check")
    /\ UNCHANGED <<receipts, outcome, history, budget>>

(* The host reports success and keeps something else. *)
AddCorrupt ==
    /\ job.at = "add"
    /\ home.server = None
    /\ Spend("mishaps")
    /\ Set("server", Foreign)
    /\ Goto("check")
    /\ UNCHANGED <<receipts, outcome, history>>

Check ==
    /\ job.at = "check"
    /\ Matches
    /\ Goto(IF job.kind = "install" THEN "readDepth" ELSE "repoint")
    /\ UNCHANGED <<home, receipts, outcome, history, budget>>

HostRefuses ==
    \/ job.at = "add" /\ home.server # None
    \/ job.at = "check" /\ ~ Matches

(* write_spawn_depth: settings.json is read, and replaced in a later call *)
ReadDepth ==
    /\ job.at = "readDepth"
    /\ job' = [job EXCEPT !.at = "writeDepth", !.before = home.depth]
    /\ UNCHANGED <<home, receipts, outcome, history, budget>>

(* Mutant: a reinstallation records the depth it found, which is Casefile's own. *)
FoundDepth == job.before

RecordedDepth == IF job.previous = 0 THEN job.before ELSE Previous.before

WriteDepth ==
    /\ job.at = "writeDepth"
    /\ Set("depth", Decimal(DepthOf[job.server.version]))
    /\ job' = [job EXCEPT !.at = "receipt", !.done = @ \cup {"deepened"},
                          !.before = RecordedDepth]
    /\ UNCHANGED <<receipts, outcome, history, budget>>

(* Mutant: the receipt names the executable of this installation only. *)
OwnedByThis == {job.server.version}

Owned == {job.server.version} \cup (IF job.previous = 0 THEN {} ELSE Previous.owned)

WriteReceipt ==
    /\ job.at = "receipt"
    /\ receipts' = Append(receipts, [version |-> job.server.version, root |-> job.server.root,
                                     owned |-> Owned, before |-> job.before])
    /\ Goto("point")
    /\ UNCHANGED <<home, outcome, history, budget>>

Point ==
    /\ job.at = "point"
    /\ Set("pointer", Len(receipts))
    /\ Ends("installed")

-----------------------------------------------------------------------------
(* what install does when a call fails *)

InstallFails ==
    /\ job.kind = "install"
    /\ job.at \in InstallSteps \ {"begin"}
    /\ \/ Spend("mishaps")
       \/ HostRefuses /\ UNCHANGED budget
    /\ Goto("undoDepth")
    /\ UNCHANGED <<home, receipts, outcome, history>>

UndoDepth ==
    /\ job.at = "undoDepth"
    /\ IF "deepened" \in job.done THEN Set("depth", Printed(job.before)) ELSE UNCHANGED home
    /\ Goto("undoConfig")
    /\ UNCHANGED <<receipts, outcome, history, budget>>

ConfigBefore == IF "registering" \in job.done THEN job.found ELSE home.server

UndoConfig ==
    /\ job.at = "undoConfig"
    /\ Set("server", ConfigBefore)
    /\ Goto("undoCheck")
    /\ UNCHANGED <<receipts, outcome, history, budget>>

PreviousBindingIsBack ==
    home.server = IF job.previous = 0 THEN None ELSE EntryOf(Previous)

UndoCheck ==
    /\ job.at = "undoCheck"
    /\ job' = [job EXCEPT !.at = IF PreviousBindingIsBack THEN "undoCopy" ELSE "report",
                          !.done = IF PreviousBindingIsBack THEN @ ELSE @ \cup {"failed"}]
    /\ UNCHANGED <<home, receipts, outcome, history, budget>>

(* After a first installation a blind look is what is expected. *)
UndoCheckBlind ==
    /\ job.at = "undoCheck"
    /\ job.previous = 0 /\ home.server # None
    /\ Spend("mishaps")
    /\ Goto("undoCopy")
    /\ UNCHANGED <<home, receipts, outcome, history>>

UndoFails ==
    /\ job.at \in {"undoDepth", "undoConfig", "undoCheck"}
    /\ Spend("mishaps")
    /\ job' = [job EXCEPT !.at = "report", !.done = @ \cup {"failed"}]
    /\ UNCHANGED <<home, receipts, outcome, history>>

UndoCopy ==
    /\ job.at = "undoCopy"
    /\ IF "copied" \in job.done
         THEN Set("executables", home.executables \ {job.server.version})
         ELSE UNCHANGED home
    /\ Goto("report")
    /\ UNCHANGED <<receipts, outcome, history, budget>>

Report ==
    /\ job.at = "report"
    /\ Ends(IF "failed" \notin job.done /\ home.pointer = job.previous
              THEN "undone" ELSE "unverified")
    /\ UNCHANGED home

-----------------------------------------------------------------------------
(* uninstall, of the receipt in force *)

PrepareRemoval ==
    /\ job.at = "idle"
    /\ home.pointer # 0
    /\ LET r == receipts[home.pointer] IN
         /\ home.server = EntryOf(r)
         /\ r.owned \subseteq home.executables
         /\ job' = [Idle EXCEPT !.at = "unregister", !.kind = "uninstall", !.left = r.owned,
                                !.server = EntryOf(r), !.previous = home.pointer]
    /\ Spend("commands")
    /\ history' = [history EXCEPT !.start = home, !.quiet = TRUE, !.target = None]
    /\ UNCHANGED <<home, receipts, outcome>>

Unregister ==
    /\ job.at = "unregister"
    /\ Set("server", None)
    /\ Goto("clearDepth")
    /\ UNCHANGED <<receipts, outcome, history, budget>>

ClearDepth ==
    /\ job.at = "clearDepth"
    /\ ~ Unreadable(Previous.before)
    /\ Set("depth", Restored(Previous.before))
    /\ Goto("unlink")
    /\ UNCHANGED <<receipts, outcome, history, budget>>

Unlink ==
    /\ job.at = "unlink"
    /\ \E v \in job.left :
         /\ Set("executables", home.executables \ {v})
         /\ job' = [job EXCEPT !.left = @ \ {v},
                               !.at = IF job.left = {v} THEN "unpoint" ELSE "unlink"]
    /\ UNCHANGED <<receipts, outcome, history, budget>>

Unpoint ==
    /\ job.at = "unpoint"
    /\ Set("pointer", 0)
    /\ Ends("uninstalled")

RemovalFails ==
    /\ job.at \in RemovalSteps
    /\ \/ Spend("mishaps")
       \/ job.at = "clearDepth" /\ Unreadable(Previous.before) /\ UNCHANGED budget
    /\ Goto("putBack")
    /\ UNCHANGED <<home, receipts, outcome, history>>

(* Mutant: only what was not yet removed is considered. *)
PutBackTheRest == job.left

PutBackAll == Previous.owned

PutBack ==
    /\ job.at = "putBack"
    /\ Set("executables", home.executables \cup PutBackAll)
    /\ Goto("register")
    /\ UNCHANGED <<receipts, outcome, history, budget>>

Repoint ==
    /\ job.at = "repoint"
    /\ Set("pointer", job.previous)
    /\ Ends("undone")

RestoreFails ==
    /\ job.kind = "uninstall"
    /\ job.at \in RestoreSteps
    /\ \/ Spend("mishaps")
       \/ HostRefuses /\ UNCHANGED budget
    /\ job' = Idle
    /\ outcome' = "broken"
    /\ history' = [history EXCEPT !.clean = FALSE]
    /\ UNCHANGED <<home, receipts>>

-----------------------------------------------------------------------------
(* what no command does *)

Dies ==
    /\ job.at # "idle"
    /\ Spend("mishaps")
    /\ job' = Idle
    /\ outcome' = "dead"
    /\ history' = [history EXCEPT !.clean = FALSE]
    /\ UNCHANGED <<home, receipts>>

Disturbs ==
    /\ Spend("mishaps")
    /\ history' = [history EXCEPT !.quiet = FALSE, !.clean = FALSE]
    /\ UNCHANGED <<receipts, job, outcome>>

UserSetsDepth(d) == Disturbs /\ Set("depth", d)

UserSetsServer(s) == Disturbs /\ Set("server", s)

-----------------------------------------------------------------------------

Init ==
    /\ home \in [executables : {{}}, server : {None, Foreign}, depth : UserDepth, pointer : {0}]
    /\ receipts = <<>>
    /\ job = Idle
    /\ outcome = "none"
    /\ history = [start |-> home, quiet |-> TRUE, clean |-> TRUE, original |-> home,
                  target |-> None, overlooked |-> FALSE]
    /\ budget = [commands |-> MaxCommands, mishaps |-> MaxMishaps]

Install ==
    \/ \E v \in Version, r \in Root, overwrite \in BOOLEAN :
         Prepare(v, r, overwrite) \/ PrepareBlind(v, r, overwrite)
    \/ Begin \/ Copy \/ Probe \/ Register \/ RegisterBlind \/ RemoveOther \/ Add \/ AddCorrupt
    \/ Check \/ ReadDepth \/ WriteDepth \/ WriteReceipt \/ Point
    \/ InstallFails \/ UndoDepth \/ UndoConfig \/ UndoCheck \/ UndoCheckBlind \/ UndoFails
    \/ UndoCopy \/ Report

Uninstall ==
    \/ PrepareRemoval \/ Unregister \/ ClearDepth \/ Unlink \/ Unpoint
    \/ RemovalFails \/ PutBack \/ Repoint \/ RestoreFails

Others ==
    \/ Dies
    \/ \E d \in UserDepth : UserSetsDepth(d)
    \/ \E s \in {None, Foreign} : UserSetsServer(s)

Next == Install \/ Uninstall \/ Others

Spec == Init /\ [][Next]_claudeVars

-----------------------------------------------------------------------------
(* A command that fails and reports its rollback as verified leaves the    *)
(* binding and the receipt as they were, and every executable but the one  *)
(* it was installing; a failed first installation leaves nothing at all,   *)
(* but that a depth that was a JSON number may have become a string, and a *)
(* failed removal every executable.                                        *)
(* setup-claude.py:306-351, 390-401.                                       *)
UndoneIsUndone ==
    outcome = "undone" /\ job.at = "idle" /\ history.quiet =>
        /\ home.server = history.start.server
        /\ home.pointer = history.start.pointer
        /\ \A v \in Version :
             \/ v \in home.executables <=> v \in history.start.executables
             \/ v = history.target
        /\ home.pointer = 0 =>
             home.depth \in {history.start.depth, Printed(history.start.depth)}

(* However often Casefile was reinstalled over itself, upgraded and moved  *)
(* to another root, with failures undone on the way, its removal leaves    *)
(* the host as it was before the first installation, but for two things.   *)
(* The depth comes back only if there was none, or it was a string as      *)
(* Python prints a number: a JSON number does not (setup-claude.py:385).   *)
(* And a server of that name does not if the first installation did not    *)
(* see it, as a question to the host that fails counts for no server.      *)
(* skills/casefile-update/SKILL.md:44-51, setup-claude.py:137-143, 221,    *)
(* 252, 289-300, 384.                                                      *)
RemovalRestoresOriginal ==
    outcome = "uninstalled" /\ job.at = "idle" /\ history.clean =>
        /\ home.executables = history.original.executables
        /\ home.pointer = history.original.pointer
        /\ home.server = history.original.server \/ history.overlooked
        /\ Plain(history.original.depth) => home.depth = history.original.depth
=============================================================================
