------------------------------- MODULE Terminal -------------------------------
(***************************************************************************)
(* The progressive workbench beside a store that others edit: the adapter  *)
(* that observes the file system, the loop of the interface with the       *)
(* reducer and the coordinator of refreshes, and the loader thread of a    *)
(* refresh that reads the files one after the other.                       *)
(***************************************************************************)
EXTENDS Freshness, Sequences, SequencesExt

CONSTANTS
  None,         \* no version, no load, no content
  MaxEvents,    \* bound: edits and mishaps together
  MaxMishaps,   \* bound: losses of the observation, of events or of the root, together
  MaxRefreshes, \* bound: refreshes a user asks for
  MaxContents   \* bound: bodies that are fetched on their own

VARIABLES
  disk,     \* the version of each file
  watch,    \* the native subscription: "on", "lost" and not yet noticed, or "off"
  retry,    \* Control::Retry is on its way to the adapter
  channel,  \* NativeObservations on their way to the reducer
  phase,    \* the step of the loop that comes next
  reducer,  \* the FreshnessReducer
  reports,  \* RefreshReports on their way to the reducer
  observed, \* the generation the coordinator knows of (RefreshObservation)
  known,    \* the classifier has a catalogue
  load,     \* the ActiveLoad and its thread
  content,  \* the ActiveContent and its thread
  loads,    \* loads begun so far (next_generation)
  shown,    \* the version of each file that is shown, once a load has completed
  blind,    \* history: files that changed unobserved while a load was under way
  mishaps,  \* observations lost so far
  contents  \* bodies fetched so far

uiVars == <<phase, reducer, reports, observed, known, loads, shown>>
vars == <<disk, watch, retry, channel, phase, reducer, reports, observed, known, load, content,
          loads, shown, blind, mishaps, contents>>

Observation == [what : {"event"}, file : File] \cup [what : {"overflow", "root", "off", "on"}]

Report ==
  [what : {"started"}, generation : Nat, target : Scope, began : Nat]
    \cup [what : {"failed"}, generation : Nat]
    \cup [what : {"succeeded"}, generation : Nat, target : Scope, began : Nat, ended : Nat]

\* An ActiveLoad: its request, what its thread has done, the version of each file it has read.
Loading(target) ==
  [generation : Nat, target : {target}, began : Nat, step : {"catalogue", "read", "failed"},
   read : [FilesOf(target) -> Nat \cup {None}]]

\* An ActiveContent: a body being fetched, and the version its thread found.
Fetching == [file : File, version : Nat \cup {None}]

ASSUME TerminalAssumption ==
  /\ None \notin Nat \cup [File -> Nat] \cup Fetching
  /\ \A target \in Scope : None \notin Loading(target)

\* What is shown is whole: nothing before the first load completes, and everything after.
TypeOK ==
  /\ watch \in {"on", "lost", "off"}
  /\ channel \in Seq(Observation)
  /\ reports \in Seq(Report)
  /\ phase \in {"watch", "coordinate", "key"}
  /\ load = None \/ \E target \in Scope : load \in Loading(target)
  /\ content = None \/ content \in Fetching
  /\ reducer.records \subseteq StaleRecord
  /\ \A a, b \in reducer.records :
       (a.impact = b.impact /\ a.degraded = b.degraded) => a = b
  /\ observed <= reducer.generation
  /\ \/ shown = None
     \/ DOMAIN shown = File /\ \A f \in File : shown[f] \in 0..disk[f]

\* A load that begins.  Its catalogue says something new only while none is known.
Begun(generation, target, began) ==
  [generation |-> generation, target |-> target, began |-> began,
   step |-> IF known THEN "read" ELSE "catalogue",
   read |-> [f \in FilesOf(target) |-> None]]

\* run_loading_resuming: observe first, then start the load of the whole store.
Init ==
  /\ disk = [f \in File |-> 0]
  /\ watch \in {"on", "off"}
  /\ retry = FALSE
  /\ channel = <<>>
  /\ phase = "watch"
  /\ reducer = NewReducer(watch = "on")
  /\ observed = reducer.generation
  /\ reports = <<[what |-> "started", generation |-> 1, target |-> Whole, began |-> observed]>>
  /\ known = FALSE
  /\ load = Begun(1, Whole, observed)
  /\ content = None
  /\ loads = 1
  /\ shown = None
  /\ blind = {}
  /\ mishaps = IF watch = "on" THEN 0 ELSE 1
  /\ contents = 0

-----------------------------------------------------------------------------
(* The file system and the adapter (run_native_adapter). *)

EventsLeft == FoldFunctionOnSet(+, 0, disk, File) + mishaps < MaxEvents

Mishap == EventsLeft /\ mishaps < MaxMishaps /\ mishaps' = mishaps + 1

Tells(observation) == channel' = Append(channel, observation)

\* Somebody edits a file: an event when it is observed, otherwise nothing.
Edits(f) ==
  /\ EventsLeft
  /\ disk' = [disk EXCEPT ![f] = @ + 1]
  /\ \/ watch = "on" /\ Tells([what |-> "event", file |-> f])
     \/ watch # "on" /\ UNCHANGED channel
  /\ blind' = IF watch # "on" /\ load # None THEN blind \cup {f} ELSE blind
  /\ UNCHANGED <<watch, retry, uiVars, load, content, mishaps, contents>>

\* The event of an edit is lost, and that it is lost is told (need_rescan, a path nobody
\* can classify).
EditsUntold(f) ==
  /\ Mishap
  /\ watch = "on"
  /\ disk' = [disk EXCEPT ![f] = @ + 1]
  /\ Tells([what |-> "overflow"])
  /\ UNCHANGED <<watch, retry, uiVars, load, content, blind, contents>>

\* The root of the store is renamed, and the same or another is put in its place.
LosesRoot ==
  /\ Mishap
  /\ watch = "on"
  /\ Tells([what |-> "root"])
  /\ watch' = "lost"
  /\ UNCHANGED <<disk, retry, uiVars, load, content, blind, contents>>

\* The backend fails; the adapter has not looked yet.
LosesWatch ==
  /\ Mishap
  /\ watch = "on"
  /\ watch' = "lost"
  /\ UNCHANGED <<disk, retry, channel, uiVars, load, content, blind, contents>>

\* The adapter finds the error, or is told to observe anew.
NoticesLoss ==
  /\ watch = "lost" \/ (watch = "on" /\ retry)
  /\ watch' = "off"
  /\ retry' = FALSE
  /\ Tells([what |-> "off"])
  /\ UNCHANGED <<disk, uiVars, load, content, blind, mishaps, contents>>

\* An attempt to observe succeeds.  (One that fails tells the same again.)
Rewatches ==
  /\ watch = "off"
  /\ watch' = "on"
  /\ retry' = FALSE
  /\ Tells([what |-> "on"])
  /\ UNCHANGED <<disk, uiVars, load, content, blind, mishaps, contents>>

-----------------------------------------------------------------------------
(* The threads of a load and of a body that is fetched. *)

\* The catalogue is the first event of a load (run_load).
LoadsCatalogue ==
  /\ load # None /\ load.step = "catalogue"
  /\ load' = [load EXCEPT !.step = "read"]
  /\ UNCHANGED <<disk, watch, retry, channel, uiVars, content, blind, mishaps, contents>>

\* Everything is read: Complete is on its way.
LoadDone ==
  load # None /\ load.step = "read" /\ \A f \in DOMAIN load.read : load.read[f] # None

LoadReads(f) ==
  /\ load # None /\ load.step = "read" /\ f \in DOMAIN load.read
  /\ load.read[f] = None
  /\ load' = [load EXCEPT !.read[f] = disk[f]]
  /\ UNCHANGED <<disk, watch, retry, channel, uiVars, content, blind, mishaps, contents>>

LoadFails ==
  /\ load # None /\ load.step # "failed" /\ ~LoadDone
  /\ load' = [load EXCEPT !.step = "failed"]
  /\ UNCHANGED <<disk, watch, retry, channel, uiVars, content, blind, mishaps, contents>>

\* fetch_entry reads what the file is now.
ContentReads ==
  /\ content # None /\ content.version = None
  /\ content' = [content EXCEPT !.version = disk[content.file]]
  /\ UNCHANGED <<disk, watch, retry, channel, uiVars, load, blind, mishaps, contents>>

-----------------------------------------------------------------------------
(* The loop (run_progressive_watched). *)

ByReport(r, report) ==
  CASE report.what = "started" -> Started(r, report.generation, report.target, report.began)
    [] report.what = "failed" -> Failed(r, report.generation)
    [] report.what = "succeeded" ->
         Succeeded(r, report.generation, report.target, report.began, report.ended)

ByObservation(r, o) ==
  CASE o.what = "event" -> Mark(r, Classified(o.file, known), FALSE)
    [] o.what = "overflow" -> Mark(r, Whole, TRUE)
    [] o.what = "root" -> Mark(Health(r, FALSE), Whole, FALSE)
    [] o.what = "off" -> Health(r, FALSE)
    [] o.what = "on" -> Health(r, TRUE)

\* The reducer after these reports, and after these observations, one by one.
ByReports(r, told) ==
  LET after[i \in 0..Len(told)] == IF i = 0 THEN r ELSE ByReport(after[i - 1], told[i])
  IN  after[Len(told)]

ByObservations(r, told) ==
  LET after[i \in 0..Len(told)] == IF i = 0 THEN r ELSE ByObservation(after[i - 1], told[i])
  IN  after[Len(told)]

\* WatchCoordinator::drain: first every report, then every observation.
Watches ==
  /\ phase = "watch"
  /\ reducer' = ByObservations(ByReports(reducer, reports), channel)
  /\ reports' = <<>>
  /\ channel' = <<>>
  /\ retry' = (retry \/ \E i \in DOMAIN channel : channel[i].what = "root")
  /\ phase' = "coordinate"
  /\ UNCHANGED <<disk, watch, observed, known, load, content, loads, shown, blind, mishaps,
                 contents>>

\* What a completed load puts in the place of what was shown (apply_load_event).
Promoted ==
  IF shown = None THEN load.read
  ELSE [f \in File |-> IF f \in DOMAIN load.read THEN load.read[f] ELSE shown[f]]

\* A body that was fetched takes its place at once (apply_content_event).
WithContent(now) ==
  IF content = None \/ now = None THEN now
  ELSE IF content.version = None THEN now
  ELSE [now EXCEPT ![content.file] = content.version]

\* The observation a refresh is credited with is the one it began on.
Credited == load.began

\* Coordinator::drain and, once there is a catalogue, WatchCoordinator::rebuild.  The first load
\* is of the whole store, and is not started again when it fails: until one completes nothing
\* counts as shown.
Coordinates ==
  /\ phase = "coordinate"
  /\ observed' = reducer.generation
  /\ known' = (known \/ (load # None /\ load.step # "catalogue"))
  /\ CASE LoadDone ->
            /\ shown' = WithContent(IF shown # None \/ load.target = Whole THEN Promoted ELSE None)
            /\ reports' = Append(reports, [what |-> "succeeded", generation |-> load.generation,
                                           target |-> load.target, began |-> Credited,
                                           ended |-> observed'])
            /\ load' = None
       [] load # None /\ load.step = "failed" ->
            /\ shown' = WithContent(shown)
            /\ reports' = Append(reports, [what |-> "failed", generation |-> load.generation])
            /\ load' = None
       [] OTHER ->
            /\ shown' = WithContent(shown)
            /\ UNCHANGED <<reports, load>>
  /\ content' = IF content # None /\ content.version # None THEN None ELSE content
  /\ phase' = "key"
  /\ UNCHANGED <<disk, watch, retry, channel, reducer, loads, blind, mishaps, contents>>

\* A key asks for a refresh (start_target): a load under way and a body being fetched are
\* dropped, and the new load is reported with the observation known so far.
Refreshes(target) ==
  /\ phase = "key"
  /\ loads <= MaxRefreshes
  /\ target = Whole \/ known
  /\ load' = Begun(loads + 1, target, observed)
  /\ reports' = Append(reports, [what |-> "started", generation |-> loads + 1, target |-> target,
                                 began |-> observed])
  /\ loads' = loads + 1
  /\ content' = None
  /\ phase' = "watch"
  /\ UNCHANGED <<disk, watch, retry, channel, reducer, observed, known, shown, blind, mishaps,
                 contents>>

\* A record is selected whose body is not there (request_content).
FetchesContent(f) ==
  /\ phase = "key"
  /\ shown # None /\ content = None
  /\ contents < MaxContents
  /\ contents' = contents + 1
  /\ content' = [file |-> f, version |-> None]
  /\ phase' = "watch"
  /\ UNCHANGED <<disk, watch, retry, channel, reducer, reports, observed, known, load, loads,
                 shown, blind, mishaps>>

\* No key, or one that only moves about.
Idles ==
  /\ phase = "key"
  /\ phase' = "watch"
  /\ UNCHANGED <<disk, watch, retry, channel, reducer, reports, observed, known, load, content,
                 loads, shown, blind, mishaps, contents>>

Next ==
  \/ \E f \in File : Edits(f) \/ EditsUntold(f) \/ LoadReads(f) \/ FetchesContent(f)
  \/ LosesRoot \/ LosesWatch \/ NoticesLoss \/ Rewatches
  \/ LoadsCatalogue \/ LoadFails \/ ContentReads
  \/ Watches \/ Coordinates \/ Idles
  \/ \E target \in Scope : Refreshes(target)

Spec == Init /\ [][Next]_vars

-----------------------------------------------------------------------------
(* Properties. *)

\* The views a file is seen in.
Views(f) == { view \in Scope : f \in FilesOf(view) }

\* The interface has yet to hear of a change, or of the loss of the observation.
Unheard(f) ==
  \/ watch = "lost"
  \/ \E i \in DOMAIN channel :
       \/ channel[i].what \in {"overflow", "root", "off"}
       \/ channel[i] = [what |-> "event", file |-> f]

\* A file that changed after it was read for the view is warned of in every view it is seen in, as
\* soon as the interface has heard of the change: "restored health does not claim freshness"
\* (watching.rs, the test of that name), nor does anything else that was not read since.
StaleIsWarned ==
  shown # None =>
    \A f \in File :
      (shown[f] # disk[f] /\ ~Unheard(f)) => \A view \in Views(f) : Warned(reducer, view)

\* The same, but for a file that changed unobserved while a load was under way: a load that began
\* before the observation was restored is credited with what happened until then.
StaleIsWarnedUnlessBlind ==
  shown # None =>
    \A f \in File \ blind :
      (shown[f] # disk[f] /\ ~Unheard(f)) => \A view \in Views(f) : Warned(reducer, view)

\* The key the warning offers is good for something: a refresh of the whole store that began on the
\* last observation, and ended well while the observation held, leaves no warning in any view.
RefreshClearsWarnings ==
  [][(/\ phase = "watch" /\ reports # <<>>
      /\ Last(reports).what = "succeeded" /\ Last(reports).target = Whole
      /\ Last(reports).began = reducer.generation
      /\ channel = <<>> /\ reducer.healthy /\ phase' = "coordinate")
       => reducer'.records = {}]_vars
=============================================================================
