------------------------------ MODULE Freshness ------------------------------
(***************************************************************************)
(* The freshness reducer of the terminal: what it makes of observed        *)
(* changes and of reports about refreshes, and which views it warns.  A    *)
(* scope is the whole store, a project or an investigation; the impact of  *)
(* a change, the target of a refresh and the view a user looks at are all  *)
(* scopes.                                                                 *)
(***************************************************************************)
EXTENDS Naturals, FiniteSets

CONSTANTS
  Whole,         \* the scope of the store
  Project,       \* the projects
  Investigation, \* the investigations
  ProjectOf,     \* the project of each investigation
  Overlap,       \* pairs of investigations, one inside the other
  File,          \* the files of the store
  ScopeOf        \* the deepest scope each file is in

Scope == {Whole} \cup Project \cup Investigation

ASSUME FreshnessAssumption ==
  /\ Whole \notin Project \cup Investigation
  /\ ProjectOf \in [Investigation -> Project]
  /\ Overlap \subseteq Investigation \X Investigation
  /\ ScopeOf \in [File -> Scope]

\* What belongs to a project: itself and its investigations.
InProject(p) == {p} \cup { i \in Investigation : ProjectOf[i] = p }

Overlapping(i, j) == i = j \/ <<i, j>> \in Overlap \/ <<j, i>> \in Overlap

\* The scope a changed file falls into (PathClassifier::classify): the whole store until a
\* catalogue is known.
Classified(f, known) == IF known THEN ScopeOf[f] ELSE Whole

\* The files a refresh of a target replaces (target_paths, entry_in_target).
FilesOf(target) ==
  IF target = Whole THEN File
  ELSE IF target \in Project THEN { f \in File : ScopeOf[f] \in InProject(target) }
  ELSE { f \in File : ScopeOf[f] = target }

StaleRecord == [gen : Nat, impact : Scope, degraded : BOOLEAN, cleared : BOOLEAN]

\* FreshnessReducer: started is the refresh last reported begun, floors the last generation
\* each scope changed in.
NoRefresh == [generation |-> 0, target |-> Whole, observed |-> 0]

Fresh == [generation |-> 0, records |-> {}, healthy |-> TRUE, started |-> NoRefresh,
          floors |-> [s \in Scope |-> 0]]

\* Mutant: a new record never replaces one.
AddedTo(records, new) == records \cup {new}

\* A record takes the place of the one of the same impact and kind.
RenewedIn(records, new) ==
  { old \in records : old.impact # new.impact \/ old.degraded # new.degraded } \cup {new}

\* mark: there is one record for an impact, which a later change of the same kind renews.
Mark(r, impact, degraded) ==
  LET gen == r.generation + 1
      new == [gen |-> gen, impact |-> impact, degraded |-> degraded, cleared |-> FALSE]
  IN  [r EXCEPT !.generation = gen,
                !.floors[impact] = gen,
                !.records = RenewedIn(@, new)]

\* health: losing the observation makes everything doubtful, getting it back nothing certain.
Health(r, healthy) ==
  IF r.healthy = healthy THEN r
  ELSE IF healthy THEN [r EXCEPT !.healthy = TRUE, !.generation = @ + 1]
  ELSE Mark([r EXCEPT !.healthy = FALSE], Whole, TRUE)

\* FreshnessReducer::new on what the first attempt to observe came to.
NewReducer(healthy) == Health(Fresh, healthy)

\* A change of this scope bears on a refresh of that target.
Relevant(target, impact) ==
  \/ impact = Whole
  \/ target = Whole
  \/ target \in Project /\ impact \in InProject(target)
  \/ target \in Investigation /\ impact = ProjectOf[target]
  \/ /\ target \in Investigation /\ impact \in Investigation
     /\ ProjectOf[target] = ProjectOf[impact]
     /\ Overlapping(target, impact)

\* has_relevant_later_observation
ChangedMeanwhile(r, target, began, ended) ==
  /\ ended # began
  /\ \E s \in Scope : r.floors[s] > began /\ Relevant(target, s)

\* Mutant: whatever was doubtful when the refresh ends is settled by it.
SettlesAll(r, old, began) == TRUE

\* Mutant: what was observed last is never settled.
SettlesButLast(r, old, began) == old.gen < began /\ (~old.degraded \/ r.healthy)

\* What a refresh of the whole store settles: what it was begun after, but not that nothing
\* is observed.
Settles(r, old, began) == old.gen <= began /\ (~old.degraded \/ r.healthy)

\* What a refresh that ended well leaves of the records: one of an investigation only silences
\* the warning in that investigation's own view.
Remaining(r, target, began) ==
  IF target = Whole THEN { old \in r.records : ~Settles(r, old, began) }
  ELSE IF target \in Project
  THEN { old \in r.records : old.gen > began \/ old.impact \notin InProject(target) }
  ELSE { IF old.gen <= began /\ old.impact = target THEN [old EXCEPT !.cleared = TRUE] ELSE old :
           old \in r.records }

\* report, for each kind of report.
Started(r, generation, target, observed) ==
  [r EXCEPT !.started = [generation |-> generation, target |-> target, observed |-> observed]]

Failed(r, generation) ==
  IF r.started.generation = generation THEN [r EXCEPT !.started = NoRefresh] ELSE r

Succeeded(r, generation, target, began, ended) ==
  LET done == Failed(r, generation)
      valid == r.started = [generation |-> generation, target |-> target, observed |-> began]
  IN  IF ~valid \/ ended < began \/ ChangedMeanwhile(r, target, began, ended) THEN done
      ELSE [done EXCEPT !.records = Remaining(r, target, began)]

\* The records a view warns of (warning).
WarnsOf(view, old) ==
  \/ old.impact = Whole
  \/ view = Whole
  \/ view \in Project /\ old.impact \in InProject(view)
  \/ view \in Investigation /\ old.impact = ProjectOf[view]
  \/ /\ view \in Investigation /\ old.impact \in Investigation
     /\ ProjectOf[view] = ProjectOf[old.impact]
     /\ Overlapping(view, old.impact)
     /\ ~(view = old.impact /\ old.cleared)

Warned(r, view) == \E old \in r.records : WarnsOf(view, old)
=============================================================================
