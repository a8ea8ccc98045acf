-------------------------------- MODULE Browsing --------------------------------
(***************************************************************************)
(* The workbench over the store: the coordinator that loads and reloads    *)
(* targets, the application that merges what was loaded into what it shows *)
(* and into the lists it keeps of it, and the user who moves through the   *)
(* lists, filters, refreshes and leaves to edit.  One turn of the loop is  *)
(* a drain of events, the application of what they changed and a key.      *)
(*                                                                         *)
(* A file is [work, identity, title, version]: whether it parses as a work *)
(* item, its identity and title, and a version that stands for the rest.   *)
(* An entry is a file as loaded, with the scope the load gave it, and      *)
(* whether it was parsed: a lazy file is not, until its content is         *)
(* fetched.  The session is external here: Presentation models it.         *)
(***************************************************************************)
EXTENDS Integers, Sequences, FiniteSets, SequencesExt, Functions

CONSTANTS
  Projects,       \* the projects there may be, in the order lists show them
  Investigations, \* the investigations there may be, in that order
  Paths,          \* the paths files may be at, in that order
  ProjectOf,      \* the project each path is in
  FoldersOf,      \* the folders of each path that may be investigations, the inner one first
  Lazy,           \* the paths whose content is fetched on demand
  DocsOf,         \* what may be at each path, None included
  Catalogues,     \* what casefile.toml may say: the investigations of each project
  Needles,        \* what the user may filter by
  None,
  Starts          \* what is there at first, with the bounds it is looked at under: changes of the
                  \* disk, keys, refreshes, edits, and loads that fail

VARIABLES
  disk,        \* each file
  tree,        \* casefile.toml
  coordinator, \* the Coordinator
  app,         \* the App with its Browser
  update,      \* CoordinatorUpdate.projection: the most that has changed in this turn
  phase,       \* the step of the loop: "load", "content" or "key"
  abandoned,   \* history: records shown from a load that was given up before any had completed
  budget       \* what is left of the bounds

vars == <<disk, tree, coordinator, app, update, phase, abandoned, budget>>

Views == {"projects", "investigations", "tickets", "files"}

Put(f, k, value) == [x \in DOMAIN f \cup {k} |-> IF x = k THEN value ELSE f[x]]

Drop(f, keys) == Restrict(f, DOMAIN f \ keys)

\* What f says, and what g says of the rest.
Over(f, g) == [x \in DOMAIN f \cup DOMAIN g |-> IF x \in DOMAIN f THEN f[x] ELSE g[x]]

\* Where x is in a list, and the first place if it is nowhere.
PlaceIn(list, x) ==
  IF x \in Range(list) THEN CHOOSE i \in DOMAIN list : list[i] = x ELSE 1

-----------------------------------------------------------------------------
(* Scopes and targets. *)

\* ScanResult::scope_for_path: the project, and the innermost investigation.
ScopeIn(roots, p) ==
  LET inside == { n \in DOMAIN FoldersOf[p] : FoldersOf[p][n] \in roots[ProjectOf[p]] }
      first == CHOOSE n \in inside : \A m \in inside : n <= m
  IN  IF ProjectOf[p] \notin DOMAIN roots THEN None
      ELSE <<ProjectOf[p], IF inside = {} THEN None ELSE FoldersOf[p][first]>>

Scopes == Range(Projects) \X (Range(Investigations) \cup {None})

\* What the constants have to be: paths in listed projects, files that are work items or not, and
\* None none of what it stands beside.  Workbench assumes it.
BrowsingAssumption ==
  /\ Paths \in Seq(Range(Paths))
  /\ \A p \in Range(Paths) :
       /\ ProjectOf[p] \in Range(Projects)
       /\ FoldersOf[p] \in Seq(Range(Investigations))
       /\ \A doc \in DocsOf[p] : doc # None => doc.work \in BOOLEAN
  /\ \A start \in Starts :
       /\ start.tree \in Catalogues
       /\ DOMAIN start.disk = Range(Paths)
       /\ \A p \in Range(Paths) : start.disk[p] \in DocsOf[p]
  /\ None \notin Scopes /\ None \notin Catalogues
  /\ None # <<>> /\ None \notin {"filtered", "ambiguous"}

Store == [project |-> None, investigation |-> None]

Below(target, p) ==
  /\ target.project \in {None, ProjectOf[p]}
  /\ target.investigation = None \/ target.investigation \in Range(FoldersOf[p])

\* target_scope: a path inside an investigation inside the target does not belong to it.
Outside(target, roots, scope) ==
  /\ target.investigation # None
  /\ roots # None /\ target.project \in DOMAIN roots
  /\ target.investigation \in roots[target.project]
  /\ scope # None /\ scope[2] # target.investigation

\* validate_target
Listed(target, roots) ==
  \/ target = Store
  \/ /\ target.project \in DOMAIN roots
     /\ target.investigation = None \/ target.investigation \in roots[target.project]

-----------------------------------------------------------------------------
(* The lists: browsing::projection.  A fact is what the lists say of an entry. *)

FactOf(roots, p, entry) ==
  [scope |-> ScopeIn(roots, p), work |-> entry.doc.work, identity |-> entry.doc.identity,
   title |-> entry.doc.title]

\* The matches of a needle in all facts: their paths, and how many there are of each scope.
HitsOf(facts, needle) ==
  LET found == { p \in DOMAIN facts : facts[p].title = needle }
  IN  [needle |-> needle, paths |-> found,
       scopes |-> [s \in Scopes |-> Cardinality({ p \in found : facts[p].scope = s })]]

\* The paths of each scope, and how many of them are work items and how many are not.
MembersOf(facts) ==
  { <<facts[p].scope, p>> : p \in { q \in DOMAIN facts : facts[q].scope # None } }

TallyOf(facts) ==
  [k \in Scopes \X BOOLEAN |->
     Cardinality({ p \in DOMAIN facts : facts[p].scope = k[1] /\ facts[p].work = k[2] })]

\* Projection::rebuild
Rebuilt(roots, shown) ==
  LET paths == { shown[i].path : i \in DOMAIN shown }
      at == [p \in paths |-> CHOOSE i \in DOMAIN shown : shown[i].path = p]
      facts == [p \in paths |-> FactOf(roots, p, shown[at[p]].entry)]
  IN  [roots |-> roots, at |-> at, facts |-> facts, members |-> MembersOf(facts),
       tally |-> TallyOf(facts), hits |-> None]

\* Projection::count
Counted(tally, fact, n) ==
  IF fact.scope = None THEN tally ELSE [tally EXCEPT ![<<fact.scope, fact.work>>] = @ + n]

CountedIn(scopes, scope, n) == IF scope = None THEN scopes ELSE [scopes EXCEPT ![scope] = @ + n]

\* FilterFacts::insert and remove: the paths that match, and how many there are of each scope.
Found(hits, p, fact) ==
  IF hits = None \/ fact.title # hits.needle THEN hits
  ELSE [hits EXCEPT !.paths = @ \cup {p},
                    !.scopes = CountedIn(@, fact.scope, 1)]

Lost(hits, p, fact) ==
  IF hits = None THEN hits
  ELSE IF p \notin hits.paths THEN hits
  ELSE [hits EXCEPT !.paths = @ \ {p},
                    !.scopes = CountedIn(@, fact.scope, -1)]

\* Projection::insert
Inserted(lists, p, fact, i) ==
  [lists EXCEPT !.at = Put(@, p, i), !.facts = Put(@, p, fact),
                !.members = IF fact.scope = None THEN @ ELSE @ \cup {<<fact.scope, p>>},
                !.tally = Counted(@, fact, 1), !.hits = Found(@, p, fact)]

Removed(lists, p) ==
  LET fact == lists.facts[p]
  IN  IF p \notin DOMAIN lists.facts THEN lists
      ELSE [lists EXCEPT !.at = Drop(@, {p}), !.facts = Drop(@, {p}),
                         !.members = @ \ {<<fact.scope, p>>},
                         !.tally = Counted(@, fact, -1), !.hits = Lost(@, p, fact)]

\* Projection::update, one path after the other.
UpdatedAt(lists, shown, index, p) ==
  IF p \notin DOMAIN index THEN Removed(lists, p)
  ELSE LET fact == FactOf(lists.roots, p, shown[index[p]].entry)
       IN  IF p \in DOMAIN lists.facts /\ lists.facts[p] = fact
           THEN [lists EXCEPT !.at = Put(@, p, index[p])]
           ELSE Inserted(Removed(lists, p), p, fact, index[p])

Updated(lists, shown, index, paths) ==
  LET after[n \in 0 .. Len(Paths)] ==
        IF n = 0 THEN lists
        ELSE IF Paths[n] \in paths THEN UpdatedAt(after[n - 1], shown, index, Paths[n])
        ELSE after[n - 1]
  IN  after[Len(Paths)]

\* Projection::visible looks matches up anew when the needle is another one.
Looked(lists, needle) ==
  LET known == needle = None \/ (lists.hits # None /\ lists.hits.needle = needle)
  IN  IF known THEN lists ELSE [lists EXCEPT !.hits = HitsOf(lists.facts, needle)]

\* What is listed, given the filter, for which the matches have been looked up, and what is
\* selected further up.
VisibleProjects(lists, browser) ==
  LET Matches(project) ==
        browser.filter = None \/ \E s \in Scopes : s[1] = project /\ lists.hits.scopes[s] > 0
  IN  SelectSeq(Projects, LAMBDA project : project \in DOMAIN lists.roots /\ Matches(project))

VisibleInvestigations(lists, browser) ==
  LET Matches(i) == browser.filter = None \/ lists.hits.scopes[<<browser.project, i>>] > 0
  IN  IF browser.project \notin DOMAIN lists.roots THEN <<>>
      ELSE SelectSeq(Investigations, LAMBDA i : i \in lists.roots[browser.project] /\ Matches(i))

\* Tickets of the investigation, or what else is in it and in its project.
VisiblePaths(lists, browser) ==
  LET scopes == { <<browser.project, browser.investigation>> } \cup
                (IF browser.view = "files" THEN { <<browser.project, None>> } ELSE {})
  IN  IF browser.view \notin {"tickets", "files"} \/ browser.project = None THEN <<>>
      ELSE SelectSeq(Paths, LAMBDA p :
             /\ \E s \in scopes : <<s, p>> \in lists.members
             /\ lists.facts[p].work <=> browser.view = "tickets"
             /\ browser.filter = None \/ p \in lists.hits.paths)

-----------------------------------------------------------------------------
(* What is selected: browsing::Browser. *)

First(list) == IF list = <<>> THEN None ELSE Head(list)

Normalised(selected, list) == IF selected \in Range(list) THEN selected ELSE First(list)

\* normalise_selection: each level is looked up in what the one above it leaves.
Normal(lists, browser) ==
  LET inProject == [browser EXCEPT !.project = Normalised(@, VisibleProjects(lists, browser))]
      inScope == [inProject EXCEPT
                    !.investigation = Normalised(@, VisibleInvestigations(lists, inProject))]
  IN  [inScope EXCEPT !.path = Normalised(@, VisiblePaths(lists, inScope))]

\* apply_partial: only what is not selected yet.
Filled(lists, browser) ==
  LET Or(selected, list) == IF selected = None THEN First(list) ELSE selected
      inProject == [browser EXCEPT !.project = Or(@, VisibleProjects(lists, browser))]
      inScope == [inProject EXCEPT
                    !.investigation = Or(@, VisibleInvestigations(lists, inProject))]
  IN  [inScope EXCEPT !.path = Or(@, VisiblePaths(lists, inScope))]

\* nearest
Nearest(list, place) ==
  IF list = <<>> THEN None ELSE list[IF place > Len(list) THEN Len(list) ELSE place]

\* resolve_exact_or_nearest, with the notice it gives.
Resolved(anchor, place, all, list) ==
  IF anchor \in all
  THEN IF anchor \in Range(list) THEN [value |-> anchor, notice |-> None]
       ELSE [value |-> None, notice |-> "filtered"]
  ELSE [value |-> Nearest(list, place), notice |-> None]

ShownPaths(a) == { a.shown[i].path : i \in DOMAIN a.shown }

EntryShown(a, p) == a.shown[CHOOSE i \in DOMAIN a.shown : a.shown[i].path = p].entry

\* GovernedAnchor: the record by its scope and identity.
GovernedAt(a, p) ==
  LET entry == EntryShown(a, p)
      scope == ScopeIn(a.lists.roots, p)
  IN  IF p \notin ShownPaths(a) \/ scope = None \/ entry.doc.identity = None THEN None
      ELSE <<scope, entry.doc.identity>>

\* Browser::anchor
Anchor(a) ==
  LET b == a.browser
  IN  [project |-> b.project, projectAt |-> PlaceIn(VisibleProjects(a.lists, b), b.project),
       investigation |-> b.investigation,
       investigationAt |-> PlaceIn(VisibleInvestigations(a.lists, b), b.investigation),
       record |-> IF b.path = None THEN None
                  ELSE [path |-> b.path, at |-> PlaceIn(VisiblePaths(a.lists, b), b.path),
                        governed |-> GovernedAt(a, b.path)]]

\* Mutant: a record is looked for at its path only.
AtItsPath(a, governed) == {}

\* governed_matches
GovernedMatches(a, governed) ==
  { p \in ShownPaths(a) : governed # None /\ GovernedAt(a, p) = governed }

\* resolve_record
ResolvedRecord(a, browser, record) ==
  LET list == VisiblePaths(a.lists, browser)
      same == GovernedMatches(a, record.governed)
      Shows(p) == IF p \in Range(list) THEN [value |-> p, notice |-> None]
                  ELSE [value |-> None, notice |-> "filtered"]
  IN  CASE record = None -> [value |-> First(list), notice |-> None]
        [] record # None /\ record.path \in ShownPaths(a) -> Shows(record.path)
        [] OTHER -> IF same = {} THEN [value |-> Nearest(list, record.at), notice |-> None]
                    ELSE IF \A p \in same : same # {p} THEN [value |-> None, notice |-> "ambiguous"]
                    ELSE Shows(CHOOSE p \in same : TRUE)

\* Browser::promote: the selection is found again in what a completed load shows.
Promoted(a, anchor) ==
  LET b == a.browser
      roots == a.lists.roots
      project ==
        Resolved(anchor.project, anchor.projectAt, DOMAIN roots, VisibleProjects(a.lists, b))
      moved == project.value # anchor.project
      inProject == [b EXCEPT !.project = project.value,
                             !.investigation = IF moved THEN None ELSE @]
      investigation ==
        Resolved(IF moved THEN None ELSE anchor.investigation,
                 IF moved THEN 1 ELSE anchor.investigationAt,
                 IF project.value \in DOMAIN roots THEN roots[project.value] ELSE {},
                 VisibleInvestigations(a.lists, inProject))
      inScope == [inProject EXCEPT !.investigation = investigation.value]
      left == moved \/ investigation.value # anchor.investigation
      record == IF b.view \notin {"tickets", "files"} THEN [value |-> None, notice |-> None]
                ELSE ResolvedRecord(a, inScope, IF left THEN None ELSE anchor.record)
      Or(later, earlier) == IF later # None THEN later ELSE earlier
  IN  [a EXCEPT !.browser = [inScope EXCEPT !.path = record.value],
                !.resumed = None,
                !.feedback = Or(record.notice, Or(investigation.notice, project.notice))]

-----------------------------------------------------------------------------
(* What is shown: workbench::App. *)

NoApp(browser, resumed) ==
  [shown |-> <<>>, index |-> <<>>, lists |-> Rebuilt(<<>>, <<>>), cards |-> <<>>,
   browser |-> browser, resumed |-> resumed, feedback |-> None]

\* A removed entry gives its place to the last one.
Unshown(a, p) ==
  LET i == a.index[p]
      last == Len(a.shown)
      moved == a.shown[last].path
  IN  IF p \notin DOMAIN a.index THEN a
      ELSE [a EXCEPT !.shown = SubSeq([@ EXCEPT ![i] = a.shown[last]], 1, last - 1),
                     !.index = IF i = last THEN Drop(@, {p}) ELSE Put(Drop(@, {p}), moved, i)]

ShownAt(a, p, entry) ==
  LET item == [path |-> p, entry |-> entry]
  IN  IF p \in DOMAIN a.index THEN [a EXCEPT !.shown[a.index[p]] = item]
      ELSE [a EXCEPT !.index = Put(@, p, Len(a.shown) + 1), !.shown = Append(@, item)]

\* Facts::insert_identity: the card each path may stand for.
CardsOf(roots, shown, paths) ==
  LET CardAt(p) == CHOOSE i \in DOMAIN shown : shown[i].path = p
      carded == { p \in { shown[i].path : i \in DOMAIN shown } :
                    /\ p \in paths /\ ScopeIn(roots, p) # None
                    /\ shown[CardAt(p)].entry.doc.identity # None }
  IN  [p \in carded |-> <<ScopeIn(roots, p), shown[CardAt(p)].entry.doc.identity>>]

\* Mutant: entries that were moved to another place are not looked up again.
OnlyNamed(before, after, changed) == changed

\* index_changes: what changed, and what was moved to the place of what is gone.
IndexChanges(before, after, changed) ==
  changed \cup { p \in DOMAIN after.index \cap DOMAIN before.index :
                   after.index[p] # before.index[p] }

\* What is gone is taken away, and then each entry is put in its place, in the order of paths.
Without(a, paths) ==
  LET after[n \in 0 .. Len(Paths)] ==
        IF n = 0 THEN a
        ELSE IF Paths[n] \in paths THEN Unshown(after[n - 1], Paths[n])
        ELSE after[n - 1]
  IN  after[Len(Paths)]

Showing(a, entries) ==
  LET after[n \in 0 .. Len(Paths)] ==
        IF n = 0 THEN a
        ELSE IF Paths[n] \in DOMAIN entries
             THEN ShownAt(after[n - 1], Paths[n], entries[Paths[n]])
        ELSE after[n - 1]
  IN  after[Len(Paths)]

\* merge_projection
Merged(a, taken) ==
  LET changed == DOMAIN taken.entries \cup taken.removed
      merged == Showing(Without(a, taken.removed), taken.entries)
      shown == merged.shown
      index == merged.index
  IN  IF taken.roots # None
      THEN [merged EXCEPT !.lists = Rebuilt(taken.roots, shown),
                          !.cards = CardsOf(taken.roots, shown, DOMAIN index)]
      ELSE [merged EXCEPT !.lists = Updated(@, shown, index, IndexChanges(a, merged, changed)),
                          !.cards = Over(CardsOf(a.lists.roots, shown, changed),
                                         Drop(@, changed))]

-----------------------------------------------------------------------------
(* The coordinator: progressive.rs. *)

Load(target) ==
  [target |-> target, roots |-> None, todo |-> {}, entries |-> <<>>]

NewCoordinator ==
  [entries |-> <<>>, owner |-> <<>>, known |-> <<>>, complete |-> FALSE, pending |-> FALSE,
   changed |-> {}, removed |-> {}, active |-> Load(Store), content |-> None, attempted |-> None]

Init ==
  /\ \E start \in Starts : disk = start.disk /\ tree = start.tree /\ budget = start.bounds
  /\ coordinator = NewCoordinator
  /\ app = NoApp([view |-> "projects", project |-> None, investigation |-> None, path |-> None,
                  filter |-> None], None)
  /\ update = "none"
  /\ phase = "load"
  /\ abandoned = {}

Spend(what) == budget[what] > 0 /\ budget' = [budget EXCEPT ![what] = @ - 1]

\* CoordinatorUpdate::merge: the greater of two changes.
More(change) ==
  LET ranks == <<"none", "partial", "content", "complete">>
  IN  IF PlaceIn(ranks, change) > PlaceIn(ranks, update) THEN change ELSE update

Loading == phase = "load" /\ coordinator.active # None

\* The paths of the next scope to be read.
NextBatch(load) ==
  LET next == Head(SelectSeq(Paths, LAMBDA p : p \in load.todo))
  IN  { p \in load.todo : ScopeIn(load.roots, p) = ScopeIn(load.roots, next) }

\* Files change, here and in casefile.toml.  A change might as well come last before it is read.
Changes ==
  /\ phase = "load"
  /\ \/ /\ \E p \in Range(Paths) :
             /\ \/ coordinator.active # None /\ coordinator.active.todo # {}
                   /\ p \in NextBatch(coordinator.active)
                \/ coordinator.content # None /\ coordinator.content.got = None
                   /\ p = coordinator.content.path
             /\ \E doc \in DocsOf[p] \ {disk[p]} : disk' = [disk EXCEPT ![p] = doc]
        /\ UNCHANGED tree
     \/ /\ coordinator.active # None /\ coordinator.active.roots = None
        /\ tree' \in Catalogues \ {tree}
        /\ UNCHANGED disk
  /\ Spend("changes")
  /\ UNCHANGED <<coordinator, app, update, phase, abandoned>>

\* PresentationEvent::Catalogue.  Nothing is read of a store that is not active.
CatalogueArrives ==
  LET listed == Listed(coordinator.active.target, tree) /\ DOMAIN tree # {}
  IN  /\ Loading
      /\ coordinator.active.roots = None
      /\ coordinator' = [coordinator EXCEPT
           !.active.roots = tree,
           !.active.todo = { p \in Range(Paths) : listed /\ Below(coordinator.active.target, p) },
           !.known = IF coordinator.complete THEN @ ELSE tree,
           !.pending = @ \/ ~ coordinator.complete]
      /\ update' = IF coordinator.complete THEN update ELSE More("partial")
      /\ UNCHANGED <<disk, tree, app, phase, abandoned, budget>>

\* PresentationEvent::Entries, of one scope after the other.
EntriesArrive ==
  LET load == coordinator.active
      batch == NextBatch(load)
      present == { p \in batch : disk[p] # None }
      taken == { p \in present : ~ Outside(load.target, load.roots, ScopeIn(load.roots, p)) }
      Read(p) == [doc |-> disk[p], scope |-> ScopeIn(load.roots, p), parsed |-> p \notin Lazy]
  IN  /\ Loading
      /\ load.todo # {}
      /\ coordinator' = [coordinator EXCEPT
           !.active.todo = @ \ batch,
           !.active.entries = Over([p \in taken |-> Read(p)], @),
           !.changed = IF coordinator.complete THEN @ ELSE @ \cup taken]
      /\ update' = IF coordinator.complete \/ present = {} THEN update ELSE More("partial")
      /\ UNCHANGED <<disk, tree, app, phase, abandoned, budget>>

\* Whether the load has all it is to have.
AllRead(load) ==
  /\ load.roots # None /\ load.todo = {}
  /\ DOMAIN load.roots = {} \/ Listed(load.target, load.roots)

\* PresentationEvent::Complete: what the target had and the load did not find is gone.
LoadCompletes ==
  LET load == coordinator.active
      gone == { p \in DOMAIN coordinator.entries \ DOMAIN load.entries :
                  /\ Below(load.target, p)
                  /\ ~ Outside(load.target, load.roots, coordinator.entries[p].scope) }
      fresh == { p \in DOMAIN load.entries :
                   p \in DOMAIN coordinator.entries => coordinator.entries[p] # load.entries[p] }
  IN  /\ Loading
      /\ AllRead(load)
      /\ coordinator' = [coordinator EXCEPT
           !.entries = Over(load.entries, Drop(@, gone)),
           !.owner = Over([p \in DOMAIN load.entries |-> load.target], Drop(@, gone)),
           !.known = load.roots,
           !.pending = @ \/ (coordinator.complete /\ coordinator.known # load.roots),
           !.changed = @ \cup fresh, !.removed = @ \cup gone,
           !.complete = TRUE, !.active = None]
      /\ update' = "complete"
      /\ UNCHANGED <<disk, tree, app, phase, abandoned, budget>>

\* PresentationEvent::Failure, and a loader that is gone.
LoadFails ==
  /\ Loading
  /\ \/ coordinator.active.roots # None /\ coordinator.active.todo = {}
          /\ ~ AllRead(coordinator.active) /\ UNCHANGED budget
     \/ Spend("failures")
  /\ coordinator' = [coordinator EXCEPT !.active = None]
  /\ UNCHANGED <<disk, tree, app, update, phase, abandoned>>

\* The thread of a content request reads the file.
ContentIsRead ==
  /\ phase = "load"
  /\ coordinator.content # None /\ coordinator.content.got = None
  /\ coordinator' = [coordinator EXCEPT
       !.content.got = [doc |-> disk[coordinator.content.path]]]
  /\ UNCHANGED <<disk, tree, app, update, phase, abandoned, budget>>

\* No event of the load is left, and those of the content are next.
Drained ==
  /\ phase = "load"
  /\ phase' = "content"
  /\ UNCHANGED <<disk, tree, coordinator, app, update, abandoned, budget>>

Answering == phase = "content" /\ coordinator.content # None

ContentPends ==
  /\ Answering
  /\ ~ coordinator.content.pended
  /\ coordinator' = [coordinator EXCEPT !.content.pended = TRUE]
  /\ update' = More("content")
  /\ UNCHANGED <<disk, tree, app, phase, abandoned, budget>>

Loaded(c) == DOMAIN c.entries \cup (IF c.active = None THEN {} ELSE DOMAIN c.active.entries)

\* visible_entry
EntryOf(c, p) == IF p \in DOMAIN c.entries THEN c.entries[p] ELSE c.active.entries[p]

ContentArrives ==
  LET content == coordinator.content
      p == content.path
      entry == [doc |-> content.got.doc, scope |-> content.scope, parsed |-> TRUE]
      load == coordinator.active
  IN  /\ Answering
      /\ content.pended /\ content.got # None /\ content.got.doc # None
      /\ coordinator' = [coordinator EXCEPT
           !.entries = Put(@, p, entry),
           !.changed = IF p \in Loaded(coordinator) /\ EntryOf(coordinator, p) = entry THEN @
                       ELSE @ \cup {p},
           !.active = IF load = None \/ p \notin DOMAIN load.entries THEN @
                      ELSE [load EXCEPT !.entries = Put(load.entries, p, entry)],
           !.content = None]
      /\ update' = More("content")
      /\ UNCHANGED <<disk, tree, app, phase, abandoned, budget>>

\* The file is gone, or the session has another handle for it by now.
ContentFails ==
  /\ Answering
  /\ \/ ~ coordinator.content.pended
     \/ coordinator.content.got # None /\ coordinator.content.got.doc = None
  /\ coordinator' = [coordinator EXCEPT !.content = None]
  /\ update' = More("content")
  /\ UNCHANGED <<disk, tree, app, phase, abandoned, budget>>

\* entry_target
TargetOf(c, p) ==
  IF c.complete THEN (IF p \in DOMAIN c.owner THEN c.owner[p] ELSE None)
  ELSE IF c.active # None /\ p \in Loaded(c) /\ p \in DOMAIN c.active.entries THEN c.active.target
  ELSE None

\* request_content: for the record that is selected now, once for each version of it.
Asked(c, p) ==
  LET stayed == [c EXCEPT !.content = IF @ = None THEN @ ELSE IF @.path = p THEN @ ELSE None,
                          !.attempted = IF @ = None THEN @ ELSE IF @.path = p THEN @ ELSE None]
      handle == [target |-> TargetOf(c, p), path |-> p, doc |-> EntryOf(c, p).doc]
  IN  IF p \notin Loaded(c) THEN stayed
      ELSE IF EntryOf(c, p).parsed \/ handle.target = None \/ stayed.attempted = handle THEN stayed
      ELSE [stayed EXCEPT !.attempted = handle,
                          !.content = [path |-> p, scope |-> EntryOf(c, p).scope,
                                       pended |-> FALSE, got |-> None]]

\* take_projection
Taken(c) ==
  [entries |-> [p \in c.changed \cap Loaded(c) |-> EntryOf(c, p)],
   removed |-> c.removed,
   roots |-> IF c.pending THEN c.known ELSE None]

\* apply_projection: the selection is remembered before and found again after a completed load.
Applied(a, taken) ==
  LET anchor == IF a.resumed # None THEN a.resumed ELSE Anchor(a)
      merged == [Merged(a, taken) EXCEPT !.lists = Looked(@, a.browser.filter)]
  IN  CASE update = "complete" -> Promoted(merged, anchor)
        [] update = "partial" -> [merged EXCEPT !.browser = Filled(merged.lists, @)]
        [] OTHER -> merged

\* The rest of a turn up to the key: apply_projection and request_content.
Shows ==
  /\ phase = "content"
  /\ app' = IF update = "none" THEN app ELSE Applied(app, Taken(coordinator))
  /\ LET drained == IF update = "none" THEN coordinator
                    ELSE [coordinator EXCEPT !.changed = {}, !.removed = {}, !.pending = FALSE]
     IN  coordinator' = Asked(drained, app'.browser.path)
  /\ update' = "none"
  /\ phase' = "key"
  /\ UNCHANGED <<disk, tree, abandoned, budget>>

-----------------------------------------------------------------------------
(* The user: App::handle. *)

\* A key that takes the browser elsewhere.
Goes(browser, lists) ==
  /\ phase = "key"
  /\ browser # app.browser
  /\ Spend("keys")
  /\ app' = [app EXCEPT !.browser = browser, !.feedback = None, !.lists = lists]
  /\ phase' = "load"
  /\ UNCHANGED <<disk, tree, coordinator, update, abandoned>>

\* set_view, of which drill_down and go_up are the cases of the next view down and up.
SetsView ==
  \E view \in Views : Goes(Normal(app.lists, [app.browser EXCEPT !.view = view]), app.lists)

\* next_value and navigation_index: by one and round, or to an edge.
Neighbour(selected, list, where) ==
  LET last == Len(list)
      i == PlaceIn(list, selected)
  IN  IF list = <<>> THEN None
      ELSE list[CASE where = "first" -> 1
                  [] where = "last" -> last
                  [] where = "next" -> IF i = last THEN (IF selected = list[i] THEN 1 ELSE i)
                                       ELSE i + 1
                  [] where = "previous" -> IF i > 1 THEN i - 1
                                           ELSE IF selected = list[1] THEN last ELSE 1]

\* select_offset and select_edge
Moved(b, where) ==
  CASE b.view = "projects" ->
         LET project == Neighbour(b.project, VisibleProjects(app.lists, b), where)
         IN  IF project = b.project THEN b
             ELSE Normal(app.lists, [b EXCEPT !.project = project, !.investigation = None,
                                              !.path = None])
    [] b.view = "investigations" ->
         LET investigation == Neighbour(b.investigation, VisibleInvestigations(app.lists, b), where)
         IN  IF investigation = b.investigation THEN b
             ELSE Normal(app.lists, [b EXCEPT !.investigation = investigation])
    [] OTHER -> [b EXCEPT !.path = Neighbour(b.path, VisiblePaths(app.lists, b), where)]

Moves ==
  \E where \in {"first", "last", "next", "previous"} : Goes(Moved(app.browser, where), app.lists)

\* The filter is typed, or cleared.
Filters ==
  \E needle \in (Needles \cup {None}) \ {app.browser.filter} :
    LET looked == Looked(app.lists, needle)
    IN  Goes(Normal(looked, [app.browser EXCEPT !.filter = needle]), looked)

\* refresh_target
CurrentTarget ==
  LET b == app.browser
      roots == IF coordinator.complete THEN coordinator.known
               ELSE IF coordinator.active # None THEN coordinator.active.roots ELSE None
  IN  IF b.project = None THEN Store
      ELSE IF b.view = "projects" THEN [project |-> b.project, investigation |-> None]
      ELSE IF roots = None \/ b.investigation = None THEN Store
      ELSE IF b.project \in DOMAIN roots /\ b.investigation \in roots[b.project]
      THEN [project |-> b.project, investigation |-> b.investigation]
      ELSE Store

\* start_target: whatever is being loaded is given up.
Refreshes ==
  /\ phase = "key"
  /\ Spend("refreshes")
  /\ \E target \in {Store, CurrentTarget} :
       coordinator' = [coordinator EXCEPT !.active = Load(target), !.content = None,
                                          !.attempted = None]
  /\ abandoned' = IF coordinator.complete THEN abandoned ELSE abandoned \cup ShownPaths(app)
  /\ app' = [app EXCEPT !.feedback = None]
  /\ phase' = "load"
  /\ UNCHANGED <<disk, tree, update>>

\* request_edit, and the workbench that starts anew when the editor is left.
Edits ==
  /\ phase = "key"
  /\ app.browser.view \in {"tickets", "files"}
  /\ app.browser.path \in DOMAIN app.lists.at
  /\ app.shown[app.lists.at[app.browser.path]].entry.doc.identity # None
  /\ Spend("edits")
  /\ coordinator' = NewCoordinator
  /\ app' = NoApp(app.browser, Anchor(app))
  /\ abandoned' = {}
  /\ phase' = "load"
  /\ UNCHANGED <<disk, tree, update>>

\* Time passes, or a key that only concerns the detail.
Idles ==
  /\ phase = "key"
  /\ app' \in { app, [app EXCEPT !.feedback = None] }
  /\ phase' = "load"
  /\ UNCHANGED <<disk, tree, coordinator, update, abandoned, budget>>

Next ==
  \/ Changes \/ CatalogueArrives \/ EntriesArrive \/ LoadCompletes \/ LoadFails \/ ContentIsRead
  \/ Drained \/ ContentPends \/ ContentArrives \/ ContentFails \/ Shows
  \/ SetsView \/ Moves \/ Filters \/ Refreshes \/ Edits \/ Idles

Spec == Init /\ [][Next]_vars

-----------------------------------------------------------------------------
(* Properties. *)

\* However updates, removals, refreshes and filters are interleaved, whenever the workbench draws,
\* the lists and indices it keeps by increments are those it would build from what it shows, and
\* once a load has completed it shows every entry as it was loaded.  What it shows beyond that comes
\* from a load that was given up before any had completed.
ShownAsLoaded ==
  phase = "key" =>
    LET lists == app.lists
    IN  /\ DOMAIN app.index = ShownPaths(app)
        /\ \A p \in DOMAIN app.index : app.shown[app.index[p]].path = p
        /\ [lists EXCEPT !.hits = None] = Rebuilt(lists.roots, app.shown)
        /\ lists.hits # None => lists.hits = HitsOf(lists.facts, lists.hits.needle)
        /\ app.cards = CardsOf(lists.roots, app.shown, ShownPaths(app))
        /\ coordinator.complete =>
             /\ lists.roots = coordinator.known
             /\ DOMAIN coordinator.entries \subseteq DOMAIN app.index
             /\ \A p \in DOMAIN coordinator.entries :
                  app.shown[app.index[p]].entry = coordinator.entries[p]
             /\ DOMAIN app.index \ DOMAIN coordinator.entries \subseteq abandoned

\* A completed load never takes the user from the selected record to another one as long as that
\* record is shown in the investigation that stays open, at its path or, if it is not there any
\* more, as the only one with its scope and identity: it is selected, or nothing is and the user is
\* told why.
SelectionFollowsRecord ==
  LET anchor == IF app.resumed # None THEN app.resumed ELSE Anchor(app)
      record == anchor.record
      there == IF record.path \in ShownPaths(app)' THEN {record.path}
               ELSE { p \in ShownPaths(app)' : record.governed # None
                                               /\ GovernedAt(app, p)' = record.governed }
  IN  (/\ update = "complete" /\ update' = "none"
       /\ app.browser.view \in {"tickets", "files"} /\ record # None
       /\ anchor.project = app.browser.project' /\ anchor.investigation = app.browser.investigation'
       /\ there # {}) =>
        \/ there = {app.browser.path'}
        \/ app.browser.path' = None /\ app.feedback' = "ambiguous" /\ \A p \in there : there # {p}
        \/ app.browser.path' = None /\ app.feedback' = "filtered"

SelectionIsFollowed == [][SelectionFollowsRecord]_vars
=============================================================================
