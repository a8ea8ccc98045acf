----------------------------- MODULE Presentation -----------------------------
(***************************************************************************)
(* A presentation session: loads of overlapping targets, each a thread     *)
(* that walks the tree, reads what changed since the last completed load,  *)
(* derives what is shown of it (Projection) and hands it over on a bounded *)
(* channel; clients that receive, cancel or drop; the handles of files     *)
(* whose content is fetched later.  Editors save between any two steps.    *)
(*                                                                         *)
(* The walk, the reads of one scope and the looks at their metadata are a  *)
(* step each: what a load makes of one file depends on that file alone, so *)
(* an edit of another file may as well come before or after all of them.   *)
(***************************************************************************)
EXTENDS Projection, Sequences, Functions

CONSTANTS
  ScopeOf,     \* the scope that owns each path: "root" or an investigation
  Scopes,      \* the scopes in the order a load takes them
  Target,      \* what may be loaded
  Covers,      \* the paths below each target
  Start,       \* the contents that are found first
  Saves,       \* what editors save: a path and its content, or none
  None,        \* no file
  Capacity,    \* PRESENTATION_CHANNEL_CAPACITY
  MaxLoads,    \* bound: loads
  MaxMishaps   \* bound: edits, failed reads and walks, cancelled and dropped streams, together

ASSUME PresentationAssumption ==
  /\ ScopeOf \in [Path -> Range(Scopes)]
  /\ Covers \in [Target -> SUBSET Path]
  /\ \A t \in Target : \A p, q \in Path :
       ScopeOf[p] = ScopeOf[q] /\ p \in Covers[t] => q \in Covers[t]
  /\ Scopes \in Seq(Range(Scopes))
  /\ Capacity \in Nat \ {0}

VARIABLES
  disk,      \* each file: its content and the edit it is from, or None
  scopes,    \* SessionLoadedState.scopes: what was loaded and committed, by scope
  handles,   \* SessionLoadedState.handles: what was received, by target and path
  requests,  \* SessionLoadedState.requests: the last load of each target, if any
  accepted,  \* loads accepted so far (next_order)
  loads,     \* every load by its order, with its worker and its stream
  issued,    \* handles made so far (next_handle)
  edits,     \* edits so far
  mishaps    \* other mishaps so far

session == <<scopes, handles, requests, accepted, issued>>
world == <<disk, edits>>
vars == <<disk, scopes, handles, requests, accepted, loads, issued, edits, mishaps>>

Orders == 1..accepted

\* The values of f, and those of g where f has none: the @@ of TLC, in a form that proofs can open.
Over(f, g) == [x \in DOMAIN f \cup DOMAIN g |-> IF x \in DOMAIN f THEN f[x] ELSE g[x]]

With(x, value, f) == Over([y \in {x} |-> value], f)

Lazy(p) == KindOf[p] = "evidence"

\* Of some scopes, the one a load takes first.
FirstOf(some) ==
  Scopes[CHOOSE i \in DOMAIN Scopes :
           Scopes[i] \in some /\ \A j \in DOMAIN Scopes : Scopes[j] \in some => i <= j]

\* casefile.toml, which a load reads ahead of its walk.
Config == CHOOSE p \in Path : KindOf[p] = "activation"

Places == {"activate", "catalogue", "walk", "scope", "recheck", "entries", "commit", "complete",
           "failure", "done"}

TypeOK ==
  /\ \A p \in Path : disk[p] # None => disk[p].stamp \in 0..edits
  /\ DOMAIN scopes \subseteq Range(Scopes)
  /\ \A s \in DOMAIN scopes :
       /\ DOMAIN scopes[s].facts.files = {p \in DOMAIN scopes[s].found : ~ Lazy(p)}
       /\ \A p \in DOMAIN scopes[s].found :
            ScopeOf[p] = s /\ scopes[s].found[p].handle \in 0..issued
  /\ DOMAIN handles \subseteq {k \in Target \X Path : Lazy(k[2]) /\ k[2] \in Covers[k[1]]}
  /\ \A k \in DOMAIN handles : handles[k].order \in Orders /\ handles[k].handle \in 1..issued
  /\ \A t \in DOMAIN requests : requests[t] \in Orders /\ loads[requests[t]].target = t
  /\ \A n \in Orders :
       /\ loads[n].at \in Places
       /\ Len(loads[n].channel) <= Capacity

Init ==
  /\ \E start \in Start :
       disk = [p \in Path |-> IF p \in DOMAIN start THEN [content |-> start[p], stamp |-> 0] ELSE None]
  /\ scopes = <<>>
  /\ handles = <<>>
  /\ requests = <<>>
  /\ accepted = 0
  /\ loads = <<>>
  /\ issued = 0
  /\ edits = 0
  /\ mishaps = 0

\* SessionLoadedState::current
Current(n) == loads[n].target \in DOMAIN requests /\ requests[loads[n].target] = n /\ ~ loads[n].cancelled

\* targets_overlap: one root contains the other.
Overlap(t, u) == Covers[t] \cap Covers[u] # {}

\* One load changes and the others do not.
Becomes(n, load) == loads' = [loads EXCEPT ![n] = load]

Mishap == edits + mishaps < MaxMishaps /\ mishaps' = mishaps + 1

-----------------------------------------------------------------------------
(* Editors. *)

Edit ==
  /\ edits + mishaps < MaxMishaps
  /\ \E save \in Saves :
       /\ disk[save.path] = None => save.content # None
       /\ disk' = [disk EXCEPT ![save.path] =
                     IF save.content = None THEN None
                     ELSE [content |-> save.content, stamp |-> edits + 1]]
       /\ disk[save.path] # None => disk[save.path].content # save.content
  /\ edits' = edits + 1
  /\ loads' = [n \in Orders |-> [loads[n] EXCEPT !.quiet = FALSE]]
  /\ UNCHANGED <<session, mishaps>>

-----------------------------------------------------------------------------
(* Clients. *)

\* A load as it starts.
Started(t) ==
  [target |-> t, at |-> "activate", cancelled |-> FALSE, known |-> FALSE, token |-> FALSE,
   parking |-> FALSE, stream |-> "opening", channel |-> <<>>, taken |-> <<>>, told |-> {},
   complete |-> FALSE, committed |-> FALSE, quiet |-> TRUE, active |-> None, found |-> <<>>,
   todo |-> {}, previous |-> None, read |-> <<>>, pending |-> <<>>]

\* unpark, which a thread that has ended does not notice.
Woken(load) == [load EXCEPT !.token = load.at # "done"]

\* Mutant: whoever cancels leaves it to the client to wake the thread.
CancelledAsleep(load) == [load EXCEPT !.cancelled = TRUE]

\* A load that another one supersedes: its thread is woken if the session knows it.
Superseded(load) ==
  [IF load.known THEN Woken(load) ELSE load EXCEPT !.cancelled = TRUE]

\* PresentationSession::load up to the start of the thread.
Accepts(t) ==
  LET order == accepted + 1
      Older(n) == \E u \in DOMAIN requests : requests[u] = n /\ Overlap(t, u)
  IN  /\ accepted < MaxLoads
      /\ accepted' = order
      /\ loads' = [n \in 1..order |-> IF n = order THEN Started(t)
                                     ELSE IF Older(n) THEN Superseded(loads[n]) ELSE loads[n]]
      /\ requests' = With(t, order, requests)
      /\ UNCHANGED <<world, scopes, handles, issued, mishaps>>

\* The rest of load: the session gets to know the thread, unless a later load of the same target
\* took its place, and a load that was cancelled meanwhile is woken here.
Opens(n) ==
  /\ loads[n].stream = "opening"
  /\ Becomes(n, [IF loads[n].cancelled THEN Woken(loads[n]) ELSE loads[n] EXCEPT
                   !.stream = "open",
                   !.known = loads[n].target \in DOMAIN requests /\ requests[loads[n].target] = n])
  /\ UNCHANGED <<world, session, mishaps>>

\* recv and try_recv: an event is taken and the thread is woken.  Events that concern no handle
\* need no further step.
Receives(n) ==
  /\ loads[n].stream = "open" /\ loads[n].taken = <<>> /\ loads[n].channel # <<>>
  /\ LET event == Head(loads[n].channel)
     IN  Becomes(n, [Woken(loads[n]) EXCEPT
           !.taken = IF event.what = "complete" \/ event.entries # {} THEN <<event>> ELSE <<>>,
           !.channel = Tail(@)])
  /\ UNCHANGED <<world, session, mishaps>>

\* register_handles, and the removal of what a complete load did not tell again.
Registered(n, event) ==
  LET t == loads[n].target
      newer == { k \in DOMAIN handles : handles[k].order > n }
      told == { <<t, e.path>> : e \in event.entries } \ newer
  IN  IF event.what = "complete"
      THEN Restrict(handles, { k \in DOMAIN handles : k[1] = t => handles[k].order >= n })
      ELSE Over([k \in told |->
                   [order |-> n,
                    handle |-> (CHOOSE e \in event.entries : e.path = k[2]).handle]],
                handles)

\* The rest of recv: register_received_handles.
Registers(n) ==
  /\ loads[n].taken # <<>>
  /\ LET event == Head(loads[n].taken)
     IN  /\ handles' = IF Current(n) THEN Registered(n, event) ELSE handles
         /\ Becomes(n, [loads[n] EXCEPT
              !.taken = <<>>,
              !.told = IF Current(n) THEN @ \cup event.entries ELSE {},
              !.complete = @ \/ (event.what = "complete" /\ Current(n))])
  /\ UNCHANGED <<world, scopes, requests, accepted, issued, mishaps>>

\* select_emitted: whether a request for the content of p with this handle is answered.
Selects(t, p, handle) == <<t, p>> \in DOMAIN handles /\ handles[<<t, p>>].handle = handle

\* PresentationStream::cancel
Cancels(n) ==
  /\ loads[n].stream = "open" /\ loads[n].taken = <<>> /\ ~ loads[n].cancelled
  /\ Mishap
  /\ Becomes(n, [Woken(loads[n]) EXCEPT !.cancelled = TRUE])
  /\ UNCHANGED <<world, session>>

\* The stream is dropped: cancelled, forgotten, and its channel is gone.
Drops(n) ==
  /\ loads[n].stream = "open" /\ loads[n].taken = <<>>
  /\ Mishap
  /\ Becomes(n, [Woken(loads[n]) EXCEPT !.cancelled = TRUE, !.stream = "dropped", !.channel = <<>>])
  /\ requests' = Restrict(requests, {t \in DOMAIN requests : requests[t] # n})
  /\ UNCHANGED <<world, scopes, handles, accepted, issued>>

-----------------------------------------------------------------------------
(* The loader: run_load. *)

\* What only the thread knew is gone.
Emptied(load) ==
  [load EXCEPT !.active = None, !.found = <<>>, !.todo = {}, !.previous = None, !.read = <<>>,
               !.pending = <<>>]

Finished(load) == [Emptied(load) EXCEPT !.at = "done", !.parking = FALSE, !.token = FALSE]

Full(n) == Len(loads[n].channel) = Capacity

\* send_bounded: the load is over if nobody wants the event, and the thread parks if the channel
\* is full.  After the event the load goes on as sent.
Sends(n, event, sent) ==
  /\ ~ loads[n].parking
  /\ Becomes(n, IF loads[n].cancelled \/ loads[n].stream = "dropped" THEN Finished(loads[n])
                ELSE IF Full(n) THEN [loads[n] EXCEPT !.parking = TRUE]
                ELSE [sent EXCEPT !.channel = Append(@, event)])
  /\ UNCHANGED <<world, session, mishaps>>

Event(what) == [what |-> what, entries |-> {}]

\* park returns.
Wakes(n) ==
  /\ loads[n].parking /\ loads[n].token
  /\ Becomes(n, [loads[n] EXCEPT !.parking = FALSE, !.token = FALSE])
  /\ UNCHANGED <<world, session, mishaps>>

\* check_cancelled, wherever it stands: the error is not sent to anyone.
Notices(n) ==
  /\ loads[n].cancelled
  /\ loads[n].at \in {"walk", "scope", "recheck", "commit"}
  /\ Becomes(n, Finished(loads[n]))
  /\ UNCHANGED <<world, session, mishaps>>

\* reader.activation(): what casefile.toml activates, or nothing.
Activates(n) ==
  /\ loads[n].at = "activate"
  /\ Becomes(n, [loads[n] EXCEPT
       !.at = "catalogue",
       !.active = IF disk[Config] = None \/ ~ disk[Config].content.ok THEN None
                  ELSE disk[Config].content.says])
  /\ UNCHANGED <<world, session, mishaps>>

\* The catalogue goes first, and is all there is of a store that is not active.
SendsCatalogue(n) ==
  /\ loads[n].at = "catalogue"
  /\ Sends(n, Event("catalogue"),
           [loads[n] EXCEPT !.at = IF loads[n].active = None THEN "complete" ELSE "walk"])

\* Mutant: every walk makes new handles.
NewHandle(p) == TRUE

\* A lazy file keeps the handle of the last completed load if it is as it was.
HandleLost(p) ==
  \/ ScopeOf[p] \notin DOMAIN scopes
  \/ p \notin DOMAIN scopes[ScopeOf[p]].found
  \/ scopes[ScopeOf[p]].found[p].stamp # disk[p].stamp

\* collect_descriptors
Walks(n) ==
  LET paths == {p \in Covers[loads[n].target] : disk[p] # None}
      fresh == {p \in paths : Lazy(p) /\ HandleLost(p)}
      Handle(p) == IF ~ Lazy(p) THEN 0
                   ELSE IF p \in fresh THEN issued + 1
                   ELSE scopes[ScopeOf[p]].found[p].handle
      todo == {ScopeOf[p] : p \in paths}
  IN  /\ loads[n].at = "walk"
      /\ issued' = IF fresh = {} THEN issued ELSE issued + 1
      /\ Becomes(n, [loads[n] EXCEPT
           !.at = IF todo = {} THEN "commit" ELSE "scope",
           !.found = [p \in paths |-> [stamp |-> disk[p].stamp, handle |-> Handle(p)]],
           !.todo = todo])
      /\ UNCHANGED <<world, scopes, handles, requests, accepted, mishaps>>

\* project_context
Context(load, s) ==
  IF \E p \in DOMAIN load.found : ScopeOf[p] = s /\ KindOf[p] = "map" THEN load.active ELSE {}

FoundIn(load, s) == Restrict(load.found, {p \in DOMAIN load.found : ScopeOf[p] = s})

Previous(s) ==
  IF s \in DOMAIN scopes THEN scopes[s]
  ELSE [facts |-> Nothing, found |-> <<>>, reusable |-> FALSE, context |-> {}]

\* A scope in which every file is where and as it was is taken over whole.
Unchanged(n, s) ==
  /\ Previous(s).reusable
  /\ Previous(s).context = Context(loads[n], s)
  /\ DOMAIN Previous(s).found = DOMAIN FoundIn(loads[n], s)
  /\ \A p \in DOMAIN FoundIn(loads[n], s) : Previous(s).found[p].stamp = loads[n].found[p].stamp

Reuses(n) ==
  /\ loads[n].at = "scope"
  /\ Unchanged(n, FirstOf(loads[n].todo))
  /\ LET s == FirstOf(loads[n].todo)
     IN  Becomes(n, [loads[n] EXCEPT !.at = "entries", !.pending = With(s, Previous(s), @)])
  /\ UNCHANGED <<world, session, mishaps>>

\* Mutant: a file is read again only if its metadata are others.
RereadOnlyChanged(n, s, p) ==
  \/ p \notin DOMAIN Previous(s).facts.files
  \/ p \notin DOMAIN Previous(s).found
  \/ Previous(s).found[p].stamp # loads[n].found[p].stamp
  \/ KindOf[p] = "map" /\ Previous(s).context # Context(loads[n], s)

\* load_scope: what cannot be taken from the last completed load.
Reread(n, s, p) ==
  \/ p \notin DOMAIN Previous(s).facts.files
  \/ p \notin DOMAIN Previous(s).found
  \/ Previous(s).found[p].stamp # loads[n].found[p].stamp
  \/ KindOf[p] = "map" /\ Previous(s).context # Context(loads[n], s)
  \/ Previous(s).facts.files[p].retry

\* The files of the next scope are read, but for those of failing.
Reads(n, failing) ==
  LET s == FirstOf(loads[n].todo)
      again == {p \in DOMAIN FoundIn(loads[n], s) : ~ Lazy(p) /\ Reread(n, s, p)}
  IN  /\ loads[n].at = "scope"
      /\ ~ Unchanged(n, s)
      /\ failing \subseteq again
      /\ Becomes(n, [loads[n] EXCEPT
           !.at = "recheck",
           !.quiet = @ /\ failing = {},
           !.previous = Previous(s),
           !.read = [p \in again |->
                       IF p \in failing THEN [outcome |-> "failed", content |-> None]
                       ELSE IF disk[p] = None THEN [outcome |-> "gone", content |-> None]
                       ELSE [outcome |-> "read", content |-> disk[p].content]]])

ReadsScope(n) ==
  /\ Reads(n, {})
  /\ UNCHANGED <<world, session, mishaps>>

ReadFails(n) ==
  /\ Mishap
  /\ \E p \in Path : Reads(n, {p})
  /\ UNCHANGED <<world, session>>

\* classify_facts and parsed_file.  The activation record lists what the load found activated, and
\* a project map must map all of that.
ParsedFile(p, content, active, retry) ==
  LET governed == content.ok /\ (KindOf[p] = "map" => active \subseteq content.says)
  IN  [governed |-> governed,
       says |-> IF ~ governed THEN None
                ELSE IF KindOf[p] = "activation" THEN active ELSE content.says,
       own |-> IF governed THEN {} ELSE {<<p, "parse">>},
       retry |-> retry]

\* A file that could not be read stays as it was, with a diagnostic.
UnreadFile(previous, p) ==
  IF p \in DOMAIN previous.facts.files
  THEN [previous.facts.files[p] EXCEPT !.own = @ \cup {<<p, "read">>}, !.retry = TRUE]
  ELSE [governed |-> FALSE, says |-> None, own |-> {<<p, "read">>}, retry |-> TRUE]

\* Files that vanished between the walk and the read.
Vanished(read) == {p \in DOMAIN read : read[p].outcome = "gone"}

\* The rest of load_scope: the metadata of what was read are looked at again, and the scope is
\* derived.
LoadedScope(load, s) ==
  LET read == load.read
      previous == load.previous
      kept == DOMAIN FoundIn(load, s) \ Vanished(read)
      looked == {p \in DOMAIN read : read[p].outcome = "read" /\ disk[p] # None}
      raced == {p \in looked : disk[p].stamp # load.found[p].stamp}
      files == [p \in {p \in kept : ~ Lazy(p)} |->
                  IF p \notin DOMAIN read THEN previous.facts.files[p]
                  ELSE IF read[p].outcome = "read"
                  THEN ParsedFile(p, read[p].content, load.active, p \in raced)
                  ELSE UnreadFile(previous, p)]
  IN  [facts |-> Projected(files, previous.facts, DOMAIN read \cap DOMAIN files),
       found |-> [p \in kept |-> IF p \in looked
                                 THEN [load.found[p] EXCEPT !.stamp = disk[p].stamp]
                                 ELSE load.found[p]],
       reusable |-> raced = {} /\ \A p \in DOMAIN read : read[p].outcome # "failed",
       context |-> Context(load, s)]

Rechecks(n) ==
  /\ loads[n].at = "recheck"
  /\ LET s == FirstOf(loads[n].todo)
     IN  Becomes(n, [loads[n] EXCEPT !.at = "entries", !.previous = None, !.read = <<>>,
                                     !.pending = With(s, LoadedScope(loads[n], s), @)])
  /\ UNCHANGED <<world, session, mishaps>>

\* The entries of the scope, if there are any; handles come with the lazy ones.
SendsEntries(n) ==
  LET s == FirstOf(loads[n].todo)
      found == loads[n].pending[s].found
      next == [loads[n] EXCEPT !.todo = @ \ {s},
                               !.at = IF loads[n].todo = {s} THEN "commit" ELSE "scope"]
      entries == { [path |-> p, handle |-> found[p].handle, stamp |-> found[p].stamp] :
                     p \in {p \in DOMAIN found : Lazy(p)} }
  IN  /\ loads[n].at = "entries" /\ ~ loads[n].parking
      /\ IF DOMAIN found = {}
         THEN Becomes(n, next) /\ UNCHANGED <<world, session, mishaps>>
         ELSE Sends(n, [what |-> "entries", entries |-> entries], next)

\* Mutant: only the handles of the target that was loaded are looked through.
StaleHereOnly(n, k) == k[1] = loads[n].target

\* Handles of whatever view below the target are dropped if the load found another one or none.
Affected(n, k) == k[2] \in Covers[loads[n].target]

FoundNow(n) == UNION { {<<p, loads[n].pending[s].found[p].handle>> : p \in DOMAIN loads[n].pending[s].found} :
                       s \in DOMAIN loads[n].pending }

\* All scopes together become what the session holds, unless the load is no longer the current one.
Commits(n) ==
  LET pending == loads[n].pending
      Left(s) == \E p \in DOMAIN scopes[s].found : p \in Covers[loads[n].target]
  IN  /\ loads[n].at = "commit"
      /\ IF ~ Current(n)
         THEN Becomes(n, Finished(loads[n])) /\ UNCHANGED <<scopes, handles>>
         ELSE /\ scopes' = Over(pending, Restrict(scopes, {s \in DOMAIN scopes : ~ Left(s)}))
              /\ handles' = Restrict(handles, { k \in DOMAIN handles :
                                ~ Affected(n, k) \/ <<k[2], handles[k].handle>> \in FoundNow(n) })
              /\ Becomes(n, [Emptied(loads[n]) EXCEPT !.at = "complete", !.committed = TRUE])
      /\ UNCHANGED <<world, requests, accepted, issued, mishaps>>

SendsComplete(n) ==
  /\ loads[n].at = "complete"
  /\ Sends(n, Event("complete"), Finished(loads[n]))

\* An error of the activation or the walk, or a target that the activation does not list.
Breaks(n) ==
  /\ loads[n].at \in {"activate", "walk"}
  /\ Mishap
  /\ Becomes(n, [Emptied(loads[n]) EXCEPT !.at = "failure"])
  /\ UNCHANGED <<world, session>>

SendsFailure(n) ==
  /\ loads[n].at = "failure"
  /\ Sends(n, Event("failure"), Finished(loads[n]))

Works(n) ==
  \/ Wakes(n) \/ Notices(n) \/ Activates(n) \/ SendsCatalogue(n) \/ Walks(n) \/ Reuses(n)
  \/ ReadsScope(n) \/ Rechecks(n) \/ SendsEntries(n) \/ Commits(n) \/ SendsComplete(n)
  \/ SendsFailure(n)

-----------------------------------------------------------------------------
Next ==
  \/ Edit
  \/ \E t \in Target : Accepts(t)
  \/ \E n \in Orders :
       \/ Works(n) \/ ReadFails(n) \/ Breaks(n)
       \/ Opens(n) \/ Receives(n) \/ Registers(n) \/ Cancels(n) \/ Drops(n)

Spec == Init /\ [][Next]_vars

-----------------------------------------------------------------------------
(* Properties. *)

\* What is shown of the files of a scope is what follows from them all, however few of them were
\* read again: nothing that project_scope keeps of the previous load contradicts a file it shows.
FactsAsFromScratch ==
  \A s \in DOMAIN scopes : scopes[s].facts.shown = Derived(scopes[s].facts.files)

\* What a load made of p is what it makes of the content of p when this is activated.
Reflects(p, file, content, active) ==
  LET now == ParsedFile(p, content, active, FALSE)
  IN  /\ file.governed = now.governed /\ file.own = now.own
      /\ KindOf[p] # "activation" => file.says = now.says

\* A load during which no editor saved and no read failed leaves the store as it is on disk in the
\* session, whatever edits and failures the loads before it ran into.  Only the list of projects
\* in casefile.toml may be old, which is read ahead of the walk and looked at by no stamp.
QuietLoadIsCurrent ==
  \A n \in Orders :
    (loads[n].committed /\ loads[n].quiet
       /\ \A m \in Orders : m > n /\ loads[m].committed => ~ Overlap(loads[m].target, loads[n].target)) =>
      \A p \in Covers[loads[n].target] :
        LET s == ScopeOf[p]
            held == s \in DOMAIN scopes /\ p \in DOMAIN scopes[s].found
        IN  /\ held <=> disk[p] # None
            /\ held /\ ~ Lazy(p) =>
                 Reflects(p, scopes[s].facts.files[p], disk[p].content, disk[Config].content.says)

\* A load of the same target as n that was received to the end after n and found no active store:
\* it told the client of no file at all.
FoundInactive(n) ==
  \E m \in Orders : /\ m > n /\ loads[m].target = loads[n].target
                   /\ loads[m].complete /\ ~ loads[m].committed

\* A handle that still resolves is the one the last completed load gave the file, or that of a load
\* that was accepted after it: no load of another target and no late event brings back an old one.
\* And a client that was told a file's handle by a load it received to the end can fetch the content
\* with it as long as the file is as it was, whatever else is loaded meanwhile, unless it was told
\* since that the store is not active.
HandlesExact ==
  /\ \A k \in DOMAIN handles :
       LET s == ScopeOf[k[2]]
           Completed(n) == loads[n].committed /\ k[2] \in Covers[loads[n].target]
       IN  \/ \A n \in Orders : Completed(n) => n < handles[k].order
           \/ /\ s \in DOMAIN scopes /\ k[2] \in DOMAIN scopes[s].found
              /\ scopes[s].found[k[2]].handle = handles[k].handle
  /\ \A n \in Orders :
       loads[n].complete /\ ~ FoundInactive(n) =>
         \A e \in loads[n].told :
           disk[e.path] # None /\ disk[e.path].stamp = e.stamp =>
             Selects(loads[n].target, e.path, e.handle)

\* A thread that sleeps on a full channel is sure to be woken: either load is about to return the
\* stream, or its client holds it, has events to receive and has not cancelled.  No order of
\* superseding, returning, cancelling and dropping leaves a thread asleep with nobody to wake it.
SleepersAreWoken ==
  \A n \in Orders :
    loads[n].parking /\ ~ loads[n].token =>
      /\ loads[n].channel # <<>>
      /\ loads[n].stream = "opening" \/ (loads[n].stream = "open" /\ ~ loads[n].cancelled)
=============================================================================
