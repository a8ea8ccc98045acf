-------------------------- MODULE PresentationProofs --------------------------
(***************************************************************************)
(* For any store, targets and channel capacity, and any number of loads:   *)
(* a thread that sleeps is sure to be woken, what is shown of a scope      *)
(* follows from its files, whatever of it was kept from the load before    *)
(* (Projection), a load that nothing disturbed leaves the session as the   *)
(* disk is, and the handles that resolve are the right ones.               *)
(***************************************************************************)
EXTENDS Presentation, TLAPS, SequenceTheorems, WellFoundedInduction

-----------------------------------------------------------------------------
(* What project_scope keeps of a previous load is what it would derive     *)
(* anew: for any files, any previous load that is itself sound, and any    *)
(* set of files that were read again and contains all that differ, the     *)
(* entries are those derived from the files alone.                         *)

\* A loaded scope whose facts and entries are those of its files.
Sound(scope) ==
  /\ scope.known
  /\ DOMAIN scope.files \subseteq Path
  /\ scope.shown = Derived(scope.files)
  /\ scope.progress = ProgressFaults(scope.files)
  /\ scope.binding = BindingFaults(scope.files)
  /\ scope.cards = Cards(scope.files, ProgressOf(scope.files, ProgressFaults(scope.files)))

\* What was not read again is as it was in the previous load.
KeptFrom(files, previous, changed) ==
  /\ DOMAIN files \subseteq Path
  /\ changed \subseteq DOMAIN files
  /\ \A p \in DOMAIN files \ changed : p \in DOMAIN previous.files /\ files[p] = previous.files[p]

-----------------------------------------------------------------------------
\* What is kept from no facts at all is nothing: every file is a changed one.
LEMMA NothingIsKept ==
  ASSUME NEW files, NEW facts, NEW changed,
         facts = Nothing,
         KeptFrom(files, facts, changed)
  PROVE  ~ facts.known /\ changed = DOMAIN files
<1>1. ~ facts.known /\ DOMAIN facts.files = {}
  BY DEF Nothing
<1>2. changed \subseteq DOMAIN files /\ DOMAIN files \ changed = {}
  BY <1>1 DEF KeptFrom
<1> QED BY <1>1, <1>2

\* The logs and what they depend on in the tickets are the same files, saying the same.
LEMMA LogsAsBefore ==
  ASSUME NEW files, NEW previous, NEW changed,
         KeptFrom(files, previous, changed),
         DOMAIN previous.files \subseteq Path,
         ~ MembershipChanged(files, previous, changed)
  PROVE  /\ Of("log", files) = Of("log", previous.files)
         /\ \A log \in Of("log", files) : files[log] = previous.files[log]
         /\ Parsed("log", files) = Parsed("log", previous.files)
         /\ Accepted(files) = Accepted(previous.files)
         /\ Of("ticket", files) = Of("ticket", previous.files)
         /\ \A p \in Of("ticket", files) : StatusOf(files[p]) = StatusOf(previous.files[p])
<1>1. /\ Of("log", files) = Of("log", previous.files)
      /\ \A log \in Of("log", files) : files[log] = previous.files[log]
  BY DEF KeptFrom, MembershipChanged, Of
<1>2. Parsed("log", files) = Parsed("log", previous.files)
  BY <1>1 DEF Parsed
<1>3. ASSUME NEW p \in Path, KindOf[p] = "ticket"
      PROVE  /\ p \in DOMAIN files <=> p \in DOMAIN previous.files
             /\ p \in DOMAIN files =>
                  /\ files[p].governed = previous.files[p].governed
                  /\ StatusOf(files[p]) = StatusOf(previous.files[p])
  BY <1>3 DEF KeptFrom, MembershipChanged, Membership
<1>4. Accepted(files) = Accepted(previous.files)
  BY <1>3 DEF Accepted, Parsed, Of, StatusOf, KeptFrom
<1>5. Of("ticket", files) = Of("ticket", previous.files)
  BY <1>3 DEF Of, KeptFrom
<1>6. \A p \in Of("ticket", files) : StatusOf(files[p]) = StatusOf(previous.files[p])
  BY <1>3 DEF Of, KeptFrom
<1> QED BY <1>1, <1>2, <1>4, <1>5, <1>6

\* So the log's faults are the same.
LEMMA FaultsAsBefore ==
  ASSUME NEW files, NEW previous, NEW changed,
         KeptFrom(files, previous, changed),
         DOMAIN previous.files \subseteq Path,
         ~ MembershipChanged(files, previous, changed)
  PROVE  ProgressFaults(files) = ProgressFaults(previous.files)
<1> DEFINE Fault(all, log, p) == <<log, p, IF p \in Of("ticket", all) THEN StatusOf(all[p]) ELSE "missing">>
           Faults(all, log) == {Fault(all, log, p) : p \in DOMAIN all[log].says \ Accepted(all)}
<1>1. ASSUME NEW log \in Parsed("log", files)
      PROVE  Faults(files, log) = Faults(previous.files, log)
  <2>1. files[log] = previous.files[log]
    BY LogsAsBefore DEF Parsed
  <2>2. DOMAIN files[log].says \ Accepted(files)
          = DOMAIN previous.files[log].says \ Accepted(previous.files)
    BY <2>1, LogsAsBefore
  <2>3. ASSUME NEW p \in DOMAIN files[log].says
        PROVE  Fault(files, log, p) = Fault(previous.files, log, p)
    BY LogsAsBefore
  <2> QED BY <2>1, <2>2, <2>3
<1>2. Parsed("log", files) = Parsed("log", previous.files)
  BY LogsAsBefore
<1> HIDE DEF Faults
<1>3. {Faults(files, log) : log \in Parsed("log", files)}
        = {Faults(previous.files, log) : log \in Parsed("log", previous.files)}
  BY <1>1, <1>2
<1> QED BY <1>3 DEF ProgressFaults, Faults

\* And what is left unread, or was never there, shows the progress it showed.
LEMMA ProgressAsBefore ==
  ASSUME NEW files, NEW previous, NEW changed, NEW faults,
         KeptFrom(files, previous, changed),
         DOMAIN previous.files \subseteq Path,
         ~ MembershipChanged(files, previous, changed),
         NEW p \in DOMAIN files
  PROVE  TicketProgress(files, faults, p) = TicketProgress(previous.files, faults, p)
<1>1. LogInvalid(files, faults) <=> LogInvalid(previous.files, faults)
  BY LogsAsBefore DEF LogInvalid
<1> DEFINE Telling(all) == {log \in Parsed("log", all) : p \in DOMAIN all[log].says}
           Told(all) == {all[log].says[p] : log \in Telling(all)}
<1>2. \A log \in Parsed("log", files) : files[log] = previous.files[log]
  BY LogsAsBefore DEF Parsed
<1>3. Telling(files) = Telling(previous.files)
  BY <1>2, LogsAsBefore
<1>4. Told(files) = Told(previous.files)
  BY <1>2, <1>3
<1>5. p \in Accepted(files) <=> p \in Accepted(previous.files)
  BY LogsAsBefore
<1> HIDE DEF Told
<1>6. TicketProgress(files, faults, p) =
        IF p \notin Accepted(files) \/ LogInvalid(files, faults) THEN "none"
        ELSE IF Told(files) = {} THEN "unknown" ELSE Only(Told(files))
  BY DEF TicketProgress, Told
<1>7. TicketProgress(previous.files, faults, p) =
        IF p \notin Accepted(previous.files) \/ LogInvalid(previous.files, faults) THEN "none"
        ELSE IF Told(previous.files) = {} THEN "unknown" ELSE Only(Told(previous.files))
  BY DEF TicketProgress, Told
<1> QED BY <1>1, <1>4, <1>5, <1>6, <1>7

-----------------------------------------------------------------------------
\* The strategies and the bindings are the same files, saying the same.
LEMMA BindingsAsBefore ==
  ASSUME NEW files, NEW previous, NEW changed,
         KeptFrom(files, previous, changed),
         DOMAIN previous.files \subseteq Path,
         ~ BindingChanged(files, previous, changed)
  PROVE  /\ Of("binding", files) = Of("binding", previous.files)
         /\ \A b \in Of("binding", files) : files[b] = previous.files[b]
         /\ Parsed("binding", files) = Parsed("binding", previous.files)
         /\ Parsed("strategy", files) = Parsed("strategy", previous.files)
         /\ \A s \in Parsed("strategy", files) : files[s] = previous.files[s]
<1>1. /\ Of("binding", files) = Of("binding", previous.files)
      /\ \A b \in Of("binding", files) : files[b] = previous.files[b]
  BY DEF KeptFrom, BindingChanged, Of
<1>2. Parsed("binding", files) = Parsed("binding", previous.files)
  BY <1>1 DEF Parsed
<1>3. ASSUME NEW s \in Parsed("strategy", files)
      PROVE  s \in Parsed("strategy", previous.files) /\ files[s] = previous.files[s]
  BY DEF KeptFrom, BindingChanged, Of, Parsed
<1>4. ASSUME NEW s \in Parsed("strategy", previous.files)
      PROVE  s \in Parsed("strategy", files)
  BY DEF KeptFrom, BindingChanged, Of, Parsed
<1> QED BY <1>1, <1>2, <1>3, <1>4

LEMMA BindingFaultsAsBefore ==
  ASSUME NEW files, NEW previous, NEW changed,
         KeptFrom(files, previous, changed),
         DOMAIN previous.files \subseteq Path,
         ~ BindingChanged(files, previous, changed)
  PROVE  BindingFaults(files) = BindingFaults(previous.files)
<1> DEFINE Unfit(all, b) == {s \in Parsed("strategy", all) :
                               Resolved(all[s].says, all[b].says) = "unresolved"}
           Reason(all, b, s) == IF all[b].says # all[s].says.adapter THEN "adapter" ELSE "writers"
           Faults(all, b) == {<<b, b, Reason(all, b, s)>> : s \in Unfit(all, b)}
<1>1. ASSUME NEW b \in Parsed("binding", files)
      PROVE  Faults(files, b) = Faults(previous.files, b)
  <2>1. files[b] = previous.files[b]
    BY BindingsAsBefore DEF Parsed
  <2>2. Unfit(files, b) = Unfit(previous.files, b)
    BY <2>1, BindingsAsBefore
  <2>3. ASSUME NEW s \in Unfit(files, b)
        PROVE  Reason(files, b, s) = Reason(previous.files, b, s)
    BY <2>1, BindingsAsBefore
  <2> HIDE DEF Unfit, Reason
  <2> QED BY <2>2, <2>3
<1>2. Parsed("binding", files) = Parsed("binding", previous.files)
  BY BindingsAsBefore
<1> HIDE DEF Faults
<1>3. {Faults(files, b) : b \in Parsed("binding", files)}
        = {Faults(previous.files, b) : b \in Parsed("binding", previous.files)}
  BY <1>1, <1>2
<1> QED BY <1>3 DEF BindingFaults, Faults

LEMMA BindingStateAsBefore ==
  ASSUME NEW files, NEW previous, NEW changed,
         KeptFrom(files, previous, changed),
         DOMAIN previous.files \subseteq Path,
         ~ BindingChanged(files, previous, changed),
         NEW p \in DOMAIN files
  PROVE  BindingState(files, p) = BindingState(previous.files, p)
<1>1. ASSUME Of("binding", files) # {}
      PROVE  Only(Of("binding", files)) \in Of("binding", files)
  BY <1>1 DEF Only
<1>2. ASSUME Parsed("strategy", files) # {}
      PROVE  Only(Parsed("strategy", files)) \in Parsed("strategy", files)
  BY <1>2 DEF Only
<1>3. CASE p \in Parsed("strategy", files)
  BY <1>1, <1>3, BindingsAsBefore DEF BindingState
<1>4. CASE p \notin Parsed("strategy", files) /\ p \in Parsed("binding", files)
  <2>1. files[p] = previous.files[p]
    BY <1>4, BindingsAsBefore DEF Parsed
  <2> QED BY <1>2, <1>4, <2>1, BindingsAsBefore DEF BindingState
<1>5. CASE p \notin Parsed("strategy", files) /\ p \notin Parsed("binding", files)
  BY <1>5, BindingsAsBefore DEF BindingState
<1> QED BY <1>3, <1>4, <1>5

-----------------------------------------------------------------------------
\* The boards, the tickets and the progress shown of these are the same, and so are the cards.
LEMMA CardsAsBefore ==
  ASSUME NEW files, NEW previous, NEW progress, NEW before,
         ~ BoardsChanged(files, previous, progress),
         \A p \in DOMAIN previous.files : previous.shown[p].progress = before[p]
  PROVE  Cards(files, progress) = Cards(previous.files, before)
<1> DEFINE On(all) == Parsed("board", all) \cup Parsed("ticket", all)
<1>1. ASSUME NEW p \in On(files)
      PROVE  /\ p \in On(previous.files)
             /\ files[p].governed = previous.files[p].governed
             /\ files[p].says = previous.files[p].says
             /\ progress[p] = before[p]
  BY <1>1 DEF BoardsChanged, Carded, Parsed, Of
<1>2. ASSUME NEW p \in On(previous.files)
      PROVE  p \in On(files)
  BY DEF BoardsChanged, Carded, Parsed, Of
<1>3. /\ Parsed("board", files) = Parsed("board", previous.files)
      /\ Parsed("ticket", files) = Parsed("ticket", previous.files)
  BY <1>1, <1>2 DEF Parsed, Of
<1> DEFINE Group(all, shown, b, p) == IF all[b].says = "progress" THEN shown[p] ELSE all[p].says.status
           On1(all, shown, b) == {p \in Parsed("ticket", all) :
                                    all[b].says = "progress" => shown[p] # "none"}
           Deck(all, shown, b) == {<<p, all[p].says.title, Group(all, shown, b, p)>> :
                                     p \in On1(all, shown, b)}
<1>4. ASSUME NEW b \in Parsed("board", files)
      PROVE  Deck(files, progress, b) = Deck(previous.files, before, b)
  <2>1. files[b].says = previous.files[b].says
    BY <1>1
  <2>2. On1(files, progress, b) = On1(previous.files, before, b)
    BY <1>1, <1>3, <2>1
  <2>3. ASSUME NEW p \in On1(files, progress, b)
        PROVE  /\ Group(files, progress, b, p) = Group(previous.files, before, b, p)
               /\ files[p].says.title = previous.files[p].says.title
    BY <1>1, <2>1
  <2> HIDE DEF Group, On1
  <2> QED BY <2>2, <2>3
<1>5. Cards(files, progress) = [b \in Parsed("board", files) |-> Deck(files, progress, b)]
  BY DEF Cards
<1>6. Cards(previous.files, before)
        = [b \in Parsed("board", previous.files) |-> Deck(previous.files, before, b)]
  BY DEF Cards
<1> HIDE DEF Deck
<1> QED BY <1>3, <1>4, <1>5, <1>6

LEMMA EntryDerived ==
  ASSUME NEW files, NEW p \in DOMAIN files
  PROVE  /\ Derived(files)[p].progress = TicketProgress(files, ProgressFaults(files), p)
         /\ Derived(files)[p].binding = BindingState(files, p)
BY DEF Derived, ProgressOf

-----------------------------------------------------------------------------
\* project_scope, whatever it keeps of a sound previous load, or with none at all, returns a sound
\* one: the entries and facts of the files as they are.
THEOREM ProjectionIsFromScratch ==
  ASSUME NEW files, NEW previous, NEW changed,
         Sound(previous) \/ (~ previous.known /\ changed = DOMAIN files),
         KeptFrom(files, previous, changed)
  PROVE  Sound(Projected(files, previous, changed))
<1> DEFINE membership == ~ previous.known \/ MembershipChanged(files, previous, changed)
           bindings == ~ previous.known \/ BindingChanged(files, previous, changed)
           progressFaults == IF membership THEN ProgressFaults(files) ELSE previous.progress
           bindingFaults == IF bindings THEN BindingFaults(files) ELSE previous.binding
           wanted == ProgressOf(files, progressFaults)
           borrowed == Borrowed(files, previous, changed, wanted)
           progress == [p \in DOMAIN files |->
                          IF p \in borrowed THEN previous.shown[p].progress ELSE wanted[p]]
           boards == ~ previous.known \/ BoardsChanged(files, previous, progress)
           cards == IF boards THEN Cards(files, progress) ELSE previous.cards
           same == ~ membership /\ ~ bindings /\ ~ boards
           Entry(p) ==
             [progress |-> progress[p],
              binding |-> IF p \in borrowed THEN previous.shown[p].binding ELSE BindingState(files, p),
              faults |-> FaultsAt(files, progressFaults \cup bindingFaults, p),
              cards |-> CardsAt(cards, p)]
           shown == [p \in DOMAIN files |-> IF same /\ p \in borrowed THEN previous.shown[p] ELSE Entry(p)]
           before == ProgressOf(previous.files, ProgressFaults(previous.files))
<1>1. Projected(files, previous, changed) =
        [known |-> TRUE, files |-> files, shown |-> shown, progress |-> progressFaults,
         binding |-> bindingFaults, cards |-> cards]
  BY DEF Projected
<1>2. \A p \in borrowed :
        /\ Sound(previous)
        /\ p \in DOMAIN files /\ p \notin changed
        /\ p \in DOMAIN previous.files /\ files[p] = previous.files[p]
        /\ previous.shown[p] = Derived(previous.files)[p]
  BY DEF Borrowed, KeptFrom, Sound
<1>3. progressFaults = ProgressFaults(files)
  BY FaultsAsBefore DEF Sound
<1>4. bindingFaults = BindingFaults(files)
  BY BindingFaultsAsBefore DEF Sound
<1>5. \A p \in DOMAIN previous.files : Sound(previous) => previous.shown[p].progress = before[p]
  BY DEF Sound, Derived
<1>6. progress = wanted
  <2>1. ASSUME NEW p \in borrowed
        PROVE  previous.shown[p].progress = wanted[p]
    <3>1. CASE MembershipChanged(files, previous, changed)
      BY <3>1 DEF Borrowed
    <3>2. CASE ~ MembershipChanged(files, previous, changed)
      <4>1. progressFaults = ProgressFaults(previous.files)
        BY <1>2, <3>2 DEF Sound
      <4>2. before[p] = TicketProgress(previous.files, progressFaults, p)
        BY <1>2, <4>1 DEF ProgressOf
      <4>3. wanted[p] = TicketProgress(files, progressFaults, p)
        BY <1>2 DEF ProgressOf
      <4> QED BY <1>2, <1>5, <3>2, <4>2, <4>3, ProgressAsBefore DEF Sound
    <3> QED BY <3>1, <3>2
  <2> HIDE DEF borrowed
  <2> QED BY <2>1 DEF ProgressOf
<1>7. \A p \in borrowed : previous.shown[p].binding = BindingState(files, p)
  <2> SUFFICES ASSUME NEW p \in borrowed
               PROVE  previous.shown[p].binding = BindingState(files, p)
    OBVIOUS
  <2>1. previous.shown[p].binding = BindingState(previous.files, p)
    <3> HIDE DEF borrowed
    <3> QED BY <1>2, EntryDerived
  <2>2. CASE BindingChanged(files, previous, changed)
    <3>1. KindOf[p] \notin {"strategy", "binding"}
      BY <2>2 DEF Borrowed
    <3>2. BindingState(files, p) = "none" /\ BindingState(previous.files, p) = "none"
      BY <3>1 DEF BindingState, Parsed, Of
    <3> QED BY <2>1, <3>2
  <2>3. CASE ~ BindingChanged(files, previous, changed)
    BY <1>2, <2>1, <2>3, BindingStateAsBefore DEF Sound
  <2> QED BY <2>2, <2>3
<1>8. cards = Cards(files, wanted)
  <2>1. CASE boards
    BY <1>6, <2>1
  <2>2. CASE ~ boards
    <3>1. Sound(previous) /\ previous.cards = Cards(previous.files, before)
      BY <2>2 DEF Sound
    <3>2. Cards(files, progress) = Cards(previous.files, before)
      BY <1>5, <2>2, <3>1, CardsAsBefore
    <3> QED BY <1>6, <2>2, <3>1, <3>2
  <2> QED BY <2>1, <2>2
<1>9. shown = Derived(files)
  <2> DEFINE scratch(p) ==
               [progress |-> wanted[p],
                binding |-> BindingState(files, p),
                faults |-> FaultsAt(files, progressFaults \cup bindingFaults, p),
                cards |-> CardsAt(Cards(files, wanted), p)]
  <2>1. Derived(files) = [p \in DOMAIN files |-> scratch(p)]
    BY <1>3, <1>4 DEF Derived
  <2>2. ASSUME NEW p \in DOMAIN files
        PROVE  Entry(p) = scratch(p)
    BY <1>6, <1>7, <1>8
  <2>3. ASSUME NEW p \in borrowed, same
        PROVE  previous.shown[p] = scratch(p)
    <3>1. previous.shown[p] =
            [progress |-> before[p],
             binding |-> BindingState(previous.files, p),
             faults |-> FaultsAt(previous.files,
                                 ProgressFaults(previous.files) \cup BindingFaults(previous.files), p),
             cards |-> CardsAt(Cards(previous.files, before), p)]
      BY <1>2 DEF Derived
    <3>2. before[p] = wanted[p]
      BY <1>2, <1>5, <1>6
    <3>3. BindingState(previous.files, p) = BindingState(files, p)
      BY <1>7, <3>1, <2>3
    <3>4. FaultsAt(previous.files, ProgressFaults(previous.files) \cup BindingFaults(previous.files), p)
            = FaultsAt(files, progressFaults \cup bindingFaults, p)
      BY <1>2, <2>3 DEF FaultsAt, Sound
    <3>5. Cards(previous.files, before) = Cards(files, wanted)
      BY <1>2, <1>8, <2>3 DEF Sound
    <3> QED BY <3>1, <3>2, <3>3, <3>4, <3>5
  <2> HIDE DEF scratch, Entry, same, borrowed
  <2> QED BY <2>1, <2>2, <2>3
<1>10. wanted = ProgressOf(files, ProgressFaults(files))
  BY <1>3
<1> HIDE DEF membership, bindings, progressFaults, bindingFaults, wanted, borrowed, progress, boards,
             cards, same, Entry, shown
<1> QED BY <1>1, <1>3, <1>4, <1>8, <1>9, <1>10 DEF Sound, KeptFrom

-----------------------------------------------------------------------------
\* What is known of a load.
Fields ==
  {"target", "at", "cancelled", "known", "token", "parking", "stream", "channel", "taken", "told",
   "complete", "committed", "quiet", "active", "found", "todo", "previous", "read", "pending"}

\* A thread may sleep only where it sends, and never with nobody to wake it.
Wakeful(load) ==
  /\ DOMAIN load = Fields
  /\ load.stream \in {"opening", "open", "dropped"}
  /\ load.parking => load.at \in {"catalogue", "entries", "complete", "failure"}
  /\ load.parking /\ ~ load.token =>
       /\ load.channel # <<>>
       /\ load.stream = "opening" \/ (load.stream = "open" /\ ~ load.cancelled)

\* A request is for its load's target, and the session knows the thread once load has returned.
Requested(t, n, load) == load.target = t /\ (load.stream = "open" => load.known)

\* No thread sleeps unseen, and the requests are of loads there are.
SleepInv ==
  /\ accepted \in Nat
  /\ DOMAIN loads = Orders
  /\ \A n \in Orders : Wakeful(loads[n])
  /\ \A t \in DOMAIN requests : requests[t] \in Orders /\ Requested(t, requests[t], loads[requests[t]])

\* It holds at first, when there is no load.
LEMMA SleepInit == Init => SleepInv
BY DEF Init, SleepInv, Orders

\* A step of one load that forgets requests at most.
LEMMA OneSleeper ==
  ASSUME SleepInv, NEW n \in Orders, NEW load, Becomes(n, load), accepted' = accepted,
         Wakeful(load),
         DOMAIN requests' \subseteq DOMAIN requests,
         \A t \in DOMAIN requests' : requests'[t] = requests[t],
         \A t \in DOMAIN requests' : requests'[t] = n /\ Requested(t, n, loads[n]) => Requested(t, n, load)
  PROVE  SleepInv'
<1>1. /\ DOMAIN loads' = Orders
      /\ \A m \in Orders : loads'[m] = IF m = n THEN load ELSE loads[m]
  BY DEF SleepInv, Becomes
<1>2. Orders' = Orders
  BY DEF Orders
<1>3. ASSUME NEW t \in DOMAIN requests'
      PROVE  requests'[t] \in Orders /\ Requested(t, requests'[t], loads'[requests'[t]])
  <2>1. requests'[t] \in Orders /\ Requested(t, requests'[t], loads[requests'[t]])
    BY DEF SleepInv
  <2>2. CASE requests'[t] = n
    BY <1>1, <2>1, <2>2
  <2>3. CASE requests'[t] # n
    BY <1>1, <2>1, <2>3
  <2> QED BY <2>2, <2>3
<1> QED BY <1>1, <1>2, <1>3 DEF SleepInv

\* What a send leaves of a load that was where it sends.
LEMMA Sent ==
  ASSUME SleepInv, NEW n \in Orders, NEW event, NEW sent, Sends(n, event, sent),
         loads[n].at \in {"catalogue", "entries", "complete", "failure"},
         DOMAIN sent = Fields, sent.target = loads[n].target, sent.stream = loads[n].stream,
         sent.known = loads[n].known, sent.parking = FALSE
  PROVE  SleepInv'
<1> DEFINE load ==
      IF loads[n].cancelled \/ loads[n].stream = "dropped" THEN Finished(loads[n])
      ELSE IF Full(n) THEN [loads[n] EXCEPT !.parking = TRUE]
      ELSE [sent EXCEPT !.channel = Append(@, event)]
       kept == Wakeful(load) /\ load.target = loads[n].target /\ load.stream = loads[n].stream
                 /\ load.known = loads[n].known
<1>1. Wakeful(loads[n])
  BY DEF SleepInv
<1>2. ASSUME loads[n].cancelled \/ loads[n].stream = "dropped"
      PROVE  kept
  BY <1>1, <1>2 DEF Wakeful, Finished, Emptied, Fields
<1>3. ASSUME ~ (loads[n].cancelled \/ loads[n].stream = "dropped"), Full(n)
      PROVE  kept
  <2>1. loads[n].channel # <<>>
    BY <1>3, PresentationAssumption DEF Full
  <2> QED BY <1>1, <1>3, <2>1 DEF Wakeful, Fields
<1>4. ASSUME ~ (loads[n].cancelled \/ loads[n].stream = "dropped"), ~ Full(n)
      PROVE  kept
  BY <1>1, <1>4 DEF Wakeful, Fields
<1>5. kept
  BY <1>2, <1>3, <1>4
<1>6. Becomes(n, load) /\ accepted' = accepted /\ requests' = requests
  BY DEF Sends, session
<1> HIDE DEF load
<1> QED BY <1>5, <1>6, OneSleeper DEF Requested

\* Every step of one load that leaves its target, its stream and what is known of it alone.
LEMMA Worked ==
  ASSUME SleepInv, NEW n \in Orders, NEW load, Becomes(n, load),
         accepted' = accepted, requests' = requests,
         Wakeful(load), load.target = loads[n].target, load.stream = loads[n].stream,
         load.known = loads[n].known
  PROVE  SleepInv'
BY OneSleeper DEF Requested

\* No step undoes it.
LEMMA SleepNext == SleepInv /\ [Next]_vars => SleepInv'
<1> SUFFICES ASSUME SleepInv, [Next]_vars PROVE SleepInv'
  OBVIOUS
<1>0. \A n \in Orders : Wakeful(loads[n])
  BY DEF SleepInv
<1>1. CASE Edit
  <2>1. /\ DOMAIN loads' = Orders
        /\ \A n \in Orders : loads'[n] = [loads[n] EXCEPT !.quiet = FALSE]
        /\ accepted' = accepted /\ requests' = requests
    BY <1>1 DEF Edit, session
  <2>2. ASSUME NEW n \in Orders
        PROVE  /\ Wakeful(loads'[n])
               /\ \A t : Requested(t, n, loads[n]) => Requested(t, n, loads'[n])
    BY <1>0, <2>1 DEF Wakeful, Fields, Requested
  <2> QED BY <2>1, <2>2 DEF SleepInv, Orders
<1>2. ASSUME NEW t \in Target, Accepts(t)
      PROVE  SleepInv'
  <2> DEFINE order == accepted + 1
             Older(n) == \E u \in DOMAIN requests : requests[u] = n /\ Overlap(t, u)
  <2>1. /\ accepted \in Nat /\ accepted' = order /\ Orders' = 1..order
        /\ Orders' = Orders \cup {order} /\ order \notin Orders
    BY <1>2 DEF Accepts, Orders, SleepInv
  <2>2. /\ DOMAIN loads' = Orders'
        /\ loads'[order] = Started(t)
        /\ \A n \in Orders : loads'[n] = IF Older(n) THEN Superseded(loads[n]) ELSE loads[n]
    BY <1>2, <2>1 DEF Accepts
  <2>3. /\ DOMAIN requests' = DOMAIN requests \cup {t}
        /\ requests'[t] = order
        /\ \A u \in DOMAIN requests \ {t} : requests'[u] = requests[u]
    BY <1>2 DEF Accepts, With, Over
  <2>4. Wakeful(Started(t)) /\ Requested(t, order, Started(t))
    BY DEF Wakeful, Started, Fields, Requested
  <2>5. ASSUME NEW n \in Orders, Older(n)
        PROVE  /\ Wakeful(Superseded(loads[n]))
               /\ \A u : Requested(u, n, loads[n]) => Requested(u, n, Superseded(loads[n]))
    <3>1. Wakeful(loads[n]) /\ (loads[n].stream = "open" => loads[n].known)
      BY <2>5 DEF SleepInv, Requested
    <3>2. /\ DOMAIN Superseded(loads[n]) = Fields
          /\ \A f \in Fields \ {"token", "cancelled"} : Superseded(loads[n])[f] = loads[n][f]
          /\ Superseded(loads[n]).token = IF loads[n].known THEN loads[n].at # "done" ELSE loads[n].token
      BY <3>1 DEF Superseded, Woken, Wakeful, Fields
    <3>3. Wakeful(Superseded(loads[n]))
      BY <3>1, <3>2 DEF Wakeful, Fields
    <3> QED BY <3>2, <3>3 DEF Requested, Fields
  <2>6. \A n \in Orders' : Wakeful(loads'[n])
    BY <1>0, <2>1, <2>2, <2>4, <2>5
  <2>7. ASSUME NEW u \in DOMAIN requests'
        PROVE  requests'[u] \in Orders' /\ Requested(u, requests'[u], loads'[requests'[u]])
    <3>1. CASE u = t
      BY <2>1, <2>2, <2>3, <2>4, <3>1
    <3>2. CASE u # t
      <4>1. requests[u] \in Orders /\ Requested(u, requests[u], loads[requests[u]])
        BY <2>3, <3>2 DEF SleepInv
      <4> QED BY <2>1, <2>2, <2>3, <2>5, <3>2, <4>1
    <3> QED BY <3>1, <3>2
  <2> QED BY <2>1, <2>2, <2>6, <2>7 DEF SleepInv
<1>3. ASSUME NEW n \in Orders, Opens(n)
      PROVE  SleepInv'
  <2> DEFINE load == [IF loads[n].cancelled THEN Woken(loads[n]) ELSE loads[n] EXCEPT
                        !.stream = "open",
                        !.known = loads[n].target \in DOMAIN requests /\ requests[loads[n].target] = n]
  <2>1. Becomes(n, load) /\ accepted' = accepted /\ requests' = requests
    BY <1>3 DEF Opens, session
  <2>2. /\ Wakeful(load) /\ load.target = loads[n].target
        /\ load.known = (loads[n].target \in DOMAIN requests /\ requests[loads[n].target] = n)
    BY <1>0, <1>3 DEF Opens, Wakeful, Woken, Fields
  <2> HIDE DEF load
  <2> QED BY <2>1, <2>2, OneSleeper DEF Requested
<1>4. ASSUME NEW n \in Orders, Receives(n)
      PROVE  SleepInv'
  <2> DEFINE event == Head(loads[n].channel)
             load == [Woken(loads[n]) EXCEPT
               !.taken = IF event.what = "complete" \/ event.entries # {} THEN <<event>> ELSE <<>>,
               !.channel = Tail(@)]
  <2>1. Becomes(n, load) /\ accepted' = accepted /\ requests' = requests
    BY <1>4 DEF Receives, session
  <2>2. /\ Wakeful(load) /\ load.target = loads[n].target /\ load.stream = loads[n].stream
        /\ load.known = loads[n].known
    BY <1>0 DEF Wakeful, Woken, Fields
  <2> HIDE DEF load
  <2> QED BY <2>1, <2>2, Worked
<1>5. ASSUME NEW n \in Orders, Registers(n)
      PROVE  SleepInv'
  <2> DEFINE event == Head(loads[n].taken)
             load == [loads[n] EXCEPT
               !.taken = <<>>,
               !.told = IF Current(n) THEN @ \cup event.entries ELSE {},
               !.complete = @ \/ (event.what = "complete" /\ Current(n))]
  <2>1. Becomes(n, load) /\ accepted' = accepted /\ requests' = requests
    BY <1>5 DEF Registers
  <2>2. /\ Wakeful(load) /\ load.target = loads[n].target /\ load.stream = loads[n].stream
        /\ load.known = loads[n].known
    BY <1>0 DEF Wakeful, Fields
  <2> HIDE DEF load
  <2> QED BY <2>1, <2>2, Worked
<1>6. ASSUME NEW n \in Orders, Cancels(n)
      PROVE  SleepInv'
  <2> DEFINE load == [Woken(loads[n]) EXCEPT !.cancelled = TRUE]
  <2>1. Becomes(n, load) /\ accepted' = accepted /\ requests' = requests
    BY <1>6 DEF Cancels, session
  <2>2. /\ Wakeful(load) /\ load.target = loads[n].target /\ load.stream = loads[n].stream
        /\ load.known = loads[n].known
    BY <1>0 DEF Wakeful, Woken, Fields
  <2> HIDE DEF load
  <2> QED BY <2>1, <2>2, Worked
<1>7. ASSUME NEW n \in Orders, Drops(n)
      PROVE  SleepInv'
  <2> DEFINE load == [Woken(loads[n]) EXCEPT !.cancelled = TRUE, !.stream = "dropped", !.channel = <<>>]
  <2>1. /\ Becomes(n, load) /\ accepted' = accepted
        /\ DOMAIN requests' \subseteq DOMAIN requests
        /\ \A t \in DOMAIN requests' : requests'[t] = requests[t] /\ requests'[t] # n
    BY <1>7 DEF Drops, Restrict
  <2>2. Wakeful(load)
    BY <1>0 DEF Wakeful, Woken, Fields
  <2> HIDE DEF load
  <2> QED BY <2>1, <2>2, OneSleeper
<1>8. ASSUME NEW n \in Orders, Works(n) \/ ReadFails(n) \/ Breaks(n)
      PROVE  SleepInv'
  <2> DEFINE Kept(load) == /\ Wakeful(load) /\ load.target = loads[n].target
                           /\ load.stream = loads[n].stream /\ load.known = loads[n].known
  <2>1. Kept(Finished(loads[n]))
    BY <1>0 DEF Wakeful, Finished, Emptied, Fields
  <2>2. CASE Wakes(n)
    <3> DEFINE load == [loads[n] EXCEPT !.parking = FALSE, !.token = FALSE]
    <3>1. Becomes(n, load) /\ accepted' = accepted /\ requests' = requests
      BY <2>2 DEF Wakes, session
    <3>2. Kept(load)
      BY <1>0 DEF Wakeful, Fields
    <3> HIDE DEF load
    <3> QED BY <3>1, <3>2, Worked
  <2>3. CASE Notices(n)
    BY <2>1, <2>3, Worked DEF Notices, session
  <2>4. CASE Activates(n)
    <3>1. PICK active :
            Becomes(n, [loads[n] EXCEPT !.at = "catalogue", !.active = active])
      BY <2>4 DEF Activates
    <3>2. accepted' = accepted /\ requests' = requests
      BY <2>4 DEF Activates, session
    <3> DEFINE load == [loads[n] EXCEPT !.at = "catalogue", !.active = active]
    <3>3. Kept(load)
      BY <1>0 DEF Wakeful, Fields
    <3> HIDE DEF load
    <3> QED BY <3>1, <3>2, <3>3, Worked DEF load
  <2>5. CASE SendsCatalogue(n)
    <3>1. PICK at :
            Sends(n, Event("catalogue"), [loads[n] EXCEPT !.at = at])
      BY <2>5 DEF SendsCatalogue
    <3> DEFINE sent == [loads[n] EXCEPT !.at = at]
    <3>2. /\ loads[n].at = "catalogue"
          /\ DOMAIN sent = Fields /\ sent.target = loads[n].target
          /\ sent.stream = loads[n].stream /\ sent.known = loads[n].known /\ sent.parking = FALSE
      BY <1>0, <2>5, <3>1 DEF SendsCatalogue, Sends, Wakeful, Fields
    <3> HIDE DEF sent
    <3> QED BY <3>1, <3>2, Sent DEF sent
  <2>6. CASE Walks(n)
    <3>1. PICK found, todo :
            Becomes(n, [loads[n] EXCEPT !.at = IF todo = {} THEN "commit" ELSE "scope",
                                        !.found = found, !.todo = todo])
      BY <2>6 DEF Walks
    <3>2. accepted' = accepted /\ requests' = requests
      BY <2>6 DEF Walks
    <3> DEFINE load == [loads[n] EXCEPT !.at = IF todo = {} THEN "commit" ELSE "scope",
                                        !.found = found, !.todo = todo]
    <3>3. Kept(load)
      BY <1>0, <2>6 DEF Walks, Wakeful, Fields
    <3> HIDE DEF load
    <3> QED BY <3>1, <3>2, <3>3, Worked DEF load
  <2>7. CASE Reuses(n)
    <3>1. PICK pending : Becomes(n, [loads[n] EXCEPT !.at = "entries", !.pending = pending])
      BY <2>7 DEF Reuses
    <3>2. accepted' = accepted /\ requests' = requests
      BY <2>7 DEF Reuses, session
    <3> DEFINE load == [loads[n] EXCEPT !.at = "entries", !.pending = pending]
    <3>3. Kept(load)
      BY <1>0, <2>7 DEF Reuses, Wakeful, Fields
    <3> HIDE DEF load
    <3> QED BY <3>1, <3>2, <3>3, Worked DEF load
  <2>8. ASSUME ReadsScope(n) \/ ReadFails(n)
        PROVE  SleepInv'
    <3>1. PICK failing : Reads(n, failing)
      BY <2>8 DEF ReadsScope, ReadFails
    <3>2. PICK quiet, previous, read :
            Becomes(n, [loads[n] EXCEPT !.at = "recheck", !.quiet = quiet, !.previous = previous,
                                        !.read = read])
      BY <3>1 DEF Reads
    <3>3. accepted' = accepted /\ requests' = requests
      BY <2>8 DEF ReadsScope, ReadFails, session
    <3> DEFINE load == [loads[n] EXCEPT !.at = "recheck", !.quiet = quiet, !.previous = previous,
                                        !.read = read]
    <3>4. Kept(load)
      BY <1>0, <3>1 DEF Reads, Wakeful, Fields
    <3> HIDE DEF load
    <3> QED BY <3>2, <3>3, <3>4, Worked DEF load
  <2>9. CASE Rechecks(n)
    <3>1. PICK pending :
            Becomes(n, [loads[n] EXCEPT !.at = "entries", !.previous = None, !.read = <<>>,
                                        !.pending = pending])
      BY <2>9 DEF Rechecks
    <3>2. accepted' = accepted /\ requests' = requests
      BY <2>9 DEF Rechecks, session
    <3> DEFINE load == [loads[n] EXCEPT !.at = "entries", !.previous = None, !.read = <<>>,
                                        !.pending = pending]
    <3>3. Kept(load)
      BY <1>0, <2>9 DEF Rechecks, Wakeful, Fields
    <3> HIDE DEF load
    <3> QED BY <3>1, <3>2, <3>3, Worked DEF load
  <2>10. CASE SendsEntries(n)
    <3> DEFINE next == [loads[n] EXCEPT !.todo = @ \ {FirstOf(@)},
                                        !.at = IF loads[n].todo = {FirstOf(loads[n].todo)}
                                               THEN "commit" ELSE "scope"]
    <3>1. PICK event :
            \/ Becomes(n, next) /\ UNCHANGED <<world, session, mishaps>>
            \/ Sends(n, event, next)
      BY <2>10 DEF SendsEntries
    <3>2. loads[n].at = "entries" /\ Kept(next) /\ next.parking = FALSE
      <4>1. loads[n].at = "entries" /\ ~ loads[n].parking
        BY <2>10 DEF SendsEntries
      <4> QED BY <1>0, <4>1 DEF Wakeful, Fields
    <3> HIDE DEF next
    <3>3. CASE Becomes(n, next) /\ UNCHANGED <<world, session, mishaps>>
      BY <3>2, <3>3, Worked DEF session
    <3>4. CASE Sends(n, event, next)
      BY <3>2, <3>4, Sent DEF Wakeful
    <3> QED BY <3>1, <3>3, <3>4
  <2>11. CASE Commits(n)
    <3> DEFINE load == [Emptied(loads[n]) EXCEPT !.at = "complete", !.committed = TRUE]
    <3>1. /\ Becomes(n, Finished(loads[n])) \/ Becomes(n, load)
          /\ accepted' = accepted /\ requests' = requests
      BY <2>11 DEF Commits
    <3>2. Kept(load)
      BY <1>0, <2>11 DEF Commits, Wakeful, Emptied, Fields
    <3> HIDE DEF load
    <3> QED BY <2>1, <3>1, <3>2, Worked
  <2>12. ASSUME NEW event, Sends(n, event, Finished(loads[n])),
                loads[n].at \in {"complete", "failure"}
         PROVE  SleepInv'
    <3> DEFINE load == Finished(loads[n])
    <3>1. Kept(load) /\ load.parking = FALSE
      BY <1>0, <2>1 DEF Finished, Emptied, Wakeful, Fields
    <3> HIDE DEF load
    <3> QED BY <2>12, <3>1, Sent DEF Wakeful, load
  <2>13. CASE SendsComplete(n)
    BY <2>12, <2>13 DEF SendsComplete
  <2>14. CASE SendsFailure(n)
    BY <2>12, <2>14 DEF SendsFailure
  <2>15. CASE Breaks(n)
    <3> DEFINE load == [Emptied(loads[n]) EXCEPT !.at = "failure"]
    <3>1. Becomes(n, load) /\ accepted' = accepted /\ requests' = requests
      BY <2>15 DEF Breaks, session
    <3>2. Kept(load)
      BY <1>0, <2>15 DEF Breaks, Wakeful, Emptied, Fields
    <3> HIDE DEF load
    <3> QED BY <3>1, <3>2, Worked
  <2> QED BY <1>8, <2>2, <2>3, <2>4, <2>5, <2>6, <2>7, <2>8, <2>9, <2>10, <2>11, <2>13, <2>14, <2>15
          DEF Works
<1>9. CASE UNCHANGED vars
  BY <1>9 DEF vars, SleepInv, Orders
<1> QED BY <1>1, <1>2, <1>3, <1>4, <1>5, <1>6, <1>7, <1>8, <1>9 DEF Next

\* A thread that sleeps on a full channel is sure to be woken, whatever order the other loads, the
\* clients and the return of load take (send_bounded, cancel, recv and Drop of the stream).
THEOREM SleepersWake == Spec => []SleepersAreWoken
<1>1. SleepInv => SleepersAreWoken
  BY DEF SleepInv, SleepersAreWoken, Wakeful
<1> QED BY <1>1, SleepInit, SleepNext, PTL DEF Spec

-----------------------------------------------------------------------------
\* Whatever a load holds of a scope is sound, and between the reads and the second look it has, of
\* each file it does not read again, what the previous load made of it.
Derivable(load) ==
  /\ DOMAIN load = Fields
  /\ load.target \in Target
  /\ DOMAIN load.found \subseteq Path
  /\ \A s \in DOMAIN load.pending : Sound(load.pending[s].facts)
  /\ load.at = "recheck" =>
       /\ Sound(load.previous.facts) \/ load.previous.facts = Nothing
       /\ \A p \in DOMAIN load.found \ DOMAIN load.read :
            ScopeOf[p] = FirstOf(load.todo) /\ ~ Lazy(p) => p \in DOMAIN load.previous.facts.files

\* What the session shows follows from its files, and so does what loads are about to show.
FactsInv ==
  /\ accepted \in Nat
  /\ DOMAIN loads = Orders
  /\ \A n \in Orders : Derivable(loads[n])
  /\ \A s \in DOMAIN scopes : Sound(scopes[s].facts)

\* A step of one load, which may commit what it holds.
LEMMA OneDeriver ==
  ASSUME FactsInv, NEW n \in Orders, NEW load, Becomes(n, load), accepted' = accepted,
         Derivable(load),
         \A s \in DOMAIN scopes' : Sound(scopes'[s].facts)
  PROVE  FactsInv'
<1>1. /\ DOMAIN loads' = Orders
      /\ \A m \in Orders : loads'[m] = IF m = n THEN load ELSE loads[m]
  BY DEF FactsInv, Becomes
<1> QED BY <1>1 DEF FactsInv, Orders

\* No step undoes it.
LEMMA FactsNext == FactsInv /\ [Next]_vars => FactsInv'
<1> SUFFICES ASSUME FactsInv, [Next]_vars PROVE FactsInv'
  OBVIOUS
<1>0. /\ \A n \in Orders : Derivable(loads[n])
      /\ \A s \in DOMAIN scopes : Sound(scopes[s].facts)
  BY DEF FactsInv
<1>1. CASE Edit
  <2>1. /\ DOMAIN loads' = Orders
        /\ \A n \in Orders : loads'[n] = [loads[n] EXCEPT !.quiet = FALSE]
        /\ accepted' = accepted /\ scopes' = scopes
    BY <1>1 DEF Edit, session
  <2>2. \A n \in Orders : Derivable(loads'[n])
    BY <1>0, <2>1 DEF Derivable, Fields
  <2> QED BY <1>0, <2>1, <2>2 DEF FactsInv, Orders
<1>2. ASSUME NEW t \in Target, Accepts(t)
      PROVE  FactsInv'
  <2> DEFINE order == accepted + 1
             Older(n) == \E u \in DOMAIN requests : requests[u] = n /\ Overlap(t, u)
  <2>1. /\ accepted' = order /\ order \in Nat /\ scopes' = scopes
        /\ Orders' = 1..order /\ Orders' = Orders \cup {order}
    BY <1>2 DEF Accepts, Orders, FactsInv
  <2>2. /\ DOMAIN loads' = Orders'
        /\ loads'[order] = Started(t)
        /\ \A n \in Orders : loads'[n] = IF Older(n) THEN Superseded(loads[n]) ELSE loads[n]
    BY <1>2, <2>1 DEF Accepts, Orders, FactsInv
  <2>3. Derivable(Started(t))
    BY DEF Derivable, Started, Fields
  <2>4. ASSUME NEW n \in Orders
        PROVE  Derivable(Superseded(loads[n]))
    <3>1. Derivable(loads[n])
      BY <1>0
    <3>2. /\ DOMAIN Superseded(loads[n]) = Fields
          /\ \A f \in Fields \ {"token", "cancelled"} : Superseded(loads[n])[f] = loads[n][f]
      BY <3>1 DEF Superseded, Woken, Derivable, Fields
    <3> QED BY <3>1, <3>2 DEF Derivable, Fields
  <2> QED BY <1>0, <2>1, <2>2, <2>3, <2>4 DEF FactsInv
<1>3. ASSUME NEW n \in Orders, NEW load, Becomes(n, load), accepted' = accepted, scopes' = scopes,
             Derivable(load)
      PROVE  FactsInv'
  BY <1>0, <1>3, OneDeriver
<1>4. ASSUME NEW n \in Orders, NEW load, Becomes(n, load), accepted' = accepted, scopes' = scopes,
             DOMAIN load = Fields,
             \A f \in {"target", "at", "found", "todo", "previous", "read", "pending"} : load[f] = loads[n][f]
      PROVE  FactsInv'
  BY <1>0, <1>3, <1>4 DEF Derivable
<1>5. ASSUME NEW n \in Orders
      PROVE  Derivable(Finished(loads[n])) /\ DOMAIN loads[n] = Fields
  <2>1. DOMAIN loads[n] = Fields
    BY <1>0 DEF Derivable
  <2>2. LET load == Finished(loads[n])
        IN  /\ DOMAIN load = Fields /\ load.target = loads[n].target /\ load.at = "done"
            /\ load.found = <<>> /\ load.pending = <<>>
    BY <2>1 DEF Finished, Emptied, Fields
  <2> QED BY <1>0, <2>1, <2>2 DEF Derivable
<1>6. ASSUME NEW n \in Orders, NEW event, NEW sent, Sends(n, event, sent), Derivable(sent)
      PROVE  FactsInv'
  <2>1. Derivable([sent EXCEPT !.channel = Append(@, event)])
    BY <1>6 DEF Derivable, Fields
  <2>2. Derivable([loads[n] EXCEPT !.parking = TRUE])
    BY <1>0 DEF Derivable, Fields
  <2>3. /\ \/ Becomes(n, Finished(loads[n]))
           \/ Becomes(n, [loads[n] EXCEPT !.parking = TRUE])
           \/ Becomes(n, [sent EXCEPT !.channel = Append(@, event)])
        /\ accepted' = accepted /\ scopes' = scopes
    BY <1>6 DEF Sends, session
  <2> QED BY <1>3, <1>5, <2>1, <2>2, <2>3
<1>7. ASSUME NEW n \in Orders,
             \/ Opens(n) \/ Receives(n) \/ Registers(n) \/ Cancels(n) \/ Drops(n) \/ Wakes(n)
      PROVE  FactsInv'
  <2> DEFINE Told == {"target", "at", "found", "todo", "previous", "read", "pending"}
  <2>1. CASE Opens(n)
    <3> DEFINE load == [IF loads[n].cancelled THEN Woken(loads[n]) ELSE loads[n] EXCEPT
                        !.stream = "open",
                        !.known = loads[n].target \in DOMAIN requests /\ requests[loads[n].target] = n]
    <3>1. Becomes(n, load) /\ accepted' = accepted /\ scopes' = scopes
      BY <2>1 DEF Opens, session
    <3>2. /\ DOMAIN load = Fields
          /\ \A f \in Told : load[f] = loads[n][f]
      BY <1>5 DEF Woken, Fields
    <3> HIDE DEF load
    <3> QED BY <1>4, <3>1, <3>2
  <2>2. CASE Receives(n)
    <3> DEFINE load == [Woken(loads[n]) EXCEPT
                   !.taken = IF Head(loads[n].channel).what = "complete" \/ Head(loads[n].channel).entries # {}
                             THEN <<Head(loads[n].channel)>> ELSE <<>>,
                   !.channel = Tail(@)]
    <3>1. Becomes(n, load) /\ accepted' = accepted /\ scopes' = scopes
      BY <2>2 DEF Receives, session
    <3>2. /\ DOMAIN load = Fields
          /\ \A f \in Told : load[f] = loads[n][f]
      BY <1>5 DEF Woken, Fields
    <3> HIDE DEF load
    <3> QED BY <1>4, <3>1, <3>2
  <2>3. CASE Registers(n)
    <3> DEFINE load == [loads[n] EXCEPT
                   !.taken = <<>>,
                   !.told = IF Current(n) THEN @ \cup Head(loads[n].taken).entries ELSE {},
                   !.complete = @ \/ (Head(loads[n].taken).what = "complete" /\ Current(n))]
    <3>1. Becomes(n, load) /\ accepted' = accepted /\ scopes' = scopes
      BY <2>3 DEF Registers
    <3>2. /\ DOMAIN load = Fields
          /\ \A f \in Told : load[f] = loads[n][f]
      BY <1>5 DEF Fields
    <3> HIDE DEF load
    <3> QED BY <1>4, <3>1, <3>2
  <2>4. CASE Cancels(n)
    <3> DEFINE load == [Woken(loads[n]) EXCEPT !.cancelled = TRUE]
    <3>1. Becomes(n, load) /\ accepted' = accepted /\ scopes' = scopes
      BY <2>4 DEF Cancels, session
    <3>2. /\ DOMAIN load = Fields
          /\ \A f \in Told : load[f] = loads[n][f]
      BY <1>5 DEF Woken, Fields
    <3> HIDE DEF load
    <3> QED BY <1>4, <3>1, <3>2
  <2>5. CASE Drops(n)
    <3> DEFINE load == [Woken(loads[n]) EXCEPT !.cancelled = TRUE, !.stream = "dropped", !.channel = <<>>]
    <3>1. Becomes(n, load) /\ accepted' = accepted /\ scopes' = scopes
      BY <2>5 DEF Drops
    <3>2. /\ DOMAIN load = Fields
          /\ \A f \in Told : load[f] = loads[n][f]
      BY <1>5 DEF Woken, Fields
    <3> HIDE DEF load
    <3> QED BY <1>4, <3>1, <3>2
  <2>6. CASE Wakes(n)
    <3> DEFINE load == [loads[n] EXCEPT !.parking = FALSE, !.token = FALSE]
    <3>1. Becomes(n, load) /\ accepted' = accepted /\ scopes' = scopes
      BY <2>6 DEF Wakes, session
    <3>2. /\ DOMAIN load = Fields
          /\ \A f \in Told : load[f] = loads[n][f]
      BY <1>5 DEF Fields
    <3> HIDE DEF load
    <3> QED BY <1>4, <3>1, <3>2
  <2> QED BY <1>7, <2>1, <2>2, <2>3, <2>4, <2>5, <2>6
<1>8. ASSUME NEW n \in Orders, Works(n) \/ ReadFails(n) \/ Breaks(n)
      PROVE  FactsInv'
  <2>1. CASE Wakes(n)
    BY <1>7, <2>1
  <2>2. CASE Notices(n)
    BY <1>3, <1>5, <2>2 DEF Notices, session
  <2>3. CASE Activates(n)
    <3>1. PICK active :
            Becomes(n, [loads[n] EXCEPT !.at = "catalogue", !.active = active])
      BY <2>3 DEF Activates
    <3>2. accepted' = accepted /\ scopes' = scopes
      BY <2>3 DEF Activates, session
    <3> DEFINE load == [loads[n] EXCEPT !.at = "catalogue", !.active = active]
    <3>3. Derivable(load)
      BY <1>0 DEF Derivable, Fields
    <3> HIDE DEF load
    <3> QED BY <1>3, <3>1, <3>2, <3>3 DEF load
  <2>4. CASE SendsCatalogue(n)
    <3> DEFINE sent == [loads[n] EXCEPT
                          !.at = IF loads[n].active = None THEN "complete" ELSE "walk"]
    <3>1. Derivable(sent)
      BY <1>0 DEF Derivable, Fields
    <3>2. Sends(n, Event("catalogue"), sent)
      BY <2>4 DEF SendsCatalogue
    <3> HIDE DEF sent
    <3> QED BY <1>6, <3>1, <3>2
  <2>5. CASE Walks(n)
    <3>1. PICK found, todo :
            /\ DOMAIN found \subseteq Path
            /\ Becomes(n, [loads[n] EXCEPT !.at = IF todo = {} THEN "commit" ELSE "scope",
                                           !.found = found, !.todo = todo])
      <4> DEFINE paths == {p \in Covers[loads[n].target] : disk[p] # None}
                 Handle(p) ==
                   IF ~ Lazy(p) THEN 0
                   ELSE IF p \in {q \in paths : Lazy(q) /\ HandleLost(q)} THEN issued + 1
                   ELSE scopes[ScopeOf[p]].found[p].handle
                 found == [p \in paths |-> [stamp |-> disk[p].stamp, handle |-> Handle(p)]]
                 todo == {ScopeOf[p] : p \in paths}
      <4>1. DOMAIN found \subseteq Path
        BY <1>0, PresentationAssumption DEF Derivable
      <4>2. Becomes(n, [loads[n] EXCEPT !.at = IF todo = {} THEN "commit" ELSE "scope",
                                        !.found = found, !.todo = todo])
        BY <2>5 DEF Walks
      <4> HIDE DEF found, todo
      <4> QED BY <4>1, <4>2
    <3>2. accepted' = accepted /\ scopes' = scopes
      BY <2>5 DEF Walks
    <3> DEFINE load == [loads[n] EXCEPT !.at = IF todo = {} THEN "commit" ELSE "scope",
                                        !.found = found, !.todo = todo]
    <3>3. Derivable(load)
      BY <1>0, <3>1 DEF Derivable, Fields
    <3> HIDE DEF load
    <3> QED BY <1>3, <3>1, <3>2, <3>3 DEF load
  <2>6. CASE Reuses(n)
    <3> DEFINE s == FirstOf(loads[n].todo)
               load == [loads[n] EXCEPT !.at = "entries", !.pending = With(s, Previous(s), @)]
    <3>1. Becomes(n, load) /\ accepted' = accepted /\ scopes' = scopes /\ Previous(s).reusable
      BY <2>6 DEF Reuses, Unchanged, session
    <3>2. Sound(Previous(s).facts)
      BY <1>0, <3>1 DEF Previous
    <3>3. /\ DOMAIN With(s, Previous(s), loads[n].pending) = {s} \cup DOMAIN loads[n].pending
          /\ \A u \in DOMAIN With(s, Previous(s), loads[n].pending) :
               Sound(With(s, Previous(s), loads[n].pending)[u].facts)
      BY <1>0, <3>2 DEF With, Over, Derivable
    <3>4. Derivable(load)
      BY <1>0, <3>3 DEF Derivable, Fields
    <3> HIDE DEF load
    <3> QED BY <1>3, <3>1, <3>4
  <2>7. ASSUME ReadsScope(n) \/ ReadFails(n)
        PROVE  FactsInv'
    <3> DEFINE s == FirstOf(loads[n].todo)
               again == {p \in DOMAIN FoundIn(loads[n], s) : ~ Lazy(p) /\ Reread(n, s, p)}
    <3>1. PICK failing : Reads(n, failing)
      BY <2>7 DEF ReadsScope, ReadFails
    <3>2. PICK quiet, read :
            /\ DOMAIN read = again
            /\ Becomes(n, [loads[n] EXCEPT !.at = "recheck", !.quiet = quiet,
                                           !.previous = Previous(s), !.read = read])
      BY <3>1 DEF Reads
    <3>3. accepted' = accepted /\ scopes' = scopes
      BY <2>7 DEF ReadsScope, ReadFails, session
    <3> DEFINE load == [loads[n] EXCEPT !.at = "recheck", !.quiet = quiet,
                                        !.previous = Previous(s), !.read = read]
    <3>4. Sound(Previous(s).facts) \/ Previous(s).facts = Nothing
      BY <1>0 DEF Previous
    <3>5. \A p \in DOMAIN loads[n].found \ again :
            ScopeOf[p] = s /\ ~ Lazy(p) => p \in DOMAIN Previous(s).facts.files
      BY DEF Reread, FoundIn, Restrict
    <3>6. Derivable(load)
      <4>1. /\ DOMAIN load = Fields /\ load.target = loads[n].target
            /\ load.found = loads[n].found /\ load.pending = loads[n].pending
            /\ load.todo = loads[n].todo /\ load.previous = Previous(s) /\ load.read = read
        BY <1>5 DEF Fields
      <4> HIDE DEF load, s, again
      <4> QED BY <1>0, <3>2, <3>4, <3>5, <4>1 DEF Derivable, s
    <3> HIDE DEF load
    <3> QED BY <1>3, <3>2, <3>3, <3>6 DEF load
  <2>8. CASE Rechecks(n)
    <3> DEFINE s == FirstOf(loads[n].todo)
               read == loads[n].read
               previous == loads[n].previous
               kept == DOMAIN FoundIn(loads[n], s) \ Vanished(read)
               looked == {p \in DOMAIN read : read[p].outcome = "read" /\ disk[p] # None}
               raced == {p \in looked : disk[p].stamp # loads[n].found[p].stamp}
               Loaded(p) == IF read[p].outcome = "read"
                            THEN ParsedFile(p, read[p].content, loads[n].active, p \in raced)
                            ELSE UnreadFile(previous, p)
               files == [p \in {p \in kept : ~ Lazy(p)} |->
                           IF p \notin DOMAIN read THEN previous.facts.files[p] ELSE Loaded(p)]
               changed == DOMAIN read \cap DOMAIN files
               load == [loads[n] EXCEPT !.at = "entries", !.previous = None, !.read = <<>>,
                                        !.pending = With(s, LoadedScope(loads[n], s), @)]
    <3>1. /\ Becomes(n, load) /\ accepted' = accepted /\ scopes' = scopes
          /\ loads[n].at = "recheck"
      BY <2>8 DEF Rechecks, session
    <3>2. LoadedScope(loads[n], s).facts = Projected(files, previous.facts, changed)
      BY DEF LoadedScope
    <3>3. /\ DOMAIN files \subseteq {p \in DOMAIN loads[n].found : ScopeOf[p] = s /\ ~ Lazy(p)}
          /\ DOMAIN files \subseteq Path
      BY <1>0 DEF FoundIn, Restrict, Derivable
    <3>4. \A p \in DOMAIN files \ changed : files[p] = previous.facts.files[p]
      OBVIOUS
    <3> HIDE DEF files
    <3>5. KeptFrom(files, previous.facts, changed)
      BY <1>0, <3>1, <3>3, <3>4 DEF KeptFrom, Derivable
    <3>6. Sound(previous.facts) \/ (~ previous.facts.known /\ changed = DOMAIN files)
      <4>1. CASE previous.facts = Nothing
        <5> HIDE DEF changed, previous
        <5> QED BY <3>5, <4>1, NothingIsKept
      <4> QED BY <1>0, <3>1, <4>1 DEF Derivable
    <3>7. Sound(LoadedScope(loads[n], s).facts)
      BY <3>2, <3>5, <3>6, ProjectionIsFromScratch
    <3>8. \A u \in DOMAIN With(s, LoadedScope(loads[n], s), loads[n].pending) :
            Sound(With(s, LoadedScope(loads[n], s), loads[n].pending)[u].facts)
      BY <1>0, <3>7 DEF With, Over, Derivable
    <3>9. Derivable(load)
      BY <1>0, <3>8 DEF Derivable, Fields
    <3> HIDE DEF load
    <3> QED BY <1>3, <3>1, <3>9
  <2>9. CASE SendsEntries(n)
    <3> DEFINE next == [loads[n] EXCEPT !.todo = @ \ {FirstOf(@)},
                                        !.at = IF loads[n].todo = {FirstOf(loads[n].todo)}
                                               THEN "commit" ELSE "scope"]
    <3>1. PICK event :
            \/ Becomes(n, next) /\ UNCHANGED <<world, session, mishaps>>
            \/ Sends(n, event, next)
      BY <2>9 DEF SendsEntries
    <3>2. Derivable(next)
      BY <1>0 DEF Derivable, Fields
    <3> HIDE DEF next
    <3>3. CASE Becomes(n, next) /\ UNCHANGED <<world, session, mishaps>>
      BY <1>3, <3>2, <3>3 DEF session
    <3> QED BY <1>6, <3>1, <3>2, <3>3
  <2>10. CASE Commits(n)
    <3> DEFINE load == [Emptied(loads[n]) EXCEPT !.at = "complete", !.committed = TRUE]
               Left(s) == \E p \in DOMAIN scopes[s].found : p \in Covers[loads[n].target]
               kept == Restrict(scopes, {s \in DOMAIN scopes : ~ Left(s)})
    <3>1. Derivable(load)
      <4>1. /\ DOMAIN load = Fields /\ load.target = loads[n].target /\ load.at = "complete"
            /\ load.found = <<>> /\ load.pending = <<>>
        BY <1>5 DEF Emptied, Fields
      <4> QED BY <1>0, <4>1 DEF Derivable
    <3>2. CASE ~ Current(n)
      BY <1>3, <1>5, <2>10, <3>2 DEF Commits
    <3>3. CASE Current(n)
      <4>1. /\ Becomes(n, load) /\ accepted' = accepted
            /\ scopes' = Over(loads[n].pending, kept)
        BY <2>10, <3>3 DEF Commits
      <4>2. /\ DOMAIN kept \subseteq DOMAIN scopes
            /\ \A s \in DOMAIN kept : kept[s] = scopes[s]
        BY DEF Restrict
      <4> HIDE DEF load, kept
      <4>3. \A s \in DOMAIN loads[n].pending : Sound(loads[n].pending[s].facts)
        BY <1>0 DEF Derivable
      <4>4. \A s \in DOMAIN scopes' : Sound(scopes'[s].facts)
        BY <1>0, <4>1, <4>2, <4>3 DEF Over
      <4> QED BY <3>1, <4>1, <4>4, OneDeriver
    <3> QED BY <3>2, <3>3
  <2>11. CASE SendsComplete(n) \/ SendsFailure(n)
    BY <1>5, <1>6, <2>11 DEF SendsComplete, SendsFailure
  <2>12. CASE Breaks(n)
    <3> DEFINE load == [Emptied(loads[n]) EXCEPT !.at = "failure"]
    <3>1. Becomes(n, load) /\ accepted' = accepted /\ scopes' = scopes
      BY <2>12 DEF Breaks, session
    <3>2. /\ DOMAIN load = Fields /\ load.target = loads[n].target /\ load.at = "failure"
          /\ load.found = <<>> /\ load.pending = <<>>
      BY <1>5 DEF Emptied, Fields
    <3>3. Derivable(load)
      BY <1>0, <3>2 DEF Derivable
    <3> HIDE DEF load
    <3> QED BY <1>3, <3>1, <3>3
  <2> QED BY <1>8, <2>1, <2>2, <2>3, <2>4, <2>5, <2>6, <2>7, <2>8, <2>9, <2>10, <2>11, <2>12 DEF Works
<1>9. CASE UNCHANGED vars
  BY <1>9 DEF vars, FactsInv, Orders
<1> QED BY <1>1, <1>2, <1>7, <1>8, <1>9 DEF Next

\* What the session holds of a scope is what follows from its files, however many loads, reading
\* only what had changed, it was put together from (load_scope, project_scope, commit).
THEOREM SessionFromScratch == Spec => []FactsAsFromScratch
<1>1. Init => FactsInv
  BY DEF Init, FactsInv, Orders
<1>2. FactsInv => FactsAsFromScratch
  BY DEF FactsInv, FactsAsFromScratch, Sound
<1> QED BY <1>1, <1>2, FactsNext, PTL DEF Spec

-----------------------------------------------------------------------------
(* Loads that nothing disturbed. *)

\* Of some scopes one comes first.
LEMMA FirstIsOneOfThem ==
  ASSUME NEW some, some \subseteq Range(Scopes), some # {}
  PROVE  FirstOf(some) \in some
<1> DEFINE places == {i \in DOMAIN Scopes : Scopes[i] \in some}
<1>1. DOMAIN Scopes = 1..Len(Scopes) /\ Len(Scopes) \in Nat
  BY PresentationAssumption
<1>2. places \subseteq Nat /\ places # {}
  <2>1. PICK s \in some : TRUE
    OBVIOUS
  <2>2. PICK i \in DOMAIN Scopes : Scopes[i] = s
    BY <2>1 DEF Range
  <2> QED BY <1>1, <2>1, <2>2
<1>3. PICK i \in places : \A j \in places : ~ (<<j, i>> \in OpToRel(<, Nat))
  BY <1>2, NatLessThanWellFounded, WFMin
<1>4. \A j \in places : i <= j
  <2> SUFFICES ASSUME NEW j \in places PROVE i <= j
    OBVIOUS
  <2>1. i \in Nat /\ j \in Nat
    BY <1>2
  <2>2. ~ (j < i)
    BY <1>3, <2>1 DEF OpToRel
  <2> QED BY <2>1, <2>2
<1> QED BY <1>4 DEF FirstOf

\* What a file that is no project map says does not depend on what is activated.
LEMMA ReflectsAnyway ==
  ASSUME NEW p, NEW file, NEW content, NEW active, NEW other,
         Reflects(p, file, content, active), KindOf[p] = "map" => active = other
  PROVE  Reflects(p, file, content, other)
BY DEF Reflects, ParsedFile

\* What a load makes of the content it read of a file is what it has to be.
LEMMA ParsedReflects ==
  ASSUME NEW p, NEW content, NEW active, NEW retry
  PROVE  Reflects(p, ParsedFile(p, content, active, retry), content, active)
BY DEF Reflects, ParsedFile

\* Where a load has walked the tree and not completed.
Working == {"scope", "recheck", "entries", "commit"}

\* What is kept of a scope: one file for each path, and of a file that is as it was what a load
\* makes of it.
Held(s, scope, d, e) ==
  /\ DOMAIN scope.facts.files = {p \in DOMAIN scope.found : ~ Lazy(p)}
  /\ \A p \in DOMAIN scope.found :
       p \in Path /\ ScopeOf[p] = s /\ scope.found[p].stamp \in 0..e
  /\ \A p \in DOMAIN scope.facts.files :
       "retry" \in DOMAIN scope.facts.files[p]
  /\ \A p \in DOMAIN scope.facts.files :
       ~ scope.facts.files[p].retry /\ d[p] # None /\ d[p].stamp = scope.found[p].stamp =>
         Reflects(p, scope.facts.files[p], d[p].content, scope.context)
  /\ scope.reusable => \A p \in DOMAIN scope.facts.files : ~ scope.facts.files[p].retry

\* A load that has walked: what it found is below its target, and what it made of it so far is kept
\* as a scope of the session is.
Walked(load, d, e) ==
  /\ \A p \in DOMAIN load.found :
       /\ p \in Covers[load.target]
       /\ DOMAIN load.found[p] = {"stamp", "handle"} /\ load.found[p].stamp \in 0..e
  /\ load.todo \cup DOMAIN load.pending = {ScopeOf[p] : p \in DOMAIN load.found}
  /\ load.at = "commit" <=> load.todo = {}
  /\ load.at = "entries" => FirstOf(load.todo) \in DOMAIN load.pending
  /\ \A s \in DOMAIN load.pending :
       /\ Held(s, load.pending[s], d, e)
       /\ DOMAIN load.pending[s].found \subseteq DOMAIN load.found

\* A load that has read a scope: what it did not read is as it was, and what is still as it was
\* found was read as it is.
Reading(load, d, e) ==
  LET s == FirstOf(load.todo)
      eager == {p \in DOMAIN load.found : ScopeOf[p] = s /\ ~ Lazy(p)}
      previous == load.previous
  IN  /\ Held(s, previous, d, e)
      /\ DOMAIN load.read \subseteq eager
      /\ \A p \in eager \ DOMAIN load.read :
           /\ p \in DOMAIN previous.facts.files
           /\ ~ previous.facts.files[p].retry
           /\ previous.found[p].stamp = load.found[p].stamp
           /\ KindOf[p] = "map" => previous.context = load.active
      /\ \A p \in DOMAIN load.read :
           /\ load.read[p].outcome \in {"read", "gone", "failed"}
           /\ load.read[p].outcome = "read" /\ d[p] # None /\ d[p].stamp = load.found[p].stamp =>
                load.read[p].content = d[p].content

\* A load during which nobody saved and no read failed has found what is on disk.
Undisturbed(load, d) ==
  /\ load.at = "catalogue" => load.active = None \/ load.active = d[Config].content.says
  /\ load.at \in {"walk"} \cup Working => load.active = d[Config].content.says
  /\ load.at \in Working =>
       /\ DOMAIN load.found = {p \in Covers[load.target] : d[p] # None}
       /\ \A p \in DOMAIN load.found : load.found[p].stamp = d[p].stamp
       /\ \A s \in DOMAIN load.pending :
            /\ DOMAIN load.pending[s].found = {p \in DOMAIN load.found : ScopeOf[p] = s}
            /\ \A p \in DOMAIN load.pending[s].facts.files :
                 Reflects(p, load.pending[s].facts.files[p], d[p].content, load.active)
  /\ load.at = "recheck" => \A p \in DOMAIN load.read : load.read[p].outcome = "read"

\* All that holds of a load by itself.
LoadInv(load, d, e) ==
  /\ DOMAIN load = Fields /\ load.target \in Target
  /\ load.at \notin Working => load.pending = <<>>
  /\ load.at \in Working => Walked(load, d, e)
  /\ load.at = "recheck" => Reading(load, d, e)
  /\ load.quiet => Undisturbed(load, d)

\* What the session shows below a target is what is on disk.
Shows(t, held, d) ==
  \A p \in Covers[t] :
    LET s == ScopeOf[p]
        shown == s \in DOMAIN held /\ p \in DOMAIN held[s].found
    IN  /\ shown <=> d[p] # None
        /\ shown /\ ~ Lazy(p) =>
             Reflects(p, held[s].facts.files[p], d[p].content, d[Config].content.says)

\* Nothing that was accepted after n and covers any of the same paths is completed.
Latest(n) ==
  \A m \in Orders : m > n /\ loads[m].committed => ~ Overlap(loads[m].target, loads[n].target)

\* The loads and the scopes of the session are as above, of loads of overlapping targets only the
\* last is current, and the last that completed undisturbed shows what is on disk.
CurrentInv ==
  /\ accepted \in Nat /\ edits \in Nat /\ DOMAIN loads = Orders /\ DOMAIN disk = Path
  /\ \A p \in Path : disk[p] # None => disk[p].stamp \in 0..edits
  /\ \A n \in Orders : LoadInv(loads[n], disk, edits)
  /\ \A s \in DOMAIN scopes : Held(s, scopes[s], disk, edits)
  /\ \A m, n \in Orders : m < n /\ Overlap(loads[m].target, loads[n].target) => ~ Current(m)
  /\ \A t \in DOMAIN requests : requests[t] \in Orders
  /\ \A n \in Orders :
       loads[n].committed /\ loads[n].quiet /\ Latest(n) => Shows(loads[n].target, scopes, disk)

\* The invariant says what QuietLoadIsCurrent says.
LEMMA CurrentMeans == CurrentInv => QuietLoadIsCurrent
BY DEF CurrentInv, QuietLoadIsCurrent, Shows, Latest

\* It holds at first, when there is no load and no scope.
LEMMA CurrentInit == Init => CurrentInv
<1> SUFFICES ASSUME Init PROVE CurrentInv
  OBVIOUS
<1>1. /\ accepted \in Nat /\ edits \in Nat /\ DOMAIN loads = Orders /\ Orders = {}
      /\ DOMAIN scopes = {} /\ DOMAIN requests = {}
  BY DEF Init, Orders
<1>2. DOMAIN disk = Path /\ \A p \in Path : disk[p] # None => disk[p].stamp \in 0..edits
  BY DEF Init
<1> QED BY <1>1, <1>2 DEF CurrentInv

\* A saved file has a stamp that nothing held of it has.
LEMMA HeldWhenSaved ==
  ASSUME NEW s, NEW scope, NEW d, NEW e \in Nat, NEW path, NEW value,
         DOMAIN d = Path, value # None => value.stamp = e + 1, Held(s, scope, d, e)
  PROVE  Held(s, scope, [d EXCEPT ![path] = value], e + 1)
<1> DEFINE new == [d EXCEPT ![path] = value]
<1>1. \A p \in Path : new[p] # None => new[p] = d[p] \/ new[p].stamp = e + 1
  OBVIOUS
<1> HIDE DEF new
<1>2. \A p \in DOMAIN scope.found :
        p \in Path /\ scope.found[p].stamp \in 0..(e + 1) /\ scope.found[p].stamp # e + 1
  BY DEF Held
<1>3. DOMAIN scope.facts.files \subseteq DOMAIN scope.found
  BY DEF Held
<1>4. \A p \in DOMAIN scope.facts.files :
        ~ scope.facts.files[p].retry /\ new[p] # None /\ new[p].stamp = scope.found[p].stamp =>
          Reflects(p, scope.facts.files[p], new[p].content, scope.context)
  BY <1>1, <1>2, <1>3 DEF Held
<1> QED BY <1>2, <1>4 DEF Held, new

\* A load remains what it is when an editor saves, but it is no longer undisturbed.
LEMMA LoadWhenSaved ==
  ASSUME NEW load, NEW d, NEW e \in Nat, NEW path, NEW value,
         DOMAIN d = Path, value # None => value.stamp = e + 1, LoadInv(load, d, e)
  PROVE  LoadInv([load EXCEPT !.quiet = FALSE], [d EXCEPT ![path] = value], e + 1)
<1> DEFINE new == [d EXCEPT ![path] = value]
           later == [load EXCEPT !.quiet = FALSE]
<1>1. /\ DOMAIN later = Fields /\ later.quiet = FALSE
      /\ \A f \in Fields \ {"quiet"} : later[f] = load[f]
  BY DEF LoadInv, Fields
<1>2. \A p \in Path : new[p] # None => new[p] = d[p] \/ new[p].stamp = e + 1
  OBVIOUS
<1>3. \A s, scope : Held(s, scope, d, e) => Held(s, scope, new, e + 1)
  BY HeldWhenSaved
<1> HIDE DEF new, later
<1>4. ASSUME load.at \in Working
      PROVE  Walked(later, new, e + 1)
  <2>1. Walked(load, d, e)
    BY <1>4 DEF LoadInv
  <2>2. /\ \A f \in {"target", "found", "todo", "pending", "at"} : later[f] = load[f]
        /\ \A i \in 0..e : i \in 0..(e + 1)
    BY <1>1 DEF Fields
  <2> QED BY <1>3, <2>1, <2>2 DEF Walked
<1>5. ASSUME load.at = "recheck"
      PROVE  Reading(later, new, e + 1)
  <2>1. Reading(load, d, e) /\ Walked(load, d, e)
    BY <1>5 DEF LoadInv, Working
  <2>2. \A f \in {"active", "found", "todo", "previous", "read"} : later[f] = load[f]
    BY <1>1 DEF Fields
  <2>3. \A p \in DOMAIN load.read : p \in Path /\ load.found[p].stamp # e + 1
    <3>1. Covers[load.target] \subseteq Path
      BY PresentationAssumption DEF LoadInv
    <3>2. DOMAIN load.read \subseteq DOMAIN load.found
      BY <2>1 DEF Reading
    <3>3. \A p \in DOMAIN load.found : p \in Covers[load.target] /\ load.found[p].stamp \in 0..e
      BY <2>1 DEF Walked
    <3> QED BY <3>1, <3>2, <3>3
  <2>4. \A p \in DOMAIN load.read :
          load.read[p].outcome = "read" /\ new[p] # None /\ new[p].stamp = load.found[p].stamp =>
            load.read[p].content = new[p].content
    BY <1>2, <2>1, <2>3 DEF Reading
  <2>5. Held(FirstOf(load.todo), load.previous, new, e + 1)
    BY <1>3, <2>1 DEF Reading
  <2> QED BY <2>1, <2>2, <2>4, <2>5 DEF Reading
<1>6. later.target \in Target /\ later.at = load.at /\ later.pending = load.pending
  BY <1>1 DEF LoadInv, Fields
<1>7. later.at \notin Working => later.pending = <<>>
  BY <1>6 DEF LoadInv
<1>8. /\ later.at \in Working => Walked(later, new, e + 1)
      /\ later.at = "recheck" => Reading(later, new, e + 1)
  BY <1>4, <1>5, <1>6
<1>9. DOMAIN later = Fields /\ ~ later.quiet
  BY <1>1
<1>10. LoadInv(later, new, e + 1)
  BY <1>6, <1>7, <1>8, <1>9 DEF LoadInv
<1> QED BY <1>10 DEF later, new

\* What the loader itself knows of a load.
Work == {"target", "at", "quiet", "active", "found", "todo", "previous", "read", "pending"}

\* The invariant of a load is about what its loader knows.
LEMMA SameWork ==
  ASSUME NEW old, NEW load, NEW d, NEW e, LoadInv(old, d, e), DOMAIN load = Fields,
         \A f \in Work : load[f] = old[f]
  PROVE  LoadInv(load, d, e)
<1>1. /\ load.target = old.target /\ load.at = old.at /\ load.quiet = old.quiet
      /\ load.active = old.active /\ load.found = old.found /\ load.todo = old.todo
      /\ load.previous = old.previous /\ load.read = old.read /\ load.pending = old.pending
  BY DEF Work
<1>2. Walked(old, d, e) => Walked(load, d, e)
  BY <1>1 DEF Walked
<1>3. Reading(old, d, e) => Reading(load, d, e)
  BY <1>1 DEF Reading
<1>4. Undisturbed(old, d) => Undisturbed(load, d)
  BY <1>1 DEF Undisturbed
<1>5. load.quiet => old.quiet
  BY <1>1
<1> QED BY <1>1, <1>2, <1>3, <1>4, <1>5 DEF LoadInv

\* A load that is over, or that has nothing to work on.
LEMMA Idle ==
  ASSUME NEW load, NEW d, NEW e, DOMAIN load = Fields, load.target \in Target,
         load.pending = <<>>, load.at \in {"activate", "complete", "failure", "done"}
  PROVE  LoadInv(load, d, e)
BY DEF LoadInv, Working, Undisturbed

\* No load becomes the current one again.
LEMMA StaysOld ==
  ASSUME CurrentInv, Orders' = Orders,
         \A m \in Orders : /\ loads'[m].target = loads[m].target
                           /\ ~ loads'[m].cancelled => ~ loads[m].cancelled,
         DOMAIN requests' \subseteq DOMAIN requests,
         \A t \in DOMAIN requests' : requests'[t] = requests[t]
  PROVE  /\ \A m \in Orders : Current(m)' => Current(m)
         /\ \A m, n \in Orders' :
              m < n /\ Overlap(loads'[m].target, loads'[n].target) => ~ Current(m)'
         /\ \A t \in DOMAIN requests' : requests'[t] \in Orders'
<1>1. \A m \in Orders : Current(m)' => Current(m)
  BY DEF Current
<1>2. \A t \in DOMAIN requests' : requests'[t] \in Orders'
  BY DEF CurrentInv
<1> QED BY <1>1, <1>2 DEF CurrentInv

\* A step of one load that commits nothing.
LEMMA OneLoads ==
  ASSUME CurrentInv, NEW n \in Orders, NEW load, Becomes(n, load),
         accepted' = accepted, UNCHANGED world, scopes' = scopes,
         LoadInv(load, disk, edits), load.target = loads[n].target,
         ~ load.cancelled => ~ loads[n].cancelled,
         load.committed <=> loads[n].committed,
         load.quiet => loads[n].quiet,
         DOMAIN requests' \subseteq DOMAIN requests,
         \A t \in DOMAIN requests' : requests'[t] = requests[t]
  PROVE  CurrentInv'
<1>1. /\ DOMAIN loads' = Orders /\ Orders' = Orders
      /\ \A m \in Orders : loads'[m] = IF m = n THEN load ELSE loads[m]
      /\ disk' = disk /\ edits' = edits
  BY DEF CurrentInv, Becomes, Orders, world
<1>2. \A m \in Orders : /\ loads'[m].target = loads[m].target
                        /\ ~ loads'[m].cancelled => ~ loads[m].cancelled
                        /\ loads'[m].committed <=> loads[m].committed
                        /\ loads'[m].quiet => loads[m].quiet
  BY <1>1
<1>3. /\ \A m, k \in Orders' :
           m < k /\ Overlap(loads'[m].target, loads'[k].target) => ~ Current(m)'
      /\ \A t \in DOMAIN requests' : requests'[t] \in Orders'
  BY <1>1, <1>2, StaysOld
<1>4. \A m \in Orders' : LoadInv(loads'[m], disk', edits')
  BY <1>1 DEF CurrentInv
<1>5. \A m \in Orders : Latest(m)' => Latest(m)
  BY <1>1, <1>2 DEF Latest
<1>6. \A m \in Orders' :
        loads'[m].committed /\ loads'[m].quiet /\ Latest(m)' =>
          Shows(loads'[m].target, scopes', disk')
  BY <1>1, <1>2, <1>5 DEF CurrentInv
<1>7. /\ accepted' \in Nat /\ edits' \in Nat /\ DOMAIN loads' = Orders' /\ DOMAIN disk' = Path
      /\ \A p \in Path : disk'[p] # None => disk'[p].stamp \in 0..edits'
      /\ \A s \in DOMAIN scopes' : Held(s, scopes'[s], disk', edits')
  BY <1>1 DEF CurrentInv
<1> QED BY <1>3, <1>4, <1>6, <1>7 DEF CurrentInv

\* A step of one load that leaves what its loader knows alone.
LEMMA OneElse ==
  ASSUME CurrentInv, NEW n \in Orders, NEW load, Becomes(n, load),
         accepted' = accepted, UNCHANGED world, scopes' = scopes,
         DOMAIN load = Fields, \A f \in Work : load[f] = loads[n][f],
         ~ load.cancelled => ~ loads[n].cancelled,
         load.committed <=> loads[n].committed,
         DOMAIN requests' \subseteq DOMAIN requests,
         \A t \in DOMAIN requests' : requests'[t] = requests[t]
  PROVE  CurrentInv'
<1>1. LoadInv(loads[n], disk, edits)
  BY DEF CurrentInv
<1>2. LoadInv(load, disk, edits)
  BY <1>1, SameWork
<1>3. load.target = loads[n].target /\ (load.quiet => loads[n].quiet)
  BY DEF Work
<1> QED BY <1>2, <1>3, OneLoads

\* A send, when the load that follows it is in order.
LEMMA OneSends ==
  ASSUME CurrentInv, NEW n \in Orders, NEW event, NEW sent, Sends(n, event, sent),
         DOMAIN sent = Fields, LoadInv(sent, disk, edits), sent.target = loads[n].target,
         ~ sent.cancelled => ~ loads[n].cancelled,
         sent.committed <=> loads[n].committed,
         sent.quiet => loads[n].quiet
  PROVE  CurrentInv'
<1>1. /\ accepted' = accepted /\ disk' = disk /\ edits' = edits /\ scopes' = scopes
      /\ requests' = requests
  BY DEF Sends, session, world
<1>2. DOMAIN loads[n] = Fields /\ loads[n].target \in Target
  BY DEF CurrentInv, LoadInv
<1>3. CASE Becomes(n, Finished(loads[n]))
  <2> DEFINE load == Finished(loads[n])
  <2>1. /\ DOMAIN load = Fields /\ load.target = loads[n].target
        /\ load.pending = <<>> /\ load.at = "done"
    BY <1>2 DEF Finished, Emptied, Fields
  <2>2. load.cancelled = loads[n].cancelled
    BY <1>2 DEF Finished, Emptied, Fields
  <2>3. load.committed = loads[n].committed
    BY <1>2 DEF Finished, Emptied, Fields
  <2>4. load.quiet = loads[n].quiet
    BY <1>2 DEF Finished, Emptied, Fields
  <2>5. Becomes(n, load)
    BY <1>3
  <2> HIDE DEF load
  <2>6. LoadInv(load, disk, edits)
    BY <1>2, <2>1, Idle
  <2>7. UNCHANGED world
    BY <1>1 DEF world
  <2> QED BY <1>1, <2>1, <2>2, <2>3, <2>4, <2>5, <2>6, <2>7, OneLoads
<1>4. CASE Becomes(n, [loads[n] EXCEPT !.parking = TRUE])
  <2> DEFINE load == [loads[n] EXCEPT !.parking = TRUE]
  <2>1. /\ DOMAIN load = Fields /\ \A f \in Work : load[f] = loads[n][f]
        /\ load.cancelled = loads[n].cancelled
    BY <1>2 DEF Fields, Work
  <2>2. load.committed = loads[n].committed
    BY <1>2 DEF Fields
  <2>3. Becomes(n, load) /\ UNCHANGED world
    BY <1>1, <1>4 DEF world
  <2> HIDE DEF load
  <2> QED BY <1>1, <2>1, <2>2, <2>3, OneElse
<1>5. CASE Becomes(n, [sent EXCEPT !.channel = Append(@, event)])
  <2> DEFINE load == [sent EXCEPT !.channel = Append(@, event)]
  <2>1. /\ DOMAIN load = Fields /\ \A f \in Work : load[f] = sent[f]
    BY DEF Fields, Work
  <2>2. load.cancelled = sent.cancelled
    BY DEF Fields
  <2>3. load.committed = sent.committed
    BY DEF Fields
  <2>4. Becomes(n, load) /\ UNCHANGED world
    BY <1>1, <1>5 DEF world
  <2> HIDE DEF load
  <2>5. LoadInv(load, disk, edits)
    BY <2>1, SameWork
  <2>6. load.target = sent.target /\ load.quiet = sent.quiet
    BY <2>1 DEF Work
  <2> QED BY <1>1, <2>2, <2>3, <2>4, <2>5, <2>6, OneLoads
<1> QED BY <1>3, <1>4, <1>5 DEF Sends

\* So does the invariant.
LEMMA CurrentWhenSaved == CurrentInv /\ Edit => CurrentInv'
<1> SUFFICES ASSUME CurrentInv, Edit PROVE CurrentInv'
  OBVIOUS
<1>1. PICK path, value :
        disk' = [disk EXCEPT ![path] = value] /\ (value # None => value.stamp = edits + 1)
  <2>1. PICK save \in Saves :
          disk' = [disk EXCEPT ![save.path] = IF save.content = None THEN None
                                 ELSE [content |-> save.content, stamp |-> edits + 1]]
    BY DEF Edit
  <2> DEFINE value == IF save.content = None THEN None
                      ELSE [content |-> save.content, stamp |-> edits + 1]
  <2>2. disk' = [disk EXCEPT ![save.path] = value] /\ (value # None => value.stamp = edits + 1)
    BY <2>1
  <2> QED BY <2>2
<1>2. /\ edits \in Nat /\ edits' = edits + 1 /\ Orders' = Orders /\ DOMAIN disk = Path
      /\ DOMAIN loads' = Orders
      /\ \A n \in Orders : loads'[n] = [loads[n] EXCEPT !.quiet = FALSE]
      /\ accepted' = accepted /\ accepted \in Nat /\ scopes' = scopes /\ requests' = requests
  BY DEF Edit, CurrentInv, session, Orders
<1>3. ASSUME NEW n \in Orders
      PROVE  /\ LoadInv(loads'[n], disk', edits')
             /\ loads'[n].target = loads[n].target /\ loads'[n].quiet = FALSE
             /\ loads'[n].cancelled = loads[n].cancelled
  <2>1. LoadInv(loads[n], disk, edits) /\ DOMAIN loads[n] = Fields
    BY DEF CurrentInv, LoadInv
  <2>2. LoadInv(loads'[n], disk', edits')
    <3>1. LoadInv([loads[n] EXCEPT !.quiet = FALSE], [disk EXCEPT ![path] = value], edits + 1)
      BY <1>1, <1>2, <2>1, LoadWhenSaved
    <3> QED BY <1>1, <1>2, <3>1
  <2>3. loads'[n].target = loads[n].target /\ loads'[n].quiet = FALSE
    BY <1>2, <2>1 DEF Fields
  <2>4. loads'[n].cancelled = loads[n].cancelled
    BY <1>2, <2>1 DEF Fields
  <2> QED BY <2>2, <2>3, <2>4
<1>4. /\ \A m, k \in Orders' :
           m < k /\ Overlap(loads'[m].target, loads'[k].target) => ~ Current(m)'
      /\ \A t \in DOMAIN requests' : requests'[t] \in Orders'
  BY <1>2, <1>3, StaysOld
<1>5. \A s \in DOMAIN scopes' : Held(s, scopes'[s], disk', edits')
  BY <1>1, <1>2, HeldWhenSaved DEF CurrentInv
<1>6. DOMAIN disk' = Path /\ \A p \in Path : disk'[p] # None => disk'[p].stamp \in 0..edits'
  <2>1. DOMAIN disk' = Path
    BY <1>1, <1>2
  <2>2. \A p \in Path : disk'[p] = disk[p] \/ disk'[p] = value
    BY <1>1, <1>2
  <2>3. \A p \in Path : disk[p] # None => disk[p].stamp \in 0..edits
    BY DEF CurrentInv
  <2> QED BY <1>1, <1>2, <2>1, <2>2, <2>3
<1>7. accepted' \in Nat /\ edits' \in Nat /\ DOMAIN loads' = Orders'
  BY <1>2
<1>8. \A n \in Orders' : LoadInv(loads'[n], disk', edits')
  BY Zenon, <1>2, <1>3
<1>9. \A n \in Orders' : ~ loads'[n].quiet
  BY <1>2, <1>3
<1> QED BY <1>4, <1>5, <1>6, <1>7, <1>8, <1>9 DEF CurrentInv

\* A load that is accepted supersedes those it overlaps with.
LEMMA CurrentWhenAccepted ==
  ASSUME CurrentInv, NEW t \in Target, Accepts(t)
  PROVE  CurrentInv'
<1> DEFINE order == accepted + 1
           Older(n) == \E u \in DOMAIN requests : requests[u] = n /\ Overlap(t, u)
<1>1. /\ accepted \in Nat /\ accepted' = order /\ Orders' = 1..order
      /\ Orders' = Orders \cup {order} /\ \A n \in Orders : n < order
      /\ disk' = disk /\ edits' = edits /\ scopes' = scopes
  BY DEF Accepts, Orders, CurrentInv, world
<1>2. /\ DOMAIN loads' = Orders'
      /\ loads'[order] = Started(t)
      /\ \A n \in Orders : loads'[n] = IF Older(n) THEN Superseded(loads[n]) ELSE loads[n]
  BY <1>1 DEF Accepts
<1>3. /\ DOMAIN requests' = DOMAIN requests \cup {t}
      /\ requests'[t] = order
      /\ \A u \in DOMAIN requests \ {t} : requests'[u] = requests[u]
  BY DEF Accepts, With, Over
<1>4. /\ LoadInv(Started(t), disk, edits) /\ Started(t).target = t
      /\ ~ Started(t).committed
  BY DEF LoadInv, Started, Fields, Working, Undisturbed
<1>5. ASSUME NEW n \in Orders
      PROVE  /\ LoadInv(loads'[n], disk, edits)
             /\ loads'[n].target = loads[n].target
             /\ loads'[n].quiet = loads[n].quiet /\ loads'[n].committed = loads[n].committed
             /\ Older(n) => loads'[n].cancelled
             /\ ~ loads'[n].cancelled => ~ loads[n].cancelled
  <2>0. LoadInv(loads[n], disk, edits) /\ DOMAIN loads[n] = Fields
    BY DEF CurrentInv, LoadInv
  <2>1. CASE ~ Older(n)
    BY <1>2, <2>0, <2>1
  <2>2. CASE Older(n)
    <3> DEFINE load == Superseded(loads[n])
    <3>1. DOMAIN load = Fields /\ load.cancelled
      BY <2>0 DEF Superseded, Woken, Fields
    <3>2. \A f \in Work \ {"quiet"} : load[f] = loads[n][f]
      BY <2>0 DEF Superseded, Woken, Fields, Work
    <3>3. load.quiet = loads[n].quiet
      BY <2>0 DEF Superseded, Woken, Fields
    <3>4. load.committed = loads[n].committed
      BY <2>0 DEF Superseded, Woken, Fields
    <3>5. loads'[n] = load
      BY <1>2, <2>2
    <3> HIDE DEF load
    <3>6. \A f \in Work : load[f] = loads[n][f]
      BY <3>2, <3>3 DEF Work
    <3>7. LoadInv(load, disk, edits)
      BY <2>0, <3>1, <3>6, SameWork
    <3>8. load.target = loads[n].target
      BY <3>6 DEF Work
    <3> QED BY <2>2, <3>1, <3>3, <3>4, <3>5, <3>7, <3>8
  <2> QED BY <2>1, <2>2
<1>6. \A n \in Orders' : LoadInv(loads'[n], disk', edits')
  BY <1>1, <1>2, <1>4, <1>5
<1>7. ASSUME NEW m \in Orders', NEW n \in Orders', m < n,
             Overlap(loads'[m].target, loads'[n].target), Current(m)'
      PROVE  FALSE
  <2>1. m \in Orders /\ m < order
    BY <1>1, <1>7
  <2> DEFINE u == loads[m].target
  <2>2. u \in DOMAIN requests' /\ requests'[u] = m /\ ~ loads'[m].cancelled
    BY <1>5, <1>7, <2>1 DEF Current
  <2>3. u \in DOMAIN requests /\ requests[u] = m
    BY <1>1, <1>3, <2>1, <2>2
  <2>4. CASE n = order
    <3>1. Overlap(t, u)
      BY <1>2, <1>4, <1>5, <1>7, <2>1, <2>4 DEF Overlap
    <3> QED BY <1>5, <2>1, <2>2, <2>3, <3>1
  <2>5. CASE n # order
    <3>1. n \in Orders
      BY <1>1, <2>5
    <3>2. Current(m)
      BY <1>5, <2>1, <2>2, <2>3 DEF Current
    <3>3. Overlap(loads[m].target, loads[n].target)
      BY <1>5, <1>7, <2>1, <3>1
    <3> QED BY <1>7, <2>1, <3>1, <3>2, <3>3 DEF CurrentInv
  <2> QED BY <2>4, <2>5
<1>8. \A u \in DOMAIN requests' : requests'[u] \in Orders'
  BY <1>1, <1>3 DEF CurrentInv
<1>9. ASSUME NEW n \in Orders', loads'[n].committed, loads'[n].quiet, Latest(n)'
      PROVE  Shows(loads'[n].target, scopes', disk')
  <2>1. n \in Orders /\ loads[n].committed /\ loads[n].quiet
    BY <1>1, <1>2, <1>4, <1>5, <1>9
  <2>2. Latest(n)
    BY <1>1, <1>5, <1>9, <2>1 DEF Latest
  <2> QED BY <1>1, <1>5, <2>1, <2>2 DEF CurrentInv
<1>10. /\ accepted' \in Nat /\ edits' \in Nat /\ DOMAIN disk' = Path
       /\ \A p \in Path : disk'[p] # None => disk'[p].stamp \in 0..edits'
       /\ \A s \in DOMAIN scopes' : Held(s, scopes'[s], disk', edits')
  BY <1>1 DEF CurrentInv
<1> QED BY <1>2, <1>6, <1>7, <1>8, <1>9, <1>10 DEF CurrentInv

\* The walk finds what is on disk.
LEMMA CurrentWhenWalked ==
  ASSUME CurrentInv, NEW n \in Orders, Walks(n)
  PROVE  CurrentInv'
<1> DEFINE paths == {p \in Covers[loads[n].target] : disk[p] # None}
           Handle(p) == IF ~ Lazy(p) THEN 0
                        ELSE IF p \in {q \in paths : Lazy(q) /\ HandleLost(q)} THEN issued + 1
                        ELSE scopes[ScopeOf[p]].found[p].handle
           found == [p \in paths |-> [stamp |-> disk[p].stamp, handle |-> Handle(p)]]
           todo == {ScopeOf[p] : p \in paths}
           load == [loads[n] EXCEPT !.at = IF todo = {} THEN "commit" ELSE "scope",
                                    !.found = found, !.todo = todo]
<1>1. /\ Becomes(n, load) /\ loads[n].at = "walk"
      /\ accepted' = accepted /\ UNCHANGED world /\ scopes' = scopes /\ requests' = requests
  BY DEF Walks
<1>2. DOMAIN loads[n] = Fields /\ LoadInv(loads[n], disk, edits) /\ loads[n].target \in Target
  BY DEF CurrentInv, LoadInv
<1>3. /\ DOMAIN load = Fields /\ load.target = loads[n].target
      /\ load.at = (IF todo = {} THEN "commit" ELSE "scope") /\ load.found = found
      /\ load.todo = todo /\ load.pending = loads[n].pending /\ load.active = loads[n].active
  BY <1>2 DEF Fields
<1>4. load.cancelled = loads[n].cancelled
  BY <1>2 DEF Fields
<1>5. load.committed = loads[n].committed
  BY <1>2 DEF Fields
<1>6. load.quiet = loads[n].quiet
  BY <1>2 DEF Fields
<1>7. /\ DOMAIN found = paths
      /\ \A p \in paths :
           found[p].stamp = disk[p].stamp /\ DOMAIN found[p] = {"stamp", "handle"}
  OBVIOUS
<1>8. \A p \in paths : p \in Covers[load.target] /\ disk[p].stamp \in 0..edits
  <2>1. Covers[load.target] \subseteq Path
    BY <1>2, <1>3, PresentationAssumption
  <2> QED BY <1>3, <2>1 DEF CurrentInv
<1> HIDE DEF load, found
<1>9. load.pending = <<>> /\ DOMAIN load.pending = {}
  BY <1>1, <1>2, <1>3 DEF LoadInv, Working
<1>10. Walked(load, disk, edits)
  <2>1. load.todo \cup DOMAIN load.pending = {ScopeOf[p] : p \in DOMAIN load.found}
    BY <1>3, <1>7, <1>9
  <2> QED BY <1>3, <1>7, <1>8, <1>9, <2>1 DEF Walked
<1>11. load.quiet => Undisturbed(load, disk)
  <2>1. loads[n].quiet => loads[n].active = disk[Config].content.says
    BY <1>1, <1>2 DEF LoadInv, Undisturbed
  <2> QED BY <1>3, <1>6, <1>7, <1>9, <2>1 DEF Undisturbed
<1>12. LoadInv(load, disk, edits)
  <2>1. load.target \in Target /\ load.at \in Working /\ load.at # "recheck"
    BY <1>2, <1>3 DEF Working
  <2> QED BY <1>3, <1>10, <1>11, <2>1 DEF LoadInv
<1> QED BY <1>1, <1>3, <1>4, <1>5, <1>6, <1>12, OneLoads

\* While there is something left to do, its first scope is one of those the walk found.
LEMMA NextScope ==
  ASSUME NEW load, NEW d, NEW e, LoadInv(load, d, e), load.at \in Working, load.at # "commit"
  PROVE  FirstOf(load.todo) \in load.todo
<1>1. Walked(load, d, e)
  BY DEF LoadInv
<1>2. load.todo # {}
  BY <1>1 DEF Walked
<1>3. DOMAIN load.found \subseteq Path
  BY <1>1, PresentationAssumption DEF Walked, LoadInv
<1>4. load.todo \subseteq {ScopeOf[p] : p \in DOMAIN load.found}
  BY <1>1 DEF Walked
<1>5. load.todo \subseteq Range(Scopes)
  BY <1>3, <1>4, PresentationAssumption
<1> QED BY <1>2, <1>5, FirstIsOneOfThem

\* A scope that is derived or taken over joins the pending ones.
LEMMA Joins ==
  ASSUME NEW old, NEW load, NEW d, NEW e, NEW scope, LoadInv(old, d, e),
         old.at \in {"scope", "recheck"}, load.at = "entries", DOMAIN load = Fields,
         load.target = old.target, load.found = old.found, load.todo = old.todo,
         load.active = old.active, load.quiet => old.quiet,
         load.pending = With(FirstOf(old.todo), scope, old.pending),
         Held(FirstOf(old.todo), scope, d, e), DOMAIN scope.found \subseteq DOMAIN old.found,
         old.quiet =>
           /\ DOMAIN scope.found = {p \in DOMAIN old.found : ScopeOf[p] = FirstOf(old.todo)}
           /\ \A p \in DOMAIN scope.facts.files :
                Reflects(p, scope.facts.files[p], d[p].content, old.active)
  PROVE  LoadInv(load, d, e)
<1> DEFINE s == FirstOf(old.todo)
<1>1. Walked(old, d, e) /\ s \in old.todo /\ load.at \in Working /\ load.target \in Target
  BY NextScope DEF LoadInv, Working
<1> HIDE DEF s
<1>2. /\ DOMAIN load.pending = {s} \cup DOMAIN old.pending
      /\ \A u \in DOMAIN load.pending :
           load.pending[u] = IF u = s THEN scope ELSE old.pending[u]
  BY DEF With, Over, s
<1>3. Walked(load, d, e)
  <2>1. load.todo \cup DOMAIN load.pending = {ScopeOf[p] : p \in DOMAIN load.found}
    BY <1>1, <1>2 DEF Walked
  <2>2. \A u \in DOMAIN load.pending :
          /\ Held(u, load.pending[u], d, e)
          /\ DOMAIN load.pending[u].found \subseteq DOMAIN load.found
    BY <1>1, <1>2 DEF Walked, s
  <2>3. load.todo # {} /\ FirstOf(load.todo) \in DOMAIN load.pending
    BY <1>1, <1>2 DEF s
  <2> QED BY <1>1, <2>1, <2>2, <2>3 DEF Walked
<1>4. ASSUME old.quiet
      PROVE  Undisturbed(load, d)
  <2>1. Undisturbed(old, d)
    BY <1>4 DEF LoadInv
  <2>2. /\ old.active = d[Config].content.says
        /\ DOMAIN old.found = {p \in Covers[old.target] : d[p] # None}
        /\ \A p \in DOMAIN old.found : old.found[p].stamp = d[p].stamp
        /\ \A u \in DOMAIN old.pending :
             /\ DOMAIN old.pending[u].found = {p \in DOMAIN old.found : ScopeOf[p] = u}
             /\ \A p \in DOMAIN old.pending[u].facts.files :
                  Reflects(p, old.pending[u].facts.files[p], d[p].content, old.active)
    BY <2>1 DEF Undisturbed, Working
  <2>3. \A u \in DOMAIN load.pending :
          /\ DOMAIN load.pending[u].found = {p \in DOMAIN load.found : ScopeOf[p] = u}
          /\ \A p \in DOMAIN load.pending[u].facts.files :
               Reflects(p, load.pending[u].facts.files[p], d[p].content, load.active)
    BY <1>2, <1>4, <2>2 DEF s
  <2> QED BY <2>2, <2>3 DEF Undisturbed
<1>5. load.at # "recheck"
  OBVIOUS
<1> QED BY <1>1, <1>3, <1>4, <1>5 DEF LoadInv

\* What was loaded of a scope before, if anything was, is in order.
LEMMA PreviousHeld ==
  ASSUME CurrentInv, NEW s
  PROVE  Held(s, Previous(s), disk, edits)
<1>1. CASE s \in DOMAIN scopes
  BY <1>1 DEF CurrentInv, Previous
<1>2. CASE s \notin DOMAIN scopes
  <2>1. Previous(s) = [facts |-> Nothing, found |-> <<>>, reusable |-> FALSE, context |-> {}]
    BY <1>2 DEF Previous
  <2>2. DOMAIN Previous(s).facts.files = {} /\ DOMAIN Previous(s).found = {}
    BY <2>1 DEF Nothing
  <2>3. DOMAIN Previous(s).facts.files = {p \in DOMAIN Previous(s).found : ~ Lazy(p)}
    BY <2>2
  <2> QED BY <2>2, <2>3 DEF Held
<1> QED BY <1>1, <1>2

\* The context a scope is loaded in is what is activated, if there is a project map in it.
LEMMA ContextOfMap ==
  ASSUME NEW load, NEW p \in DOMAIN load.found, KindOf[p] = "map"
  PROVE  Context(load, ScopeOf[p]) = load.active
BY DEF Context

\* A scope that is taken over whole is as it was found.
LEMMA CurrentWhenReused ==
  ASSUME CurrentInv, NEW n \in Orders, Reuses(n)
  PROVE  CurrentInv'
<1> DEFINE s == FirstOf(loads[n].todo)
           load == [loads[n] EXCEPT !.at = "entries", !.pending = With(s, Previous(s), @)]
<1>1. /\ Becomes(n, load) /\ loads[n].at = "scope" /\ Unchanged(n, s)
      /\ accepted' = accepted /\ UNCHANGED world /\ scopes' = scopes /\ requests' = requests
  BY DEF Reuses, session
<1>2. DOMAIN loads[n] = Fields /\ LoadInv(loads[n], disk, edits)
  BY DEF CurrentInv, LoadInv
<1>3. /\ DOMAIN load = Fields /\ load.target = loads[n].target /\ load.at = "entries"
      /\ load.found = loads[n].found /\ load.todo = loads[n].todo
      /\ load.active = loads[n].active /\ load.pending = With(s, Previous(s), loads[n].pending)
  BY <1>2 DEF Fields
<1>4. load.cancelled = loads[n].cancelled
  BY <1>2 DEF Fields
<1>5. load.committed = loads[n].committed
  BY <1>2 DEF Fields
<1>6. load.quiet = loads[n].quiet
  BY <1>2 DEF Fields
<1> HIDE DEF load
<1>7. Held(s, Previous(s), disk, edits)
  BY PreviousHeld
<1>8. /\ DOMAIN Previous(s).found = {p \in DOMAIN loads[n].found : ScopeOf[p] = s}
      /\ \A p \in DOMAIN Previous(s).found : Previous(s).found[p].stamp = loads[n].found[p].stamp
      /\ Previous(s).reusable /\ Previous(s).context = Context(loads[n], s)
  BY <1>1 DEF Unchanged, FoundIn, Restrict
<1>9. ASSUME loads[n].quiet, NEW p \in DOMAIN Previous(s).facts.files
      PROVE  Reflects(p, Previous(s).facts.files[p], disk[p].content, loads[n].active)
  <2>1. /\ DOMAIN loads[n].found = {q \in Covers[loads[n].target] : disk[q] # None}
        /\ \A q \in DOMAIN loads[n].found : loads[n].found[q].stamp = disk[q].stamp
    BY <1>1, <1>2, <1>9 DEF LoadInv, Undisturbed, Working
  <2>2. p \in DOMAIN Previous(s).found /\ ~ Previous(s).facts.files[p].retry
    BY <1>7, <1>8, <1>9 DEF Held
  <2>3. disk[p] # None /\ disk[p].stamp = Previous(s).found[p].stamp
    BY <1>8, <2>1, <2>2
  <2>4. Reflects(p, Previous(s).facts.files[p], disk[p].content, Previous(s).context)
    BY <1>7, <1>9, <2>2, <2>3 DEF Held
  <2>5. KindOf[p] = "map" => Previous(s).context = loads[n].active
    BY <1>8, <2>2, ContextOfMap
  <2> QED BY <2>4, <2>5, ReflectsAnyway
<1>10. DOMAIN Previous(s).found \subseteq DOMAIN loads[n].found
  BY <1>8
<1> DEFINE old == loads[n]
           scope == Previous(s)
<1>11. LoadInv(load, disk, edits)
  <2>1. old.at \in {"scope", "recheck"} /\ (load.quiet => old.quiet)
    BY <1>1, <1>6
  <2> HIDE DEF old, scope
  <2> QED BY <1>2, <1>3, <1>7, <1>8, <1>9, <1>10, <2>1, Joins DEF old, scope
<1> QED BY <1>1, <1>3, <1>4, <1>5, <1>6, <1>11, OneLoads

\* The files that were read say what is on disk, until an editor saves.
LEMMA CurrentWhenRead ==
  ASSUME CurrentInv, NEW n \in Orders, NEW failing, Reads(n, failing),
         UNCHANGED <<world, session>>
  PROVE  CurrentInv'
<1> DEFINE s == FirstOf(loads[n].todo)
           again == {p \in DOMAIN FoundIn(loads[n], s) : ~ Lazy(p) /\ Reread(n, s, p)}
           read == [p \in again |->
                      IF p \in failing THEN [outcome |-> "failed", content |-> None]
                      ELSE IF disk[p] = None THEN [outcome |-> "gone", content |-> None]
                      ELSE [outcome |-> "read", content |-> disk[p].content]]
           load == [loads[n] EXCEPT !.at = "recheck", !.quiet = @ /\ failing = {},
                                    !.previous = Previous(s), !.read = read]
<1>1. /\ Becomes(n, load) /\ loads[n].at = "scope"
      /\ accepted' = accepted /\ UNCHANGED world /\ scopes' = scopes /\ requests' = requests
  BY DEF Reads, session
<1>2. DOMAIN loads[n] = Fields /\ LoadInv(loads[n], disk, edits) /\ loads[n].target \in Target
  BY DEF CurrentInv, LoadInv
<1>3. /\ DOMAIN load = Fields /\ load.target = loads[n].target /\ load.at = "recheck"
      /\ load.found = loads[n].found /\ load.todo = loads[n].todo
      /\ load.active = loads[n].active /\ load.pending = loads[n].pending
      /\ load.previous = Previous(s) /\ load.read = read
  BY <1>2 DEF Fields
<1>4. load.cancelled = loads[n].cancelled
  BY <1>2 DEF Fields
<1>5. load.committed = loads[n].committed
  BY <1>2 DEF Fields
<1>6. load.quiet => loads[n].quiet /\ failing = {}
  BY <1>2 DEF Fields
<1>7. /\ DOMAIN read = again
      /\ \A p \in again :
           /\ read[p].outcome \in {"read", "gone", "failed"}
           /\ read[p].outcome = "read" => read[p].content = disk[p].content
           /\ failing = {} /\ disk[p] # None => read[p].outcome = "read"
  OBVIOUS
<1>8. again \subseteq {p \in DOMAIN loads[n].found : ScopeOf[p] = s /\ ~ Lazy(p)}
  BY DEF FoundIn, Restrict
<1>9. ASSUME NEW p \in DOMAIN loads[n].found, ScopeOf[p] = s, ~ Lazy(p), p \notin again
      PROVE  /\ p \in DOMAIN Previous(s).facts.files
             /\ ~ Previous(s).facts.files[p].retry
             /\ Previous(s).found[p].stamp = loads[n].found[p].stamp
             /\ KindOf[p] = "map" => Previous(s).context = loads[n].active
  <2>1. ~ Reread(n, s, p)
    BY <1>9 DEF FoundIn, Restrict
  <2> QED BY <1>9, <2>1, ContextOfMap DEF Reread
<1>10. Walked(loads[n], disk, edits)
  BY <1>1, <1>2 DEF LoadInv, Working
<1> HIDE DEF load, read, again
<1>11. Walked(load, disk, edits)
  BY <1>1, <1>3, <1>10 DEF Walked
<1>12. Reading(load, disk, edits)
  <2>1. Held(s, Previous(s), disk, edits)
    BY PreviousHeld
  <2> HIDE DEF s
  <2>2. s = FirstOf(load.todo)
    BY <1>3 DEF s
  <2> QED BY <1>3, <1>7, <1>8, <1>9, <2>1, <2>2 DEF Reading
<1>13. ASSUME load.quiet
       PROVE  Undisturbed(load, disk)
  <2>1. Undisturbed(loads[n], disk) /\ failing = {}
    BY <1>2, <1>6, <1>13 DEF LoadInv
  <2>2. DOMAIN loads[n].found = {p \in Covers[loads[n].target] : disk[p] # None}
    BY <1>1, <2>1 DEF Undisturbed, Working
  <2>3. \A p \in DOMAIN load.read : load.read[p].outcome = "read"
    BY <1>3, <1>7, <1>8, <2>1, <2>2
  <2> QED BY <1>1, <1>3, <2>1, <2>3 DEF Undisturbed, Working
<1>14. LoadInv(load, disk, edits)
  <2>1. load.at \in Working /\ load.target \in Target
    BY <1>2, <1>3 DEF Working
  <2> QED BY <1>3, <1>11, <1>12, <1>13, <2>1 DEF LoadInv
<1> QED BY <1>1, <1>3, <1>4, <1>5, <1>6, <1>14, OneLoads

\* What becomes of a scope that was read and looked at again: its stamps are those of the content
\* it shows, but for files it marks for another try.
LEMMA LoadedHeld ==
  ASSUME CurrentInv, NEW n \in Orders, loads[n].at = "recheck"
  PROVE  LET load == loads[n]
             s == FirstOf(load.todo)
             scope == LoadedScope(load, s)
         IN  /\ Held(s, scope, disk, edits)
             /\ DOMAIN scope.found \subseteq DOMAIN load.found
             /\ load.quiet =>
                  /\ DOMAIN scope.found = {p \in DOMAIN load.found : ScopeOf[p] = s}
                  /\ \A p \in DOMAIN scope.facts.files :
                       Reflects(p, scope.facts.files[p], disk[p].content, load.active)
<1> DEFINE load == loads[n]
           s == FirstOf(load.todo)
           scope == LoadedScope(load, s)
           read == load.read
           previous == load.previous
           kept == DOMAIN FoundIn(load, s) \ Vanished(read)
           looked == {p \in DOMAIN read : read[p].outcome = "read" /\ disk[p] # None}
           raced == {p \in looked : disk[p].stamp # load.found[p].stamp}
           files == [p \in {p \in kept : ~ Lazy(p)} |->
                       IF p \notin DOMAIN read THEN previous.facts.files[p]
                       ELSE IF read[p].outcome = "read"
                       THEN ParsedFile(p, read[p].content, load.active, p \in raced)
                       ELSE UnreadFile(previous, p)]
<1>1. /\ LoadInv(load, disk, edits) /\ Walked(load, disk, edits) /\ Reading(load, disk, edits)
      /\ load.target \in Target
  BY DEF CurrentInv, LoadInv, Working
<1>2. /\ scope.facts.files = files /\ DOMAIN scope.found = kept
      /\ \A p \in kept : scope.found[p].stamp = IF p \in looked THEN disk[p].stamp
                                                ELSE load.found[p].stamp
      /\ scope.context = Context(load, s)
  <2>1. /\ scope.facts.files = files
        /\ scope.found = [p \in kept |-> IF p \in looked
                                         THEN [load.found[p] EXCEPT !.stamp = disk[p].stamp]
                                         ELSE load.found[p]]
        /\ scope.context = Context(load, s)
    BY DEF LoadedScope, Projected
  <2>2. \A p \in kept : DOMAIN load.found[p] = {"stamp", "handle"}
    BY <1>1 DEF FoundIn, Restrict, Walked
  <2> QED BY <2>1, <2>2
<1>3. kept = {p \in DOMAIN load.found : ScopeOf[p] = s} \ Vanished(read)
  BY DEF FoundIn, Restrict
<1>4. /\ DOMAIN read \subseteq {p \in DOMAIN load.found : ScopeOf[p] = s /\ ~ Lazy(p)}
      /\ \A p \in DOMAIN read : read[p].outcome \in {"read", "gone", "failed"}
      /\ \A p \in DOMAIN read \cap kept : read[p].outcome # "gone"
  BY <1>1, <1>3 DEF Reading, Vanished
<1>5. /\ DOMAIN files = {p \in kept : ~ Lazy(p)}
      /\ \A p \in DOMAIN files \ DOMAIN read : files[p] = previous.facts.files[p]
      /\ \A p \in DOMAIN files \cap DOMAIN read :
           read[p].outcome = "read" =>
             files[p] = ParsedFile(p, read[p].content, load.active, p \in raced)
      /\ \A p \in DOMAIN files \cap DOMAIN read :
           read[p].outcome # "read" => files[p] = UnreadFile(previous, p)
  OBVIOUS
<1>6. \A p, content, active : ParsedFile(p, content, active, FALSE).retry = FALSE
  BY DEF ParsedFile
<1>7. \A p, content, active : ParsedFile(p, content, active, TRUE).retry = TRUE
  BY DEF ParsedFile
<1>8. Context(load, s) = load.active \/ \A p \in kept : KindOf[p] # "map"
  BY <1>3 DEF Context
<1>9. \A p \in DOMAIN load.found :
        /\ p \in Path /\ load.found[p].stamp \in 0..edits
        /\ disk[p] # None => disk[p].stamp \in 0..edits
  <2>1. Covers[load.target] \subseteq Path
    BY <1>1, PresentationAssumption
  <2> QED BY <1>1, <2>1 DEF Walked, CurrentInv
<1>10. Held(s, previous, disk, edits)
  BY <1>1 DEF Reading
<1> HIDE DEF files, scope, kept, looked, raced
\* A file that was not read again is what it was held for.
<1>11. ASSUME NEW p \in DOMAIN files \ DOMAIN read
       PROVE  /\ ~ files[p].retry
              /\ disk[p] # None /\ disk[p].stamp = load.found[p].stamp =>
                   Reflects(p, files[p], disk[p].content, load.active)
  <2>1. p \in DOMAIN load.found /\ ScopeOf[p] = s /\ ~ Lazy(p)
    BY <1>3, <1>5, <1>11
  <2>2. /\ p \in DOMAIN previous.facts.files /\ ~ previous.facts.files[p].retry
        /\ previous.found[p].stamp = load.found[p].stamp
        /\ KindOf[p] = "map" => previous.context = load.active
    BY <1>1, <1>11, <2>1 DEF Reading
  <2>3. ASSUME disk[p] # None, disk[p].stamp = load.found[p].stamp
        PROVE  Reflects(p, files[p], disk[p].content, load.active)
    <3>1. Reflects(p, previous.facts.files[p], disk[p].content, previous.context)
      BY <1>10, <2>2, <2>3 DEF Held
    <3> QED BY <1>5, <1>11, <2>2, <3>1, ReflectsAnyway
  <2> QED BY <1>5, <1>11, <2>2, <2>3
\* A file that was read is what was read.
<1>12. ASSUME NEW p \in DOMAIN files \cap DOMAIN read, read[p].outcome = "read",
              disk[p] # None, disk[p].stamp = load.found[p].stamp
       PROVE  Reflects(p, files[p], disk[p].content, load.active)
  <2>1. read[p].content = disk[p].content
    BY <1>1, <1>12 DEF Reading
  <2>2. files[p] = ParsedFile(p, disk[p].content, load.active, p \in raced)
    BY <1>5, <1>12, <2>1
  <2> QED BY <2>2, ParsedReflects
<1>13. ASSUME NEW p \in DOMAIN files, ~ files[p].retry, disk[p] # None,
              disk[p].stamp = scope.found[p].stamp
       PROVE  Reflects(p, files[p], disk[p].content, load.active)
  <2>1. p \in kept
    BY <1>5
  <2>2. CASE p \notin DOMAIN read
    <3>1. scope.found[p].stamp = load.found[p].stamp
      BY <1>2, <2>1, <2>2 DEF looked
    <3> QED BY <1>11, <1>13, <2>2, <3>1
  <2>3. CASE p \in DOMAIN read /\ read[p].outcome = "read"
    <3>1. p \in looked
      BY <1>13, <2>3 DEF looked
    <3>2. p \notin raced
      <4>1. CASE p \in raced
        <5>1. files[p] = ParsedFile(p, read[p].content, load.active, TRUE)
          BY <1>5, <2>3, <4>1
        <5> QED BY <1>7, <1>13, <5>1
      <4> QED BY <4>1
    <3>3. disk[p].stamp = load.found[p].stamp
      BY <3>1, <3>2 DEF raced
    <3> QED BY <1>12, <1>13, <2>3, <3>3
  <2>4. CASE p \in DOMAIN read /\ read[p].outcome # "read"
    <3>1. files[p].retry = TRUE
      <4>1. files[p] = UnreadFile(previous, p)
        BY <1>5, <2>4
      <4>2. CASE p \in DOMAIN previous.facts.files
        <5>1. "retry" \in DOMAIN previous.facts.files[p]
          BY <1>10, <4>2 DEF Held
        <5> QED BY <4>1, <4>2, <5>1 DEF UnreadFile
      <4>3. CASE p \notin DOMAIN previous.facts.files
        BY <4>1, <4>3 DEF UnreadFile
      <4> QED BY <4>2, <4>3
    <3> QED BY <1>13, <3>1
  <2> QED BY <2>2, <2>3, <2>4
\* The context of the scope is what is activated wherever that matters.
<1>14. ASSUME NEW p \in DOMAIN files, ~ files[p].retry, disk[p] # None,
              disk[p].stamp = scope.found[p].stamp
       PROVE  Reflects(p, files[p], disk[p].content, scope.context)
  <2>1. KindOf[p] = "map" => scope.context = load.active
    BY <1>2, <1>5, <1>8
  <2> QED BY <1>13, <1>14, <2>1, ReflectsAnyway
<1>15. ASSUME scope.reusable, NEW p \in DOMAIN files
       PROVE  ~ files[p].retry
  <2>1. raced = {} /\ \A q \in DOMAIN read : read[q].outcome # "failed"
    BY <1>15 DEF scope, LoadedScope, raced, looked
  <2>2. CASE p \notin DOMAIN read
    BY <1>11, <2>2
  <2>3. CASE p \in DOMAIN read
    <3>1. read[p].outcome = "read"
      BY <1>4, <1>5, <2>1, <2>3
    <3>2. files[p] = ParsedFile(p, read[p].content, load.active, FALSE)
      <4>1. files[p] = ParsedFile(p, read[p].content, load.active, p \in raced)
        BY <1>5, <2>3, <3>1
      <4>2. (p \in raced) = FALSE
        BY <2>1
      <4> QED BY <4>1, <4>2
    <3> QED BY <1>6, <3>2
  <2> QED BY <2>2, <2>3
<1>16. ASSUME NEW p \in DOMAIN files
       PROVE  "retry" \in DOMAIN files[p]
  <2>1. CASE p \notin DOMAIN read
    <3>1. p \in DOMAIN load.found /\ ScopeOf[p] = s /\ ~ Lazy(p)
      BY <1>3, <1>5, <1>16
    <3>2. p \in DOMAIN previous.facts.files
      BY <1>1, <2>1, <3>1 DEF Reading
    <3> QED BY <1>5, <1>10, <2>1, <3>2 DEF Held
  <2>2. CASE p \in DOMAIN read /\ read[p].outcome = "read"
    BY <1>5, <2>2 DEF ParsedFile
  <2>3. CASE p \in DOMAIN read /\ read[p].outcome # "read"
    <3>1. files[p] = UnreadFile(previous, p)
      BY <1>5, <2>3
    <3>2. p \in DOMAIN previous.facts.files => "retry" \in DOMAIN previous.facts.files[p]
      BY <1>10 DEF Held
    <3> QED BY <3>1, <3>2 DEF UnreadFile
  <2> QED BY <2>1, <2>2, <2>3
<1>17. \A p \in DOMAIN scope.found :
         p \in Path /\ ScopeOf[p] = s /\ scope.found[p].stamp \in 0..edits
  <2>1. \A p \in kept : p \in DOMAIN load.found /\ ScopeOf[p] = s
    BY <1>3
  <2>2. \A p \in looked : disk[p] # None
    BY DEF looked
  <2> QED BY <1>2, <1>9, <2>1, <2>2
<1>18. Held(s, scope, disk, edits)
  <2>1. DOMAIN scope.facts.files = {p \in DOMAIN scope.found : ~ Lazy(p)}
    BY <1>2, <1>5
  <2> HIDE DEF s
  <2> QED BY <1>2, <1>14, <1>15, <1>16, <1>17, <2>1 DEF Held
<1>19. DOMAIN scope.found \subseteq DOMAIN load.found
  BY <1>2, <1>3
<1>20. ASSUME load.quiet
       PROVE  /\ DOMAIN scope.found = {p \in DOMAIN load.found : ScopeOf[p] = s}
              /\ \A p \in DOMAIN scope.facts.files :
                   Reflects(p, scope.facts.files[p], disk[p].content, load.active)
  <2>1. /\ DOMAIN load.found = {p \in Covers[load.target] : disk[p] # None}
        /\ \A p \in DOMAIN load.found : load.found[p].stamp = disk[p].stamp
        /\ \A p \in DOMAIN read : read[p].outcome = "read"
    BY <1>1, <1>20 DEF LoadInv, Undisturbed, Working
  <2>2. Vanished(read) = {}
    BY <2>1 DEF Vanished
  <2>3. DOMAIN scope.found = {p \in DOMAIN load.found : ScopeOf[p] = s}
    BY <1>2, <1>3, <2>2
  <2>4. ASSUME NEW p \in DOMAIN files
        PROVE  Reflects(p, files[p], disk[p].content, load.active)
    <3>1. disk[p] # None /\ disk[p].stamp = load.found[p].stamp
      BY <1>3, <1>5, <2>1, <2>4
    <3> QED BY <1>11, <1>12, <2>1, <2>4, <3>1
  <2> QED BY <1>2, <2>3, <2>4
<1> QED BY <1>18, <1>19, <1>20 DEF scope

\* The second look.
LEMMA CurrentWhenRechecked ==
  ASSUME CurrentInv, NEW n \in Orders, Rechecks(n)
  PROVE  CurrentInv'
<1> DEFINE old == loads[n]
           s == FirstOf(loads[n].todo)
           scope == LoadedScope(loads[n], s)
           load == [loads[n] EXCEPT !.at = "entries", !.previous = None, !.read = <<>>,
                                    !.pending = With(s, scope, @)]
<1>1. /\ Becomes(n, load) /\ loads[n].at = "recheck"
      /\ accepted' = accepted /\ UNCHANGED world /\ scopes' = scopes /\ requests' = requests
  BY DEF Rechecks, session
<1>2. DOMAIN loads[n] = Fields /\ LoadInv(loads[n], disk, edits)
  BY DEF CurrentInv, LoadInv
<1>3. /\ DOMAIN load = Fields /\ load.target = loads[n].target /\ load.at = "entries"
      /\ load.found = loads[n].found /\ load.todo = loads[n].todo
      /\ load.active = loads[n].active /\ load.pending = With(s, scope, loads[n].pending)
  BY <1>2 DEF Fields
<1>4. load.cancelled = loads[n].cancelled
  BY <1>2 DEF Fields
<1>5. load.committed = loads[n].committed
  BY <1>2 DEF Fields
<1>6. load.quiet = loads[n].quiet
  BY <1>2 DEF Fields
<1> HIDE DEF load
<1>7. /\ Held(s, scope, disk, edits)
      /\ DOMAIN scope.found \subseteq DOMAIN old.found
      /\ old.quiet =>
           /\ DOMAIN scope.found = {p \in DOMAIN old.found : ScopeOf[p] = s}
           /\ \A p \in DOMAIN scope.facts.files :
                Reflects(p, scope.facts.files[p], disk[p].content, old.active)
  BY <1>1, LoadedHeld
<1>8. LoadInv(load, disk, edits)
  <2>1. old.at \in {"scope", "recheck"} /\ (load.quiet => old.quiet)
    BY <1>1, <1>6
  <2> HIDE DEF old, scope
  <2> QED BY <1>2, <1>3, <1>7, <2>1, Joins DEF old
<1> QED BY <1>1, <1>3, <1>4, <1>5, <1>6, <1>8, OneLoads

\* A scope that was sent is no longer to do.
LEMMA CurrentWhenSent ==
  ASSUME CurrentInv, NEW n \in Orders, SendsEntries(n)
  PROVE  CurrentInv'
<1> DEFINE s == FirstOf(loads[n].todo)
           load == [loads[n] EXCEPT !.todo = @ \ {s},
                                    !.at = IF loads[n].todo = {s} THEN "commit" ELSE "scope"]
<1>1. PICK event :
        \/ Becomes(n, load) /\ UNCHANGED <<world, session, mishaps>>
        \/ Sends(n, event, load)
  BY DEF SendsEntries
<1>2. /\ DOMAIN loads[n] = Fields /\ LoadInv(loads[n], disk, edits) /\ loads[n].target \in Target
      /\ loads[n].at = "entries"
  BY DEF CurrentInv, LoadInv, SendsEntries
<1>3. /\ DOMAIN load = Fields /\ load.target = loads[n].target
      /\ load.at = (IF loads[n].todo = {s} THEN "commit" ELSE "scope")
      /\ load.found = loads[n].found /\ load.todo = loads[n].todo \ {s}
      /\ load.active = loads[n].active /\ load.pending = loads[n].pending
  BY <1>2 DEF Fields
<1>4. load.cancelled = loads[n].cancelled
  BY <1>2 DEF Fields
<1>5. load.committed = loads[n].committed
  BY <1>2 DEF Fields
<1>6. load.quiet = loads[n].quiet
  BY <1>2 DEF Fields
<1>7. Walked(loads[n], disk, edits) /\ s \in DOMAIN loads[n].pending /\ s \in loads[n].todo
  BY <1>2, NextScope DEF LoadInv, Walked, Working
<1> HIDE DEF load, s
<1>8. Walked(load, disk, edits)
  <2>1. load.todo \cup DOMAIN load.pending = {ScopeOf[p] : p \in DOMAIN load.found}
    BY <1>3, <1>7 DEF Walked
  <2>2. load.at = "commit" <=> load.todo = {}
    BY <1>3, <1>7
  <2>3. load.at # "entries"
    BY <1>3
  <2>4. \A u \in DOMAIN load.pending :
          /\ Held(u, load.pending[u], disk, edits)
          /\ DOMAIN load.pending[u].found \subseteq DOMAIN load.found
    BY <1>3, <1>7 DEF Walked
  <2>5. \A p \in DOMAIN load.found :
          /\ p \in Covers[load.target]
          /\ DOMAIN load.found[p] = {"stamp", "handle"} /\ load.found[p].stamp \in 0..edits
    BY <1>3, <1>7 DEF Walked
  <2> QED BY <2>1, <2>2, <2>3, <2>4, <2>5 DEF Walked
<1>9. load.quiet => Undisturbed(load, disk)
  <2>1. load.quiet => Undisturbed(loads[n], disk)
    BY <1>2, <1>6 DEF LoadInv
  <2> QED BY <1>2, <1>3, <2>1 DEF Undisturbed, Working
<1>10. LoadInv(load, disk, edits)
  <2>1. load.at \in Working /\ load.at # "recheck" /\ load.target \in Target
    BY <1>2, <1>3 DEF Working
  <2> QED BY <1>3, <1>8, <1>9, <2>1 DEF LoadInv
<1>11. CASE Becomes(n, load) /\ UNCHANGED <<world, session, mishaps>>
  BY <1>3, <1>4, <1>5, <1>6, <1>10, <1>11, OneLoads DEF session
<1>12. CASE Sends(n, event, load)
  BY <1>3, <1>4, <1>5, <1>6, <1>10, <1>12, OneSends
<1> QED BY <1>1, <1>11, <1>12

\* Two targets that share a scope share every path of it.
LEMMA ScopeCovered ==
  ASSUME NEW t \in Target, NEW u \in Target, NEW p \in Covers[t], NEW q \in Covers[u],
         ScopeOf[p] = ScopeOf[q]
  PROVE  Overlap(t, u)
BY PresentationAssumption DEF Overlap

\* What was completed shows what is on disk, and touches nothing that another target shows.
LEMMA CurrentWhenCommitted ==
  ASSUME CurrentInv, NEW n \in Orders, Commits(n)
  PROVE  CurrentInv'
<1> DEFINE old == loads[n]
           load == [Emptied(loads[n]) EXCEPT !.at = "complete", !.committed = TRUE]
           over == Finished(loads[n])
           Left(s) == \E p \in DOMAIN scopes[s].found : p \in Covers[old.target]
           kept == Restrict(scopes, {s \in DOMAIN scopes : ~ Left(s)})
<1>1. /\ loads[n].at = "commit"
      /\ accepted' = accepted /\ UNCHANGED world /\ requests' = requests
  BY DEF Commits
<1>2. /\ DOMAIN old = Fields /\ LoadInv(old, disk, edits) /\ old.target \in Target
      /\ Walked(old, disk, edits)
  BY <1>1 DEF CurrentInv, LoadInv, Working
<1>3. CASE ~ Current(n)
  <2>1. Becomes(n, over) /\ scopes' = scopes
    BY <1>3 DEF Commits
  <2>2. /\ DOMAIN over = Fields /\ over.target = old.target /\ over.pending = <<>>
        /\ over.at = "done"
    BY <1>2 DEF Finished, Emptied, Fields
  <2>3. over.cancelled = old.cancelled
    BY <1>2 DEF Finished, Emptied, Fields
  <2>4. over.committed = old.committed
    BY <1>2 DEF Finished, Emptied, Fields
  <2>5. over.quiet = old.quiet
    BY <1>2 DEF Finished, Emptied, Fields
  <2>6. LoadInv(over, disk, edits)
    BY <1>2, <2>2, Idle
  <2> HIDE DEF over
  <2> QED BY <1>1, <2>1, <2>2, <2>3, <2>4, <2>5, <2>6, OneLoads
<1>4. CASE Current(n)
  <2>1. Becomes(n, load) /\ scopes' = Over(old.pending, kept)
    BY <1>4 DEF Commits
  <2>2. /\ DOMAIN load = Fields /\ load.target = old.target /\ load.pending = <<>>
        /\ load.at = "complete" /\ load.committed
    BY <1>2 DEF Emptied, Fields
  <2>3. load.cancelled = old.cancelled
    BY <1>2 DEF Emptied, Fields
  <2>4. load.quiet = old.quiet
    BY <1>2 DEF Emptied, Fields
  <2>5. LoadInv(load, disk, edits)
    BY <1>2, <2>2, Idle
  <2> HIDE DEF load
  <2>6. /\ DOMAIN loads' = Orders /\ Orders' = Orders
        /\ \A m \in Orders : loads'[m] = IF m = n THEN load ELSE loads[m]
        /\ disk' = disk /\ edits' = edits
    BY <1>1, <2>1 DEF CurrentInv, Becomes, Orders, world
  <2>7. /\ DOMAIN scopes' = DOMAIN old.pending \cup {s \in DOMAIN scopes : ~ Left(s)}
        /\ \A s \in DOMAIN old.pending : scopes'[s] = old.pending[s]
        /\ \A s \in DOMAIN scopes' \ DOMAIN old.pending : scopes'[s] = scopes[s] /\ ~ Left(s)
    BY <2>1 DEF Over, Restrict
  <2>8. \A m \in Orders : loads'[m].target = loads[m].target
    BY <2>2, <2>6
  <2>9. \A m \in Orders : ~ loads'[m].cancelled => ~ loads[m].cancelled
    BY <2>3, <2>6
  <2>10. /\ \A m, k \in Orders' :
              m < k /\ Overlap(loads'[m].target, loads'[k].target) => ~ Current(m)'
         /\ \A t \in DOMAIN requests' : requests'[t] \in Orders'
    BY <1>1, <2>6, <2>8, <2>9, StaysOld
  <2>11. \A m \in Orders' : LoadInv(loads'[m], disk', edits')
    BY <2>5, <2>6 DEF CurrentInv
  <2>12. ASSUME NEW s \in DOMAIN scopes'
         PROVE  Held(s, scopes'[s], disk', edits')
    <3>1. CASE s \in DOMAIN old.pending
      BY <1>2, <2>6, <2>7, <3>1 DEF Walked
    <3>2. CASE s \notin DOMAIN old.pending
      BY <2>6, <2>7, <3>2 DEF CurrentInv
    <3> QED BY <3>1, <3>2
  <2>13. DOMAIN old.pending = {ScopeOf[p] : p \in DOMAIN old.found}
    BY <1>1, <1>2 DEF Walked
  <2>14. ASSUME old.quiet
         PROVE  Shows(old.target, scopes', disk')
    <3>1. /\ old.active = disk[Config].content.says
          /\ DOMAIN old.found = {p \in Covers[old.target] : disk[p] # None}
          /\ \A s \in DOMAIN old.pending :
               /\ DOMAIN old.pending[s].found = {p \in DOMAIN old.found : ScopeOf[p] = s}
               /\ \A p \in DOMAIN old.pending[s].facts.files :
                    Reflects(p, old.pending[s].facts.files[p], disk[p].content, old.active)
      BY <1>1, <1>2, <2>14 DEF LoadInv, Undisturbed, Working
    <3>2. ASSUME NEW p \in Covers[old.target]
          PROVE  LET s == ScopeOf[p]
                     shown == s \in DOMAIN scopes' /\ p \in DOMAIN scopes'[s].found
                 IN  /\ shown <=> disk[p] # None
                     /\ shown /\ ~ Lazy(p) =>
                          Reflects(p, scopes'[s].facts.files[p], disk[p].content,
                                   disk[Config].content.says)
      <4> DEFINE s == ScopeOf[p]
      <4>1. CASE disk[p] # None
        <5>1. p \in DOMAIN old.found /\ s \in DOMAIN old.pending
          BY <2>13, <3>1, <3>2, <4>1
        <5>2. p \in DOMAIN scopes'[s].found /\ s \in DOMAIN scopes' /\ scopes'[s] = old.pending[s]
          BY <2>7, <3>1, <5>1
        <5>3. Held(s, old.pending[s], disk, edits)
          BY <1>2, <5>1 DEF Walked
        <5>4. ~ Lazy(p) => p \in DOMAIN old.pending[s].facts.files
          BY <5>2, <5>3 DEF Held
        <5> QED BY <3>1, <4>1, <5>1, <5>2, <5>4
      <4>2. CASE disk[p] = None
        <5>1. ASSUME s \in DOMAIN scopes', p \in DOMAIN scopes'[s].found
              PROVE  FALSE
          <6>1. CASE s \in DOMAIN old.pending
            BY <2>7, <3>1, <4>2, <5>1, <6>1
          <6>2. CASE s \notin DOMAIN old.pending
            BY <2>7, <3>2, <5>1, <6>2
          <6> QED BY <6>1, <6>2
        <5> QED BY <4>2, <5>1
      <4> QED BY <4>1, <4>2
    <3> QED BY <2>6, <3>2 DEF Shows
  <2>15. ASSUME NEW m \in Orders, ~ Overlap(old.target, loads[m].target),
                Shows(loads[m].target, scopes, disk)
         PROVE  Shows(loads[m].target, scopes', disk')
    <3>1. loads[m].target \in Target
      BY DEF CurrentInv, LoadInv
    <3>2. ASSUME NEW p \in Covers[loads[m].target]
          PROVE  LET s == ScopeOf[p]
                 IN  /\ s \in DOMAIN scopes' <=> s \in DOMAIN scopes
                     /\ s \in DOMAIN scopes => scopes'[s] = scopes[s]
      <4> DEFINE s == ScopeOf[p]
      <4>1. s \notin DOMAIN old.pending
        <5>1. ASSUME NEW q \in DOMAIN old.found, ScopeOf[q] = s
              PROVE  FALSE
          <6>1. q \in Covers[old.target]
            BY <1>2, <5>1 DEF Walked
          <6> QED BY <1>2, <2>15, <3>1, <3>2, <5>1, <6>1, ScopeCovered
        <5> QED BY <2>13, <5>1
      <4>2. s \in DOMAIN scopes => ~ Left(s)
        <5>1. ASSUME s \in DOMAIN scopes, NEW q \in DOMAIN scopes[s].found, q \in Covers[old.target]
              PROVE  FALSE
          <6>1. ScopeOf[q] = s
            BY <5>1 DEF CurrentInv, Held
          <6> QED BY <1>2, <2>15, <3>1, <3>2, <5>1, <6>1, ScopeCovered
        <5> QED BY <5>1
      <4> QED BY <2>7, <4>1, <4>2
    <3> QED BY <2>6, <2>15, <3>2 DEF Shows
  <2>16. ASSUME NEW m \in Orders', loads'[m].committed, loads'[m].quiet, Latest(m)'
         PROVE  Shows(loads'[m].target, scopes', disk')
    <3>1. CASE m = n
      BY <2>2, <2>4, <2>6, <2>14, <2>16, <3>1
    <3>2. CASE m # n
      <4>1. m \in Orders /\ loads'[m] = loads[m] /\ n \in Orders'
        BY <2>6, <2>16, <3>2
      <4>2. m < n => ~ Overlap(old.target, loads[m].target)
        BY <2>2, <2>6, <2>16, <4>1 DEF Latest
      <4>3. n < m => ~ Overlap(old.target, loads[m].target)
        BY <1>4, <4>1 DEF CurrentInv
      <4>4. m < n \/ n < m
        BY <3>2, <4>1 DEF Orders, CurrentInv
      <4>5. Latest(m)
        <5> SUFFICES ASSUME NEW k \in Orders, k > m, loads[k].committed
                     PROVE  ~ Overlap(loads[k].target, loads[m].target)
          BY DEF Latest
        <5>1. k \in Orders' /\ loads'[k].committed /\ loads'[k].target = loads[k].target
          BY <2>2, <2>6
        <5> QED BY <2>16, <4>1, <5>1 DEF Latest
      <4>6. Shows(loads[m].target, scopes, disk)
        BY <2>16, <4>1, <4>5 DEF CurrentInv
      <4> QED BY <2>15, <4>1, <4>2, <4>3, <4>4, <4>6
    <3> QED BY <3>1, <3>2
  <2>17. /\ accepted' \in Nat /\ edits' \in Nat /\ DOMAIN loads' = Orders' /\ DOMAIN disk' = Path
         /\ \A p \in Path : disk'[p] # None => disk'[p].stamp \in 0..edits'
    BY <1>1, <2>6 DEF CurrentInv
  <2> QED BY <2>10, <2>11, <2>12, <2>16, <2>17 DEF CurrentInv
<1> QED BY <1>3, <1>4

\* No step undoes it.
LEMMA CurrentNext == CurrentInv /\ [Next]_vars => CurrentInv'
<1> SUFFICES ASSUME CurrentInv, [Next]_vars PROVE CurrentInv'
  OBVIOUS
<1>0. \A n \in Orders : /\ DOMAIN loads[n] = Fields /\ LoadInv(loads[n], disk, edits)
                        /\ loads[n].target \in Target
  BY DEF CurrentInv, LoadInv
<1>1. CASE Edit
  BY <1>1, CurrentWhenSaved
<1>2. CASE \E t \in Target : Accepts(t)
  BY <1>2, CurrentWhenAccepted
<1>3. ASSUME NEW n \in Orders,
             Opens(n) \/ Receives(n) \/ Registers(n) \/ Cancels(n) \/ Drops(n) \/ Wakes(n)
      PROVE  CurrentInv'
  <2>1. CASE Opens(n)
    <3> DEFINE load == [IF loads[n].cancelled THEN Woken(loads[n]) ELSE loads[n] EXCEPT
                          !.stream = "open",
                          !.known = loads[n].target \in DOMAIN requests
                                      /\ requests[loads[n].target] = n]
    <3>1. /\ Becomes(n, load) /\ accepted' = accepted /\ UNCHANGED world /\ scopes' = scopes
          /\ requests' = requests
      BY <2>1 DEF Opens, session
    <3>2. DOMAIN load = Fields /\ \A f \in Work : load[f] = loads[n][f]
      BY <1>0 DEF Woken, Fields, Work
    <3>3. load.cancelled = loads[n].cancelled
      BY <1>0 DEF Woken, Fields
    <3>4. load.committed = loads[n].committed
      BY <1>0 DEF Woken, Fields
    <3> HIDE DEF load
    <3> QED BY <3>1, <3>2, <3>3, <3>4, OneElse
  <2>2. CASE Receives(n)
    <3> DEFINE event == Head(loads[n].channel)
               load == [Woken(loads[n]) EXCEPT
                 !.taken = IF event.what = "complete" \/ event.entries # {}
                           THEN <<event>> ELSE <<>>,
                 !.channel = Tail(@)]
    <3>1. /\ Becomes(n, load) /\ accepted' = accepted /\ UNCHANGED world /\ scopes' = scopes
          /\ requests' = requests
      BY <2>2 DEF Receives, session
    <3>2. DOMAIN load = Fields /\ \A f \in Work : load[f] = loads[n][f]
      BY <1>0 DEF Woken, Fields, Work
    <3>3. load.cancelled = loads[n].cancelled
      BY <1>0 DEF Woken, Fields
    <3>4. load.committed = loads[n].committed
      BY <1>0 DEF Woken, Fields
    <3> HIDE DEF load
    <3> QED BY <3>1, <3>2, <3>3, <3>4, OneElse
  <2>3. CASE Registers(n)
    <3> DEFINE event == Head(loads[n].taken)
               load == [loads[n] EXCEPT
                 !.taken = <<>>,
                 !.told = IF Current(n) THEN @ \cup event.entries ELSE {},
                 !.complete = @ \/ (event.what = "complete" /\ Current(n))]
    <3>1. /\ Becomes(n, load) /\ accepted' = accepted /\ UNCHANGED world /\ scopes' = scopes
          /\ requests' = requests
      BY <2>3 DEF Registers
    <3>2. DOMAIN load = Fields /\ \A f \in Work : load[f] = loads[n][f]
      BY <1>0 DEF Fields, Work
    <3>3. load.cancelled = loads[n].cancelled
      BY <1>0 DEF Fields
    <3>4. load.committed = loads[n].committed
      BY <1>0 DEF Fields
    <3> HIDE DEF load
    <3> QED BY <3>1, <3>2, <3>3, <3>4, OneElse
  <2>4. CASE Cancels(n)
    <3> DEFINE load == [Woken(loads[n]) EXCEPT !.cancelled = TRUE]
    <3>1. /\ Becomes(n, load) /\ accepted' = accepted /\ UNCHANGED world /\ scopes' = scopes
          /\ requests' = requests
      BY <2>4 DEF Cancels, session
    <3>2. DOMAIN load = Fields /\ \A f \in Work : load[f] = loads[n][f]
      BY <1>0 DEF Woken, Fields, Work
    <3>3. load.cancelled
      BY <1>0 DEF Woken, Fields
    <3>4. load.committed = loads[n].committed
      BY <1>0 DEF Woken, Fields
    <3> HIDE DEF load
    <3> QED BY <3>1, <3>2, <3>3, <3>4, OneElse
  <2>5. CASE Drops(n)
    <3> DEFINE load == [Woken(loads[n]) EXCEPT !.cancelled = TRUE, !.stream = "dropped",
                                               !.channel = <<>>]
    <3>1. /\ Becomes(n, load) /\ accepted' = accepted /\ UNCHANGED world /\ scopes' = scopes
          /\ DOMAIN requests' \subseteq DOMAIN requests
          /\ \A t \in DOMAIN requests' : requests'[t] = requests[t]
      BY <2>5 DEF Drops, Restrict
    <3>2. DOMAIN load = Fields /\ \A f \in Work : load[f] = loads[n][f]
      BY <1>0 DEF Woken, Fields, Work
    <3>3. load.cancelled
      BY <1>0 DEF Woken, Fields
    <3>4. load.committed = loads[n].committed
      BY <1>0 DEF Woken, Fields
    <3> HIDE DEF load
    <3> QED BY <3>1, <3>2, <3>3, <3>4, OneElse
  <2>6. CASE Wakes(n)
    <3> DEFINE load == [loads[n] EXCEPT !.parking = FALSE, !.token = FALSE]
    <3>1. /\ Becomes(n, load) /\ accepted' = accepted /\ UNCHANGED world /\ scopes' = scopes
          /\ requests' = requests
      BY <2>6 DEF Wakes, session
    <3>2. DOMAIN load = Fields /\ \A f \in Work : load[f] = loads[n][f]
      BY <1>0 DEF Fields, Work
    <3>3. load.cancelled = loads[n].cancelled
      BY <1>0 DEF Fields
    <3>4. load.committed = loads[n].committed
      BY <1>0 DEF Fields
    <3> HIDE DEF load
    <3> QED BY <3>1, <3>2, <3>3, <3>4, OneElse
  <2> QED BY <1>3, <2>1, <2>2, <2>3, <2>4, <2>5, <2>6
<1>4. ASSUME NEW n \in Orders, Notices(n) \/ Breaks(n)
      PROVE  CurrentInv'
  <2>1. PICK load \in {Finished(loads[n]), [Emptied(loads[n]) EXCEPT !.at = "failure"]} :
          Becomes(n, load)
    BY <1>4 DEF Notices, Breaks
  <2>2. /\ accepted' = accepted /\ UNCHANGED world /\ scopes' = scopes /\ requests' = requests
    BY <1>4 DEF Notices, Breaks, session
  <2>3. /\ DOMAIN load = Fields /\ load.target = loads[n].target /\ load.pending = <<>>
        /\ load.at \in {"done", "failure"}
    BY <1>0, <2>1, ZenonT(40) DEF Finished, Emptied, Fields
  <2>4. load.cancelled = loads[n].cancelled
    BY <1>0, <2>1 DEF Finished, Emptied, Fields
  <2>5. load.committed = loads[n].committed
    BY <1>0, <2>1 DEF Finished, Emptied, Fields
  <2>6. load.quiet = loads[n].quiet
    BY <1>0, <2>1 DEF Finished, Emptied, Fields
  <2>7. LoadInv(load, disk, edits)
    BY <1>0, <2>3, Idle
  <2> QED BY <2>1, <2>2, <2>3, <2>4, <2>5, <2>6, <2>7, OneLoads
<1>5. ASSUME NEW n \in Orders, Activates(n)
      PROVE  CurrentInv'
  <2> DEFINE active == IF disk[Config] = None \/ ~ disk[Config].content.ok THEN None
                       ELSE disk[Config].content.says
             load == [loads[n] EXCEPT !.at = "catalogue", !.active = active]
  <2>1. /\ Becomes(n, load) /\ loads[n].at = "activate"
        /\ accepted' = accepted /\ UNCHANGED world /\ scopes' = scopes /\ requests' = requests
    BY <1>5 DEF Activates, session
  <2>2. /\ DOMAIN load = Fields /\ load.target = loads[n].target /\ load.at = "catalogue"
        /\ load.active = active /\ load.pending = loads[n].pending
    BY <1>0 DEF Fields
  <2>3. load.cancelled = loads[n].cancelled
    BY <1>0 DEF Fields
  <2>4. load.committed = loads[n].committed
    BY <1>0 DEF Fields
  <2>5. load.quiet = loads[n].quiet
    BY <1>0 DEF Fields
  <2> HIDE DEF load
  <2>6. load.pending = <<>> /\ load.target \in Target
    BY <1>0, <2>1, <2>2 DEF LoadInv, Working
  <2>7. LoadInv(load, disk, edits)
    BY <2>2, <2>6 DEF LoadInv, Undisturbed, Working
  <2> QED BY <2>1, <2>2, <2>3, <2>4, <2>5, <2>7, OneLoads
<1>6. ASSUME NEW n \in Orders, SendsCatalogue(n)
      PROVE  CurrentInv'
  <2> DEFINE sent == [loads[n] EXCEPT !.at = IF loads[n].active = None THEN "complete" ELSE "walk"]
  <2>1. Sends(n, Event("catalogue"), sent) /\ loads[n].at = "catalogue"
    BY <1>6 DEF SendsCatalogue
  <2>2. /\ DOMAIN sent = Fields /\ sent.target = loads[n].target
        /\ sent.at = (IF loads[n].active = None THEN "complete" ELSE "walk")
        /\ sent.active = loads[n].active /\ sent.pending = loads[n].pending
    BY <1>0 DEF Fields
  <2>3. sent.cancelled = loads[n].cancelled
    BY <1>0 DEF Fields
  <2>4. sent.committed = loads[n].committed
    BY <1>0 DEF Fields
  <2>5. sent.quiet = loads[n].quiet
    BY <1>0 DEF Fields
  <2> HIDE DEF sent
  <2>6. sent.pending = <<>> /\ sent.target \in Target
    BY <1>0, <2>1, <2>2 DEF LoadInv, Working
  <2>7. sent.quiet => Undisturbed(sent, disk)
    <3>1. sent.quiet => loads[n].active = None \/ loads[n].active = disk[Config].content.says
      BY <1>0, <2>1, <2>5 DEF LoadInv, Undisturbed
    <3> QED BY <2>2, <3>1 DEF Undisturbed, Working
  <2>8. LoadInv(sent, disk, edits)
    BY <2>2, <2>6, <2>7 DEF LoadInv, Working
  <2> QED BY <2>1, <2>2, <2>3, <2>4, <2>5, <2>8, OneSends
<1>7. ASSUME NEW n \in Orders, SendsComplete(n) \/ SendsFailure(n)
      PROVE  CurrentInv'
  <2> DEFINE sent == Finished(loads[n])
  <2>1. PICK event : Sends(n, event, sent)
    BY <1>7 DEF SendsComplete, SendsFailure
  <2>2. /\ DOMAIN sent = Fields /\ sent.target = loads[n].target /\ sent.pending = <<>>
        /\ sent.at = "done"
    BY <1>0 DEF Finished, Emptied, Fields
  <2>3. sent.cancelled = loads[n].cancelled
    BY <1>0 DEF Finished, Emptied, Fields
  <2>4. sent.committed = loads[n].committed
    BY <1>0 DEF Finished, Emptied, Fields
  <2>5. sent.quiet = loads[n].quiet
    BY <1>0 DEF Finished, Emptied, Fields
  <2>6. LoadInv(sent, disk, edits)
    BY <1>0, <2>2, Idle
  <2> HIDE DEF sent
  <2> QED BY <2>1, <2>2, <2>3, <2>4, <2>5, <2>6, OneSends
<1>8. ASSUME NEW n \in Orders, ReadsScope(n) \/ ReadFails(n)
      PROVE  CurrentInv'
  <2>1. PICK failing : Reads(n, failing)
    BY <1>8 DEF ReadsScope, ReadFails
  <2>2. UNCHANGED <<world, session>>
    BY <1>8 DEF ReadsScope, ReadFails
  <2> QED BY <2>1, <2>2, CurrentWhenRead
<1>9. ASSUME NEW n \in Orders,
             Walks(n) \/ Reuses(n) \/ Rechecks(n) \/ SendsEntries(n) \/ Commits(n)
      PROVE  CurrentInv'
  BY <1>9, CurrentWhenWalked, CurrentWhenReused, CurrentWhenRechecked, CurrentWhenSent,
     CurrentWhenCommitted
<1>10. CASE UNCHANGED vars
  <2>1. /\ disk' = disk /\ edits' = edits /\ loads' = loads /\ accepted' = accepted
        /\ scopes' = scopes /\ requests' = requests
    BY <1>10 DEF vars
  <2>2. Orders' = Orders /\ (\A n : Current(n)' <=> Current(n)) /\ (\A n : Latest(n)' <=> Latest(n))
    BY <2>1 DEF Orders, Current, Latest
  <2> QED BY <2>1, <2>2 DEF CurrentInv
<1>11. ASSUME NEW n \in Orders, Works(n)
       PROVE  CurrentInv'
  BY <1>3, <1>4, <1>5, <1>6, <1>7, <1>8, <1>9, <1>11 DEF Works
<1> QED BY <1>1, <1>2, <1>3, <1>4, <1>8, <1>10, <1>11 DEF Next

\* A load during which nobody saved and no read failed leaves the session as the disk is below its
\* target, whatever the loads before it ran into and whatever runs beside it (collect_descriptors,
\* load_scope with its second look at what it read, commit and the cancellation of older loads).
THEOREM QuietLoadsAreCurrent == Spec => []QuietLoadIsCurrent
<1> QED BY CurrentMeans, CurrentInit, CurrentNext, PTL DEF Spec

-----------------------------------------------------------------------------
(* Handles. *)

\* What a load found of a file it told of.
Right(entry, found) ==
  /\ entry.path \in DOMAIN found
  /\ found[entry.path].handle = entry.handle /\ found[entry.path].stamp = entry.stamp

\* A sequence of whatever it may be.
IsSeq(seq) == \E S : seq \in Seq(S)

\* Events on their way to the client.
Coming(load) ==
  {load.taken[i] : i \in DOMAIN load.taken} \cup {load.channel[i] : i \in DOMAIN load.channel}

\* The files that the client has been told of or will be.
Told(load) == load.told \cup UNION {event.entries : event \in Coming(load)}

\* Scopes of which everything was sent.
SentScopes(load) == DOMAIN load.pending \ load.todo

\* The end of a load is the last its client hears of, and what it is told is of files of the target.
Stream(load, e) ==
  /\ load.stream = "dropped" => load.cancelled
  /\ load.complete => load.at = "done"
  /\ load.at \notin {"complete", "done"} => ~ load.committed
  /\ IsSeq(load.channel)
  /\ load.taken = <<>> \/ \E event : load.taken = <<event>>
  /\ \A event \in Coming(load) :
       event.what = "complete" => load.at = "done" /\ event.entries = {}
  /\ \A i \in DOMAIN load.channel : load.channel[i].what = "complete" => i = Len(load.channel)
  /\ \A i \in DOMAIN load.taken : load.taken[i].what = "complete" => load.channel = <<>>
  /\ \A entry \in Told(load) :
       entry.path \in Covers[load.target] /\ Lazy(entry.path) /\ entry.stamp \in 0..e

\* What a load that is current tells is what it found, and it tells of all of it.
Faithful(load, held) ==
  LET paths == {entry.path : entry \in Told(load)}
  IN  IF load.committed
      THEN /\ \A entry \in Told(load) :
                /\ ScopeOf[entry.path] \in DOMAIN held
                /\ Right(entry, held[ScopeOf[entry.path]].found)
           /\ \A p \in Covers[load.target] :
                Lazy(p) /\ ScopeOf[p] \in DOMAIN held /\ p \in DOMAIN held[ScopeOf[p]].found =>
                  p \in paths
      ELSE IF load.at \in Working
      THEN /\ \A entry \in Told(load) :
                /\ ScopeOf[entry.path] \in SentScopes(load)
                /\ Right(entry, load.pending[ScopeOf[entry.path]].found)
           /\ \A s \in SentScopes(load) : \A p \in DOMAIN load.pending[s].found :
                Lazy(p) => p \in paths
      ELSE Told(load) = {}

\* A request for the content of a file with the handle that was told is answered.
Resolves(t, entry, table) ==
  <<t, entry.path>> \in DOMAIN table /\ table[<<t, entry.path>>].handle = entry.handle

\* A load that is under way has found the same of a file.
Agrees(load, entry) ==
  load.at \in Working /\ entry.path \in Covers[load.target] =>
    /\ Right(entry, load.found)
    /\ ScopeOf[entry.path] \in DOMAIN load.pending =>
         Right(entry, load.pending[ScopeOf[entry.path]].found)

\* The file is as it was when its client was told of it.
Unedited(entry) == disk[entry.path] # None /\ disk[entry.path].stamp = entry.stamp

\* The session shows of the file what its client was told.
Shown(entry) ==
  /\ ScopeOf[entry.path] \in DOMAIN scopes
  /\ Right(entry, scopes[ScopeOf[entry.path]].found)

\* The content of a file can be fetched, and nothing under way will change that.
Fetchable(n, entry) ==
  /\ Resolves(loads[n].target, entry, handles)
  /\ Shown(entry)
  /\ \A m \in Orders : Current(m) => Agrees(loads[m], entry)

\* A handle is of a load of its target.
Owned(k) ==
  /\ handles[k].order \in Orders
  /\ loads[handles[k].order].target = k[1] /\ k[1] \in Target /\ k[2] \in Covers[k[1]]

\* It is the one the last completed load gave, or that of a load accepted after it.
FromLast(k) ==
  \/ \A n \in Orders :
       loads[n].committed /\ k[2] \in Covers[loads[n].target] => n < handles[k].order
  \/ /\ ScopeOf[k[2]] \in DOMAIN scopes /\ k[2] \in DOMAIN scopes[ScopeOf[k[2]]].found
     /\ scopes[ScopeOf[k[2]]].found[k[2]].handle = handles[k].handle

\* Whoever was told of a file by the current load of a target has its handle from that load.
Answered(n) ==
  \A entry \in loads[n].told :
    /\ Resolves(loads[n].target, entry, handles)
    /\ handles[<<loads[n].target, entry.path>>].order = n

\* Streams are in order, handles are of the last load, the current loads tell what they found, and
\* what was told to the end can be fetched.
HandlesInv ==
  /\ \A n \in Orders : Stream(loads[n], edits)
  /\ \A k \in DOMAIN handles : Owned(k) /\ FromLast(k)
  /\ \A n \in Orders : Current(n) => Faithful(loads[n], scopes) /\ Answered(n)
  /\ \A n \in Orders : loads[n].complete /\ ~ FoundInactive(n) =>
       \A entry \in loads[n].told : Unedited(entry) => Fetchable(n, entry)

\* The invariant says what HandlesExact says.
LEMMA HandlesMean == HandlesInv => HandlesExact
BY DEF HandlesInv, HandlesExact, FromLast, Fetchable, Unedited, Resolves, Selects

\* It holds at first, when there is no load and no handle.
LEMMA HandlesInit == Init => HandlesInv
<1> SUFFICES ASSUME Init PROVE HandlesInv
  OBVIOUS
<1>1. Orders = {} /\ DOMAIN handles = {}
  BY DEF Init, Orders
<1> QED BY <1>1 DEF HandlesInv

\* Two current loads cover no path in common.
LEMMA OneCurrent ==
  ASSUME CurrentInv, NEW m \in Orders, NEW n \in Orders, Current(m), Current(n), m # n
  PROVE  ~ Overlap(loads[m].target, loads[n].target)
<1>1. m < n \/ n < m
  BY DEF Orders, CurrentInv
<1> QED BY <1>1 DEF CurrentInv, Overlap

\* An event joins the channel.
LEMMA Appended ==
  ASSUME NEW seq, IsSeq(seq), NEW event
  PROVE  /\ IsSeq(Append(seq, event))
         /\ Len(seq) \in Nat /\ DOMAIN seq = 1..Len(seq)
         /\ Len(Append(seq, event)) = Len(seq) + 1
         /\ DOMAIN Append(seq, event) = 1..(Len(seq) + 1)
         /\ \A i \in 1..Len(seq) : Append(seq, event)[i] = seq[i]
         /\ Append(seq, event)[Len(seq) + 1] = event
         /\ {Append(seq, event)[i] : i \in DOMAIN Append(seq, event)}
              = {seq[i] : i \in DOMAIN seq} \cup {event}
<1>1. PICK S : seq \in Seq(S)
  BY DEF IsSeq
<1> DEFINE T == S \cup {event}
<1>2. seq \in Seq(T) /\ event \in T
  BY <1>1, SeqMonotonic
<1> HIDE DEF T
<1>3. /\ Append(seq, event) \in Seq(T)
      /\ Len(Append(seq, event)) = Len(seq) + 1
      /\ \A i \in 1..Len(seq) : Append(seq, event)[i] = seq[i]
      /\ Append(seq, event)[Len(seq) + 1] = event
  BY <1>2, AppendProperties
<1>4. Len(seq) \in Nat /\ DOMAIN seq = 1..Len(seq)
  BY <1>2, LenProperties
<1>5. DOMAIN Append(seq, event) = 1..Len(Append(seq, event))
  BY <1>3, LenProperties
<1> DEFINE longer == Append(seq, event)
<1>6. /\ DOMAIN longer = 1..(Len(seq) + 1) /\ longer[Len(seq) + 1] = event
      /\ \A i \in 1..Len(seq) : longer[i] = seq[i]
  BY <1>3, <1>5
<1> HIDE DEF longer
<1>7. \A i \in DOMAIN longer : i \in DOMAIN seq \/ i = Len(seq) + 1
  BY <1>4, <1>6
<1>8. \A i \in DOMAIN seq : i \in DOMAIN longer
  BY <1>4, <1>6
<1>9. Len(seq) + 1 \in DOMAIN longer
  BY <1>4, <1>6
<1>10. {longer[i] : i \in DOMAIN longer} = {seq[i] : i \in DOMAIN seq} \cup {event}
  BY <1>4, <1>6, <1>7, <1>8, <1>9
<1> QED BY <1>3, <1>4, <1>5, <1>10 DEF IsSeq, longer

\* The first event leaves the channel.
LEMMA Removed ==
  ASSUME NEW seq, IsSeq(seq), seq # <<>>
  PROVE  /\ IsSeq(Tail(seq))
         /\ Len(seq) \in Nat \ {0} /\ DOMAIN seq = 1..Len(seq)
         /\ Len(Tail(seq)) = Len(seq) - 1
         /\ DOMAIN Tail(seq) = 1..(Len(seq) - 1)
         /\ \A i \in 1..(Len(seq) - 1) : Tail(seq)[i] = seq[i + 1]
         /\ Head(seq) = seq[1]
         /\ Len(seq) = 1 => Tail(seq) = <<>>
<1>1. PICK S : seq \in Seq(S)
  BY DEF IsSeq
<1>2. /\ Tail(seq) \in Seq(S)
      /\ Len(Tail(seq)) = Len(seq) - 1
      /\ \A i \in 1..Len(Tail(seq)) : Tail(seq)[i] = seq[i + 1]
  BY <1>1, HeadTailProperties
<1>3. Len(seq) \in Nat /\ DOMAIN seq = 1..Len(seq) /\ Len(seq) # 0
  BY <1>1, LenProperties, EmptySeq
<1>4. DOMAIN Tail(seq) = 1..Len(Tail(seq))
  BY <1>2, LenProperties
<1>5. Head(seq) = seq[1]
  BY <1>1, <1>3
<1>6. Len(seq) = 1 => Tail(seq) = <<>>
  <2>1. Len(seq) = 1 => Len(Tail(seq)) = 0
    BY <1>2
  <2> QED BY <1>2, <2>1, EmptySeq
<1> QED BY <1>2, <1>3, <1>4, <1>5, <1>6 DEF IsSeq

\* What a load tells and is told is the same if its events and its entries are.
LEMMA SameTold ==
  ASSUME NEW old, NEW load, load.told = old.told, load.channel = old.channel,
         load.taken = old.taken
  PROVE  Coming(load) = Coming(old) /\ Told(load) = Told(old)
BY DEF Coming, Told

\* A step of one load that leaves the session's scopes and handles alone.
LEMMA OneHandler ==
  ASSUME CurrentInv, HandlesInv, NEW n \in Orders, NEW load, Becomes(n, load),
         accepted' = accepted, UNCHANGED world, scopes' = scopes, handles' = handles,
         DOMAIN requests' \subseteq DOMAIN requests,
         \A t \in DOMAIN requests' : requests'[t] = requests[t],
         load.target = loads[n].target,
         ~ load.cancelled => ~ loads[n].cancelled,
         load.committed <=> loads[n].committed,
         load.complete <=> loads[n].complete,
         load.told \subseteq loads[n].told,
         Stream(load, edits),
         Current(n) /\ ~ load.cancelled /\ Faithful(loads[n], scopes) => Faithful(load, scopes),
         \A entry : Current(n) /\ ~ load.cancelled /\ Unedited(entry) /\ Lazy(entry.path)
                      /\ Shown(entry) /\ Agrees(loads[n], entry) => Agrees(load, entry)
  PROVE  HandlesInv'
<1>1. /\ DOMAIN loads' = Orders /\ Orders' = Orders
      /\ \A m \in Orders : loads'[m] = IF m = n THEN load ELSE loads[m]
      /\ disk' = disk /\ edits' = edits
  BY DEF CurrentInv, Becomes, Orders, world
<1>2. \A m \in Orders : /\ loads'[m].target = loads[m].target
                        /\ ~ loads'[m].cancelled => ~ loads[m].cancelled
                        /\ loads'[m].committed <=> loads[m].committed
                        /\ loads'[m].complete <=> loads[m].complete
                        /\ loads'[m].told \subseteq loads[m].told
  BY <1>1
<1>3. \A m \in Orders : Current(m)' => Current(m) /\ ~ loads'[m].cancelled
  BY <1>2 DEF Current
<1>4. \A m \in Orders' : Stream(loads'[m], edits')
  BY <1>1 DEF HandlesInv
<1>5. ASSUME NEW k \in DOMAIN handles'
      PROVE  Owned(k)' /\ FromLast(k)'
  <2>1. Owned(k) /\ FromLast(k)
    BY DEF HandlesInv
  <2>2. Owned(k)'
    BY <1>1, <1>2, <2>1 DEF Owned
  <2>3. FromLast(k)'
    BY <1>1, <1>2, <2>1 DEF FromLast
  <2> QED BY <2>2, <2>3
<1>6. ASSUME NEW m \in Orders', Current(m)'
      PROVE  Faithful(loads'[m], scopes') /\ Answered(m)'
  <2>1. m \in Orders /\ Current(m) /\ ~ loads'[m].cancelled
    BY <1>1, <1>3, <1>6
  <2>2. Faithful(loads[m], scopes) /\ Answered(m)
    BY <2>1 DEF HandlesInv
  <2>3. Answered(m)'
    BY <1>2, <2>1, <2>2 DEF Answered, Resolves
  <2>4. Faithful(loads'[m], scopes')
    BY <1>1, <2>1, <2>2
  <2> QED BY <2>3, <2>4
<1>7. \A m \in Orders : FoundInactive(m) => FoundInactive(m)'
  BY <1>1, <1>2 DEF FoundInactive
<1>8. ASSUME NEW m \in Orders', loads'[m].complete, ~ FoundInactive(m)',
             NEW entry \in loads'[m].told, Unedited(entry)'
      PROVE  Fetchable(m, entry)'
  <2>1. m \in Orders /\ loads[m].complete /\ ~ FoundInactive(m) /\ entry \in loads[m].told
    BY <1>1, <1>2, <1>7, <1>8
  <2>2. Unedited(entry)
    BY <1>1, <1>8 DEF Unedited
  <2>3. Fetchable(m, entry)
    BY <2>1, <2>2 DEF HandlesInv
  <2>4. Lazy(entry.path)
    BY <2>1 DEF HandlesInv, Stream, Told
  <2>5. Shown(entry)'
    BY <1>1, <2>3 DEF Fetchable, Shown
  <2>6. Resolves(loads'[m].target, entry, handles')
    BY <1>2, <2>1, <2>3 DEF Fetchable
  <2>7. ASSUME NEW k \in Orders', Current(k)'
        PROVE  Agrees(loads'[k], entry)
    <3>1. k \in Orders /\ Current(k) /\ ~ loads'[k].cancelled
      BY <1>1, <1>3, <2>7
    <3>2. Agrees(loads[k], entry)
      BY <2>3, <3>1 DEF Fetchable
    <3>3. CASE k # n
      BY <1>1, <3>1, <3>2, <3>3
    <3>4. CASE k = n
      BY <1>1, <2>2, <2>3, <2>4, <3>1, <3>2, <3>4 DEF Fetchable
    <3> QED BY <3>3, <3>4
  <2> QED BY <2>5, <2>6, <2>7 DEF Fetchable
<1> QED BY <1>4, <1>5, <1>6, <1>8 DEF HandlesInv

\* The fields that what a load tells of depends on, but for the place where it is.
Telling == {"target", "channel", "taken", "told", "complete", "committed", "found", "todo",
            "pending"}

\* A step of one load that leaves them alone.
LEMMA OneWaits ==
  ASSUME CurrentInv, HandlesInv, NEW n \in Orders, NEW load, Becomes(n, load),
         accepted' = accepted, UNCHANGED world, scopes' = scopes, handles' = handles,
         requests' = requests,
         \A f \in Telling : load[f] = loads[n][f],
         load.at # loads[n].at =>
           /\ loads[n].at \notin {"complete", "done"}
           /\ load.at \in Working <=> loads[n].at \in Working,
         load.stream = "dropped" => load.cancelled,
         loads[n].cancelled => load.cancelled
  PROVE  HandlesInv'
<1>1. /\ load.target = loads[n].target
      /\ load.channel = loads[n].channel
      /\ load.taken = loads[n].taken /\ load.told = loads[n].told
      /\ load.found = loads[n].found /\ load.todo = loads[n].todo
      /\ load.pending = loads[n].pending
  BY DEF Telling
<1>2. load.complete = loads[n].complete
  BY DEF Telling
<1>3. load.committed = loads[n].committed
  BY DEF Telling
<1>4. Coming(load) = Coming(loads[n]) /\ Told(load) = Told(loads[n])
  BY <1>1, SameTold
<1>5. Stream(loads[n], edits)
  BY DEF HandlesInv
<1>6. Stream(load, edits)
  <2>1. CASE load.at = loads[n].at
    BY <1>1, <1>2, <1>3, <1>4, <1>5, <2>1 DEF Stream
  <2>2. CASE loads[n].at \notin {"complete", "done"}
    BY <1>1, <1>2, <1>3, <1>4, <1>5, <2>2 DEF Stream
  <2> QED BY <2>1, <2>2
<1>7. Faithful(loads[n], scopes) => Faithful(load, scopes)
  BY <1>1, <1>3, <1>4 DEF Faithful, SentScopes
<1>8. \A entry : Agrees(loads[n], entry) => Agrees(load, entry)
  BY <1>1 DEF Agrees
<1> QED BY <1>1, <1>2, <1>3, <1>6, <1>7, <1>8, OneHandler

\* A load ends, or sends its last word, without having found anything that it would still tell.
LEMMA OneStops ==
  ASSUME CurrentInv, HandlesInv, NEW n \in Orders, NEW load, Becomes(n, load),
         accepted' = accepted, UNCHANGED world, scopes' = scopes, handles' = handles,
         requests' = requests,
         load.target = loads[n].target, load.channel = loads[n].channel,
         load.taken = loads[n].taken, load.told = loads[n].told,
         load.stream = loads[n].stream,
         load.cancelled = loads[n].cancelled,
         load.complete = loads[n].complete,
         load.committed = loads[n].committed,
         loads[n].at # "done", load.at \in {"failure", "done"},
         load.at = "done" \/ loads[n].at # "complete",
         Current(n) => loads[n].at \notin Working
  PROVE  HandlesInv'
<1>1. Coming(load) = Coming(loads[n]) /\ Told(load) = Told(loads[n])
  BY SameTold
<1>2. Stream(loads[n], edits)
  BY DEF HandlesInv
<1>3. Stream(load, edits)
  BY <1>1, <1>2 DEF Stream
<1>4. Current(n) /\ Faithful(loads[n], scopes) => Faithful(load, scopes)
  BY <1>1 DEF Faithful, Working
<1>5. \A entry : Agrees(load, entry)
  BY DEF Agrees, Working
<1> QED BY <1>3, <1>4, <1>5, OneHandler

\* A load sends an event without entries.
LEMMA OneTells ==
  ASSUME CurrentInv, HandlesInv, NEW n \in Orders, NEW load, NEW event, Becomes(n, load),
         accepted' = accepted, UNCHANGED world, scopes' = scopes, handles' = handles,
         requests' = requests,
         load.target = loads[n].target, load.channel = Append(loads[n].channel, event),
         load.taken = loads[n].taken, load.told = loads[n].told,
         load.stream = loads[n].stream,
         load.cancelled = loads[n].cancelled,
         load.complete = loads[n].complete,
         load.committed = loads[n].committed,
         event.entries = {}, event.what = "complete" => load.at = "done",
         loads[n].at # "done", load.at = "done" \/ loads[n].at # "complete",
         loads[n].at \notin Working, load.at \notin Working
  PROVE  HandlesInv'
<1>1. Stream(loads[n], edits)
  BY DEF HandlesInv
<1>2. /\ IsSeq(load.channel) /\ Len(loads[n].channel) \in Nat
      /\ DOMAIN loads[n].channel = 1..Len(loads[n].channel)
      /\ Len(load.channel) = Len(loads[n].channel) + 1
      /\ DOMAIN load.channel = 1..(Len(loads[n].channel) + 1)
      /\ \A i \in 1..Len(loads[n].channel) : load.channel[i] = loads[n].channel[i]
      /\ load.channel[Len(loads[n].channel) + 1] = event
  BY <1>1, Appended DEF Stream
<1>3. Coming(load) = Coming(loads[n]) \cup {event}
  <2>1. {load.channel[i] : i \in DOMAIN load.channel}
          = {loads[n].channel[i] : i \in DOMAIN loads[n].channel} \cup {event}
    BY <1>1, Appended, SMTT(20) DEF Stream
  <2> QED BY <2>1 DEF Coming
<1>4. Told(load) = Told(loads[n])
  BY <1>3 DEF Told
<1>5. \A i \in DOMAIN loads[n].channel : loads[n].channel[i].what # "complete"
  BY <1>1 DEF Stream, Coming
<1>6. \A i \in DOMAIN load.taken : load.taken[i].what # "complete"
  BY <1>1 DEF Stream, Coming
<1>7. \A i \in DOMAIN load.channel : load.channel[i].what = "complete" => i = Len(load.channel)
  BY <1>2, <1>5
<1>8. Stream(load, edits)
  BY <1>1, <1>2, <1>3, <1>4, <1>6, <1>7 DEF Stream
<1>9. Faithful(loads[n], scopes) => Faithful(load, scopes)
  BY <1>4 DEF Faithful
<1>10. \A entry : Agrees(load, entry)
  BY DEF Agrees
<1> QED BY <1>8, <1>9, <1>10, OneHandler

\* The three ways an attempt to send goes, for an event without entries.
LEMMA OneAsks ==
  ASSUME CurrentInv, HandlesInv, NEW n \in Orders, NEW event, NEW sent, Sends(n, event, sent),
         DOMAIN sent = Fields,
         sent.target = loads[n].target, sent.channel = loads[n].channel,
         sent.taken = loads[n].taken, sent.told = loads[n].told,
         sent.stream = loads[n].stream,
         sent.cancelled = loads[n].cancelled,
         sent.complete = loads[n].complete,
         sent.committed = loads[n].committed,
         event.entries = {}, event.what = "complete" => sent.at = "done",
         loads[n].at # "done", sent.at = "done" \/ loads[n].at # "complete",
         loads[n].at \notin Working, sent.at \notin Working
  PROVE  HandlesInv'
<1>0. /\ DOMAIN loads[n] = Fields /\ Stream(loads[n], edits)
      /\ accepted' = accepted /\ UNCHANGED world /\ scopes' = scopes /\ handles' = handles
      /\ requests' = requests
  BY DEF CurrentInv, HandlesInv, LoadInv, Sends, session
<1>1. CASE loads[n].cancelled \/ loads[n].stream = "dropped"
  <2> DEFINE load == Finished(loads[n])
  <2>1. Becomes(n, load)
    BY <1>1 DEF Sends
  <2>2. /\ load.target = loads[n].target /\ load.channel = loads[n].channel
        /\ load.taken = loads[n].taken /\ load.told = loads[n].told
        /\ load.stream = loads[n].stream /\ load.at = "done"
    BY <1>0 DEF Finished, Emptied, Fields
  <2>3. load.cancelled = loads[n].cancelled
    BY <1>0 DEF Finished, Emptied, Fields
  <2>4. load.complete = loads[n].complete
    BY <1>0 DEF Finished, Emptied, Fields
  <2>5. load.committed = loads[n].committed
    BY <1>0 DEF Finished, Emptied, Fields
  <2> HIDE DEF load
  <2> QED BY <1>0, <2>1, <2>2, <2>3, <2>4, <2>5, OneStops
<1>2. CASE ~ (loads[n].cancelled \/ loads[n].stream = "dropped") /\ Full(n)
  <2> DEFINE load == [loads[n] EXCEPT !.parking = TRUE]
  <2>1. Becomes(n, load)
    BY <1>2 DEF Sends
  <2>2. \A f \in Telling : load[f] = loads[n][f]
    BY <1>0 DEF Telling, Fields
  <2>3. load.at = loads[n].at /\ load.stream = loads[n].stream
    BY <1>0 DEF Fields
  <2>4. load.cancelled = loads[n].cancelled
    BY <1>0 DEF Fields
  <2> HIDE DEF load
  <2>5. load.stream # "dropped"
    BY <1>2, <2>3
  <2> QED BY <1>0, <2>1, <2>2, <2>3, <2>4, <2>5, OneWaits
<1>3. CASE ~ (loads[n].cancelled \/ loads[n].stream = "dropped") /\ ~ Full(n)
  <2> DEFINE load == [sent EXCEPT !.channel = Append(@, event)]
  <2>1. Becomes(n, load)
    BY <1>3 DEF Sends
  <2>2. /\ load.target = loads[n].target /\ load.channel = Append(loads[n].channel, event)
        /\ load.taken = loads[n].taken /\ load.told = loads[n].told
        /\ load.stream = loads[n].stream /\ load.at = sent.at
    BY DEF Fields
  <2>3. load.cancelled = loads[n].cancelled
    BY DEF Fields
  <2>4. load.complete = loads[n].complete
    BY DEF Fields
  <2>5. load.committed = loads[n].committed
    BY DEF Fields
  <2> HIDE DEF load
  <2> QED BY <1>0, <2>1, <2>2, <2>3, <2>4, <2>5, OneTells
<1> QED BY <1>1, <1>2, <1>3

\* Steps that tell nothing of a file.
LEMMA HandlesElse ==
  ASSUME CurrentInv, HandlesInv, NEW n \in Orders,
         \/ Opens(n) \/ Cancels(n) \/ Wakes(n) \/ Activates(n) \/ SendsCatalogue(n)
         \/ SendsComplete(n) \/ SendsFailure(n) \/ Notices(n) \/ Breaks(n)
         \/ (UNCHANGED <<world, session>> /\ \E failing : Reads(n, failing))
  PROVE  HandlesInv'
<1>0. DOMAIN loads[n] = Fields /\ Stream(loads[n], edits)
  BY DEF CurrentInv, HandlesInv, LoadInv
<1>1. CASE Opens(n)
  <2> DEFINE load == [IF loads[n].cancelled THEN Woken(loads[n]) ELSE loads[n] EXCEPT
                        !.stream = "open",
                        !.known = loads[n].target \in DOMAIN requests
                                    /\ requests[loads[n].target] = n]
  <2>1. /\ Becomes(n, load) /\ accepted' = accepted /\ UNCHANGED world /\ scopes' = scopes
        /\ requests' = requests /\ handles' = handles
    BY <1>1 DEF Opens, session
  <2>2. \A f \in Telling : load[f] = loads[n][f]
    BY <1>0 DEF Woken, Fields, Telling
  <2>3. load.at = loads[n].at /\ load.stream = "open"
    BY <1>0 DEF Woken, Fields
  <2>4. load.cancelled = loads[n].cancelled
    BY <1>0 DEF Woken, Fields
  <2> HIDE DEF load
  <2> QED BY <2>1, <2>2, <2>3, <2>4, OneWaits
<1>2. CASE Cancels(n)
  <2> DEFINE load == [Woken(loads[n]) EXCEPT !.cancelled = TRUE]
  <2>1. /\ Becomes(n, load) /\ accepted' = accepted /\ UNCHANGED world /\ scopes' = scopes
        /\ requests' = requests /\ handles' = handles
    BY <1>2 DEF Cancels, session
  <2>2. \A f \in Telling : load[f] = loads[n][f]
    BY <1>0 DEF Woken, Fields, Telling
  <2>3. load.at = loads[n].at
    BY <1>0 DEF Woken, Fields
  <2>4. load.cancelled
    BY <1>0 DEF Woken, Fields
  <2> HIDE DEF load
  <2> QED BY <2>1, <2>2, <2>3, <2>4, OneWaits
<1>3. CASE Wakes(n)
  <2> DEFINE load == [loads[n] EXCEPT !.parking = FALSE, !.token = FALSE]
  <2>1. /\ Becomes(n, load) /\ accepted' = accepted /\ UNCHANGED world /\ scopes' = scopes
        /\ requests' = requests /\ handles' = handles
    BY <1>3 DEF Wakes, session
  <2>2. \A f \in Telling : load[f] = loads[n][f]
    BY <1>0 DEF Fields, Telling
  <2>3. load.at = loads[n].at /\ load.stream = loads[n].stream
    BY <1>0 DEF Fields
  <2>4. load.cancelled = loads[n].cancelled
    BY <1>0 DEF Fields
  <2> HIDE DEF load
  <2>5. load.stream = "dropped" => load.cancelled
    BY <1>0, <2>3, <2>4 DEF Stream
  <2> QED BY <2>1, <2>2, <2>3, <2>4, <2>5, OneWaits
<1>4. CASE Activates(n)
  <2> DEFINE active == IF disk[Config] = None \/ ~ disk[Config].content.ok THEN None
                       ELSE disk[Config].content.says
             load == [loads[n] EXCEPT !.at = "catalogue", !.active = active]
  <2>1. /\ Becomes(n, load) /\ accepted' = accepted /\ UNCHANGED world /\ scopes' = scopes
        /\ requests' = requests /\ handles' = handles /\ loads[n].at = "activate"
    BY <1>4 DEF Activates, session
  <2>2. \A f \in Telling : load[f] = loads[n][f]
    BY <1>0 DEF Fields, Telling
  <2>3. load.at = "catalogue" /\ load.stream = loads[n].stream
    BY <1>0 DEF Fields
  <2>4. load.cancelled = loads[n].cancelled
    BY <1>0 DEF Fields
  <2> HIDE DEF load
  <2>5. load.stream = "dropped" => load.cancelled
    BY <1>0, <2>3, <2>4 DEF Stream
  <2>6. load.at \in Working <=> loads[n].at \in Working
    BY <2>1, <2>3 DEF Working
  <2> QED BY <2>1, <2>2, <2>3, <2>4, <2>5, <2>6, OneWaits
<1>5. CASE SendsCatalogue(n)
  <2> DEFINE sent == [loads[n] EXCEPT !.at = IF loads[n].active = None THEN "complete" ELSE "walk"]
             event == Event("catalogue")
  <2>1. Sends(n, event, sent) /\ loads[n].at = "catalogue"
    BY <1>5 DEF SendsCatalogue
  <2>2. /\ DOMAIN sent = Fields /\ sent.target = loads[n].target
        /\ sent.at \in {"complete", "walk"} /\ sent.stream = loads[n].stream
        /\ sent.channel = loads[n].channel /\ sent.taken = loads[n].taken
        /\ sent.told = loads[n].told
    BY <1>0 DEF Fields
  <2>3. sent.cancelled = loads[n].cancelled
    BY <1>0 DEF Fields
  <2>4. sent.committed = loads[n].committed
    BY <1>0 DEF Fields
  <2>5. sent.complete = loads[n].complete
    BY <1>0 DEF Fields
  <2>6. event.entries = {} /\ event.what # "complete"
    BY DEF Event
  <2>7. loads[n].at \notin Working /\ sent.at \notin Working
    BY <2>1, <2>2 DEF Working
  <2> HIDE DEF sent, event
  <2> QED BY <2>1, <2>2, <2>3, <2>4, <2>5, <2>6, <2>7, OneAsks
<1>6. CASE SendsComplete(n) \/ SendsFailure(n)
  <2> DEFINE sent == Finished(loads[n])
  <2>1. PICK event \in {Event("complete"), Event("failure")} : Sends(n, event, sent)
    BY <1>6 DEF SendsComplete, SendsFailure
  <2>2. /\ DOMAIN sent = Fields /\ sent.target = loads[n].target
        /\ sent.at = "done" /\ sent.stream = loads[n].stream
        /\ sent.channel = loads[n].channel /\ sent.taken = loads[n].taken
        /\ sent.told = loads[n].told
    BY <1>0 DEF Fields, Finished, Emptied
  <2>3. sent.cancelled = loads[n].cancelled
    BY <1>0 DEF Fields, Finished, Emptied
  <2>4. sent.committed = loads[n].committed
    BY <1>0 DEF Fields, Finished, Emptied
  <2>5. sent.complete = loads[n].complete
    BY <1>0 DEF Fields, Finished, Emptied
  <2>6. event.entries = {}
    BY <2>1 DEF Event
  <2>7. loads[n].at \notin Working /\ sent.at \notin Working /\ loads[n].at # "done"
    BY <1>6, <2>2 DEF Working, SendsComplete, SendsFailure
  <2> HIDE DEF sent
  <2> QED BY <2>1, <2>2, <2>3, <2>4, <2>5, <2>6, <2>7, OneAsks
<1>7. CASE Notices(n) \/ Breaks(n)
  <2>1. PICK load \in {Finished(loads[n]), [Emptied(loads[n]) EXCEPT !.at = "failure"]} :
          /\ Becomes(n, load)
          /\ load = Finished(loads[n]) \/ loads[n].at \in {"activate", "walk"}
    BY <1>7 DEF Notices, Breaks
  <2>2. /\ accepted' = accepted /\ UNCHANGED world /\ scopes' = scopes /\ requests' = requests
        /\ handles' = handles
    BY <1>7 DEF Notices, Breaks, session
  <2>3. /\ load.target = loads[n].target
        /\ load.at \in {"done", "failure"} /\ load.stream = loads[n].stream
        /\ load.channel = loads[n].channel /\ load.taken = loads[n].taken
        /\ load.told = loads[n].told
    <3>1. CASE load = Finished(loads[n])
      BY <1>0, <3>1 DEF Fields, Finished, Emptied
    <3>2. CASE load = [Emptied(loads[n]) EXCEPT !.at = "failure"]
      BY <1>0, <3>2 DEF Fields, Emptied
    <3> QED BY <2>1, <3>1, <3>2
  <2>4. load.cancelled = loads[n].cancelled
    BY <1>0, <2>1, ZenonT(40) DEF Fields, Finished, Emptied
  <2>5. load.committed = loads[n].committed
    BY <1>0, <2>1, ZenonT(40) DEF Fields, Finished, Emptied
  <2>6. load.complete = loads[n].complete
    BY <1>0, <2>1 DEF Fields, Finished, Emptied
  <2>7. /\ loads[n].at \notin {"complete", "done"}
        /\ Current(n) => loads[n].at \notin Working
    BY <1>7 DEF Notices, Breaks, Current, Working
  <2> QED BY <2>1, <2>2, <2>3, <2>4, <2>5, <2>6, <2>7, OneStops
<1>8. ASSUME UNCHANGED <<world, session>>, NEW failing, Reads(n, failing)
      PROVE  HandlesInv'
  <2>1. PICK quiet, previous, read :
          Becomes(n, [loads[n] EXCEPT !.at = "recheck", !.quiet = quiet, !.previous = previous,
                                      !.read = read])
    BY <1>8 DEF Reads
  <2> DEFINE load == [loads[n] EXCEPT !.at = "recheck", !.quiet = quiet, !.previous = previous,
                                      !.read = read]
  <2>2. /\ accepted' = accepted /\ UNCHANGED world /\ scopes' = scopes /\ requests' = requests
        /\ handles' = handles /\ loads[n].at = "scope"
    BY <1>8 DEF Reads, session
  <2>3. \A f \in Telling : load[f] = loads[n][f]
    BY <1>0 DEF Fields, Telling
  <2>4. load.at = "recheck" /\ load.stream = loads[n].stream
    BY <1>0 DEF Fields
  <2>5. load.cancelled = loads[n].cancelled
    BY <1>0 DEF Fields
  <2>6. Becomes(n, load)
    BY <2>1
  <2> HIDE DEF load
  <2>7. load.stream = "dropped" => load.cancelled
    BY <1>0, <2>4, <2>5 DEF Stream
  <2>8. load.at \in Working <=> loads[n].at \in Working
    BY <2>2, <2>4 DEF Working
  <2> QED BY <2>2, <2>3, <2>4, <2>5, <2>6, <2>7, <2>8, OneWaits
<1> QED BY <1>1, <1>2, <1>3, <1>4, <1>5, <1>6, <1>7, <1>8

\* A step at which no load goes on, and the session's scopes and handles stay.
LEMMA NoneHandles ==
  ASSUME CurrentInv, HandlesInv, scopes' = scopes, handles' = handles,
         Orders \subseteq Orders',
         edits' \in Nat, edits <= edits',
         \A entry : entry.path \in Path /\ entry.stamp \in 0..edits /\ Unedited(entry)' =>
                     Unedited(entry),
         \A n \in Orders :
           /\ \A f \in Telling : loads'[n][f] = loads[n][f]
           /\ loads'[n].at = loads[n].at
           /\ loads'[n].stream = "dropped" => loads'[n].cancelled
           /\ Current(n)' => Current(n),
         \A n \in Orders' \ Orders :
           /\ \A m \in Orders : m < n
           /\ Stream(loads'[n], edits') /\ Told(loads'[n]) = {}
           /\ loads'[n].at \notin Working
           /\ ~ loads'[n].complete
           /\ ~ loads'[n].committed
  PROVE  HandlesInv'
<1>1. ASSUME NEW n \in Orders
      PROVE  /\ loads'[n].target = loads[n].target
             /\ loads'[n].channel = loads[n].channel
             /\ loads'[n].taken = loads[n].taken /\ loads'[n].told = loads[n].told
             /\ loads'[n].found = loads[n].found /\ loads'[n].todo = loads[n].todo
             /\ loads'[n].pending = loads[n].pending /\ loads'[n].at = loads[n].at
  BY DEF Telling
<1>2. \A n \in Orders : loads'[n].complete = loads[n].complete
  BY DEF Telling
<1>3. \A n \in Orders : loads'[n].committed = loads[n].committed
  BY DEF Telling
<1>4. \A n \in Orders : Coming(loads'[n]) = Coming(loads[n]) /\ Told(loads'[n]) = Told(loads[n])
  BY <1>1, SameTold
<1>5. 0..edits \subseteq 0..edits' /\ accepted \in Nat /\ Orders \subseteq Nat
  BY DEF CurrentInv, Orders
<1>6. ASSUME NEW n \in Orders'
      PROVE  Stream(loads'[n], edits')
  <2>1. CASE n \in Orders
    <3>1. Stream(loads[n], edits)
      BY <2>1 DEF HandlesInv
    <3>2. \A entry \in Told(loads'[n]) :
            entry.path \in Covers[loads'[n].target] /\ Lazy(entry.path) /\ entry.stamp \in 0..edits'
      BY <1>1, <1>4, <1>5, <2>1, <3>1 DEF Stream
    <3>3. /\ loads'[n].stream = "dropped" => loads'[n].cancelled
          /\ loads'[n].complete => loads'[n].at = "done"
          /\ loads'[n].at \notin {"complete", "done"} => ~ loads'[n].committed
      BY <1>1, <1>2, <1>3, <2>1, <3>1 DEF Stream
    <3>4. /\ IsSeq(loads'[n].channel)
          /\ loads'[n].taken = <<>> \/ \E event : loads'[n].taken = <<event>>
          /\ \A event \in Coming(loads'[n]) :
               event.what = "complete" => loads'[n].at = "done" /\ event.entries = {}
          /\ \A i \in DOMAIN loads'[n].channel :
               loads'[n].channel[i].what = "complete" => i = Len(loads'[n].channel)
          /\ \A i \in DOMAIN loads'[n].taken :
               loads'[n].taken[i].what = "complete" => loads'[n].channel = <<>>
      BY <1>1, <1>4, <2>1, <3>1 DEF Stream
    <3> QED BY <3>2, <3>3, <3>4 DEF Stream
  <2>2. CASE n \notin Orders
    BY <2>2
  <2> QED BY <2>1, <2>2
<1>7. ASSUME NEW k \in DOMAIN handles'
      PROVE  Owned(k)' /\ FromLast(k)'
  <2>1. Owned(k) /\ FromLast(k)
    BY DEF HandlesInv
  <2>2. Owned(k)'
    BY <1>1, <2>1 DEF Owned
  <2>3. FromLast(k)'
    <3>1. CASE \A n \in Orders :
                 loads[n].committed /\ k[2] \in Covers[loads[n].target] => n < handles[k].order
      BY <1>1, <1>3, <3>1 DEF FromLast
    <3>2. CASE /\ ScopeOf[k[2]] \in DOMAIN scopes /\ k[2] \in DOMAIN scopes[ScopeOf[k[2]]].found
               /\ scopes[ScopeOf[k[2]]].found[k[2]].handle = handles[k].handle
      BY <3>2 DEF FromLast
    <3> QED BY <2>1, <3>1, <3>2 DEF FromLast
  <2> QED BY <2>2, <2>3
<1>8. ASSUME NEW n \in Orders', Current(n)'
      PROVE  Faithful(loads'[n], scopes') /\ Answered(n)'
  <2>1. CASE n \in Orders
    <3>1. Current(n) /\ Faithful(loads[n], scopes) /\ Answered(n)
      BY <1>8, <2>1 DEF HandlesInv
    <3>2. Answered(n)'
      BY <1>1, <2>1, <3>1 DEF Answered
    <3>3. Faithful(loads'[n], scopes)
      BY <1>1, <1>3, <1>4, <2>1, <3>1 DEF Faithful, SentScopes
    <3> QED BY <3>2, <3>3
  <2>2. CASE n \notin Orders
    <3>1. Told(loads'[n]) = {} /\ loads'[n].told = {}
      BY <2>2 DEF Told
    <3> QED BY <2>2, <3>1 DEF Faithful, Answered
  <2> QED BY <2>1, <2>2
<1>9. ASSUME NEW n \in Orders', loads'[n].complete, ~ FoundInactive(n)',
             NEW entry \in loads'[n].told, Unedited(entry)'
      PROVE  Fetchable(n, entry)'
  <2>1. n \in Orders /\ loads[n].complete /\ entry \in loads[n].told
    BY <1>1, <1>2, <1>9
  <2>2. ~ FoundInactive(n)
    BY <1>1, <1>2, <1>3, <1>9, <2>1 DEF FoundInactive
  <2>3. entry.path \in Path /\ entry.stamp \in 0..edits
    <3>1. entry.path \in Covers[loads[n].target] /\ entry.stamp \in 0..edits
      BY <2>1 DEF HandlesInv, Stream, Told
    <3>2. loads[n].target \in Target
      BY <2>1 DEF CurrentInv, LoadInv
    <3> QED BY <3>1, <3>2, PresentationAssumption
  <2>4. Unedited(entry)
    BY <1>9, <2>3
  <2>5. Fetchable(n, entry)
    BY <2>1, <2>2, <2>4 DEF HandlesInv
  <2>6. Resolves(loads'[n].target, entry, handles') /\ Shown(entry)'
    BY <1>1, <2>1, <2>5 DEF Fetchable, Shown
  <2>7. ASSUME NEW m \in Orders', Current(m)'
        PROVE  Agrees(loads'[m], entry)
    <3>1. CASE m \in Orders
      <4>1. Current(m) /\ Agrees(loads[m], entry)
        BY <2>5, <2>7, <3>1 DEF Fetchable
      <4> QED BY <1>1, <3>1, <4>1 DEF Agrees
    <3>2. CASE m \notin Orders
      BY <3>2 DEF Agrees
    <3> QED BY <3>1, <3>2
  <2> QED BY <2>6, <2>7 DEF Fetchable
<1> QED BY <1>6, <1>7, <1>8, <1>9 DEF HandlesInv

\* What an editor saves has a stamp that nobody was told.
LEMMA HandlesWhenSaved ==
  ASSUME CurrentInv, HandlesInv, Edit
  PROVE  HandlesInv'
<1>1. PICK path, value :
        disk' = [disk EXCEPT ![path] = value] /\ (value # None => value.stamp = edits + 1)
  <2>1. PICK save \in Saves :
          disk' = [disk EXCEPT ![save.path] = IF save.content = None THEN None
                                 ELSE [content |-> save.content, stamp |-> edits + 1]]
    BY DEF Edit
  <2> DEFINE value == IF save.content = None THEN None
                      ELSE [content |-> save.content, stamp |-> edits + 1]
  <2>2. disk' = [disk EXCEPT ![save.path] = value] /\ (value # None => value.stamp = edits + 1)
    BY <2>1
  <2> QED BY <2>2
<1>2. /\ edits \in Nat /\ edits' = edits + 1 /\ Orders' = Orders /\ DOMAIN disk = Path
      /\ DOMAIN loads' = Orders
      /\ \A n \in Orders : loads'[n] = [loads[n] EXCEPT !.quiet = FALSE]
      /\ accepted' = accepted /\ scopes' = scopes /\ requests' = requests /\ handles' = handles
  BY DEF Edit, CurrentInv, session, Orders
<1>3. ASSUME NEW n \in Orders
      PROVE  /\ \A f \in Telling : loads'[n][f] = loads[n][f]
             /\ loads'[n].at = loads[n].at
             /\ loads'[n].stream = "dropped" => loads'[n].cancelled
             /\ Current(n)' => Current(n)
  <2>1. DOMAIN loads[n] = Fields /\ Stream(loads[n], edits)
    BY DEF CurrentInv, LoadInv, HandlesInv
  <2>2. \A f \in Telling : loads'[n][f] = loads[n][f]
    BY <1>2, <2>1 DEF Fields, Telling
  <2>3. loads'[n].cancelled = loads[n].cancelled
    BY <1>2, <2>1 DEF Fields
  <2>4. /\ loads'[n].at = loads[n].at /\ loads'[n].stream = loads[n].stream
        /\ loads'[n].target = loads[n].target
    BY <1>2, <2>1 DEF Fields
  <2>5. Current(n)' => Current(n)
    BY <1>2, <2>3, <2>4 DEF Current
  <2>6. loads'[n].stream = "dropped" => loads'[n].cancelled
    BY <2>1, <2>3, <2>4 DEF Stream
  <2> QED BY <2>2, <2>4, <2>5, <2>6
<1>4. ASSUME NEW entry, entry.path \in Path, entry.stamp \in 0..edits, Unedited(entry)'
      PROVE  Unedited(entry)
  <2>1. disk'[entry.path] = IF entry.path = path THEN value ELSE disk[entry.path]
    BY <1>1, <1>2, <1>4
  <2>2. disk'[entry.path] # None /\ disk'[entry.path].stamp = entry.stamp
    BY <1>4 DEF Unedited
  <2>3. entry.path # path
    BY <1>1, <1>2, <1>4, <2>1, <2>2
  <2> QED BY <2>1, <2>2, <2>3 DEF Unedited
<1> QED BY <1>2, <1>3, <1>4, NoneHandles

\* A load that starts has told nothing, and the loads it supersedes go on telling what they told.
LEMMA HandlesWhenAccepted ==
  ASSUME CurrentInv, HandlesInv, NEW t \in Target, Accepts(t)
  PROVE  HandlesInv'
<1> DEFINE order == accepted + 1
           Older(n) == \E u \in DOMAIN requests : requests[u] = n /\ Overlap(t, u)
<1>1. /\ accepted \in Nat /\ accepted' = order /\ Orders' = 1..order /\ edits \in Nat
      /\ Orders' = Orders \cup {order} /\ \A n \in Orders : n < order
      /\ disk' = disk /\ edits' = edits /\ scopes' = scopes /\ handles' = handles
  BY DEF Accepts, Orders, CurrentInv, world
<1>2. /\ loads'[order] = Started(t)
      /\ \A n \in Orders : loads'[n] = IF Older(n) THEN Superseded(loads[n]) ELSE loads[n]
  BY <1>1 DEF Accepts
<1>3. /\ DOMAIN requests' = DOMAIN requests \cup {t}
      /\ requests'[t] = order
      /\ \A u \in DOMAIN requests \ {t} : requests'[u] = requests[u]
  BY DEF Accepts, With, Over
<1>4. /\ Stream(Started(t), edits) /\ Told(Started(t)) = {} /\ Started(t).at \notin Working
      /\ ~ Started(t).committed /\ ~ Started(t).complete
  <2>1. /\ Started(t).channel = <<>> /\ Started(t).taken = <<>> /\ Started(t).told = {}
        /\ Started(t).at = "activate" /\ Started(t).stream = "opening"
        /\ Started(t).committed = FALSE /\ Started(t).complete = FALSE
    BY DEF Started
  <2>2. Coming(Started(t)) = {}
    BY <2>1 DEF Coming
  <2>3. Told(Started(t)) = {}
    BY <2>1, <2>2 DEF Told
  <2>4. IsSeq(<<>>) /\ DOMAIN <<>> = {}
    BY DEF IsSeq
  <2>5. Started(t).at \notin Working
    BY <2>1 DEF Working
  <2>6. Stream(Started(t), edits)
    BY <2>1, <2>2, <2>3, <2>4 DEF Stream
  <2> QED BY <2>1, <2>3, <2>5, <2>6
<1>5. ASSUME NEW n \in Orders
      PROVE  /\ \A f \in Telling : loads'[n][f] = loads[n][f]
             /\ loads'[n].at = loads[n].at
             /\ loads'[n].stream = "dropped" => loads'[n].cancelled
             /\ Current(n)' => Current(n)
  <2>0. Stream(loads[n], edits) /\ DOMAIN loads[n] = Fields
    BY DEF CurrentInv, LoadInv, HandlesInv
  <2>1. /\ \A f \in Telling : loads'[n][f] = loads[n][f]
        /\ loads'[n].at = loads[n].at
        /\ loads'[n].stream = loads[n].stream
        /\ loads'[n].target = loads[n].target
    <3>1. CASE ~ Older(n)
      BY <1>2, <2>0, <3>1
    <3>2. CASE Older(n)
      <4>1. loads'[n] = Superseded(loads[n])
        BY <1>2, <3>2
      <4>2. \A f \in Telling : loads'[n][f] = loads[n][f]
        BY <2>0, <4>1 DEF Superseded, Woken, Fields, Telling
      <4>3. loads'[n].at = loads[n].at /\ loads'[n].stream = loads[n].stream
        BY <2>0, <4>1 DEF Superseded, Woken, Fields
      <4> QED BY <4>2, <4>3 DEF Telling
    <3> QED BY <3>1, <3>2
  <2>2. loads[n].cancelled => loads'[n].cancelled
    <3>1. CASE ~ Older(n)
      BY <1>2, <3>1
    <3>2. CASE Older(n)
      <4>1. loads'[n] = Superseded(loads[n])
        BY <1>2, <3>2
      <4>2. loads'[n].cancelled
        BY <2>0, <4>1 DEF Superseded, Woken, Fields
      <4> QED BY <4>2
    <3> QED BY <3>1, <3>2
  <2>3. Current(n)' => Current(n)
    <3>1. Current(n)' => n # order /\ loads[n].target \in DOMAIN requests'
                           /\ requests'[loads[n].target] = n
      BY <1>1, <2>1 DEF Current
    <3>2. Current(n)' => loads[n].target \in DOMAIN requests /\ requests[loads[n].target] = n
      BY <1>3, <3>1
    <3> QED BY <2>2, <3>2 DEF Current
  <2> QED BY <2>0, <2>1, <2>2, <2>3 DEF Stream
<1>6. \A n \in Orders' \ Orders : n = order
  BY <1>1
<1>7. \A entry : Unedited(entry)' => Unedited(entry)
  BY <1>1 DEF Unedited
<1> HIDE DEF order, Older
<1>8. \A n \in Orders' \ Orders :
        /\ \A m \in Orders : m < n
        /\ Stream(loads'[n], edits') /\ Told(loads'[n]) = {}
        /\ loads'[n].at \notin Working
        /\ ~ loads'[n].complete
        /\ ~ loads'[n].committed
  BY <1>1, <1>2, <1>4, <1>6
<1> QED BY <1>1, <1>5, <1>7, <1>8, NoneHandles

\* Nothing comes any more of a stream that is dropped.
LEMMA HandlesWhenDropped ==
  ASSUME CurrentInv, HandlesInv, NEW n \in Orders, Drops(n)
  PROVE  HandlesInv'
<1> DEFINE load == [Woken(loads[n]) EXCEPT !.cancelled = TRUE, !.stream = "dropped",
                                           !.channel = <<>>]
<1>0. DOMAIN loads[n] = Fields /\ Stream(loads[n], edits)
  BY DEF CurrentInv, HandlesInv, LoadInv
<1>1. /\ Becomes(n, load) /\ accepted' = accepted /\ UNCHANGED world /\ scopes' = scopes
      /\ handles' = handles /\ loads[n].taken = <<>>
      /\ DOMAIN requests' \subseteq DOMAIN requests
      /\ \A t \in DOMAIN requests' : requests'[t] = requests[t]
  BY DEF Drops, Restrict
<1>2. /\ load.target = loads[n].target /\ load.at = loads[n].at
      /\ load.channel = <<>> /\ load.taken = loads[n].taken /\ load.told = loads[n].told
  BY <1>0 DEF Woken, Fields
<1>3. load.cancelled
  BY <1>0 DEF Woken, Fields
<1>4. load.committed = loads[n].committed
  BY <1>0 DEF Woken, Fields
<1>5. load.complete = loads[n].complete
  BY <1>0 DEF Woken, Fields
<1> HIDE DEF load
<1>6. IsSeq(<<>>) /\ DOMAIN <<>> = {}
  BY DEF IsSeq
<1>7. Coming(load) = {}
  BY <1>1, <1>2, <1>6 DEF Coming
<1>8. Told(load) \subseteq Told(loads[n])
  BY <1>2, <1>7 DEF Told
<1>9. Stream(load, edits)
  <2>1. \A entry \in Told(load) :
          entry.path \in Covers[load.target] /\ Lazy(entry.path) /\ entry.stamp \in 0..edits
    BY <1>0, <1>2, <1>8 DEF Stream
  <2>2. /\ load.complete => load.at = "done"
        /\ load.at \notin {"complete", "done"} => ~ load.committed
    BY <1>0, <1>2, <1>4, <1>5 DEF Stream
  <2> QED BY <1>1, <1>2, <1>3, <1>6, <1>7, <2>1, <2>2 DEF Stream
<1> QED BY <1>1, <1>2, <1>3, <1>4, <1>5, <1>9, OneHandler

\* A client that takes an event is not told of its files yet.
LEMMA HandlesWhenReceived ==
  ASSUME CurrentInv, HandlesInv, NEW n \in Orders, Receives(n)
  PROVE  HandlesInv'
<1> DEFINE event == Head(loads[n].channel)
           load == [Woken(loads[n]) EXCEPT
             !.taken = IF event.what = "complete" \/ event.entries # {} THEN <<event>> ELSE <<>>,
             !.channel = Tail(@)]
<1>0. DOMAIN loads[n] = Fields /\ Stream(loads[n], edits)
  BY DEF CurrentInv, HandlesInv, LoadInv
<1>1. /\ Becomes(n, load) /\ accepted' = accepted /\ UNCHANGED world /\ scopes' = scopes
      /\ requests' = requests /\ handles' = handles /\ loads[n].taken = <<>>
      /\ loads[n].channel # <<>> /\ loads[n].stream = "open"
  BY DEF Receives, session
<1>2. /\ load.target = loads[n].target /\ load.at = loads[n].at
      /\ load.channel = Tail(loads[n].channel) /\ load.told = loads[n].told
      /\ load.found = loads[n].found /\ load.todo = loads[n].todo
      /\ load.pending = loads[n].pending /\ load.stream = loads[n].stream
  BY <1>0 DEF Woken, Fields
<1>3. load.cancelled = loads[n].cancelled
  BY <1>0 DEF Woken, Fields
<1>4. load.committed = loads[n].committed
  BY <1>0 DEF Woken, Fields
<1>5. load.complete = loads[n].complete
  BY <1>0 DEF Woken, Fields
<1>6. load.taken = IF event.what = "complete" \/ event.entries # {} THEN <<event>> ELSE <<>>
  BY <1>0 DEF Woken, Fields
<1> HIDE DEF load
<1> DEFINE len == Len(loads[n].channel)
<1>7. /\ IsSeq(load.channel) /\ len \in Nat \ {0}
      /\ DOMAIN loads[n].channel = 1..len
      /\ Len(load.channel) = len - 1 /\ DOMAIN load.channel = 1..(len - 1)
      /\ \A i \in 1..(len - 1) : load.channel[i] = loads[n].channel[i + 1]
      /\ event = loads[n].channel[1]
      /\ len = 1 => load.channel = <<>>
  BY <1>0, <1>1, <1>2, Removed DEF Stream
<1> HIDE DEF event, len
<1>8. \A e \in Coming(load) : e \in Coming(loads[n])
  <2>1. \A i \in DOMAIN load.taken : load.taken[i] = event
    BY <1>6
  <2>2. \A i \in DOMAIN load.channel : i + 1 \in DOMAIN loads[n].channel
    BY <1>7
  <2>3. 1 \in DOMAIN loads[n].channel
    BY <1>7
  <2> SUFFICES ASSUME NEW e \in Coming(load) PROVE e \in Coming(loads[n])
    OBVIOUS
  <2>4. CASE \E i \in DOMAIN load.taken : e = load.taken[i]
    BY <1>7, <2>1, <2>3, <2>4 DEF Coming
  <2>5. CASE \E i \in DOMAIN load.channel : e = load.channel[i]
    <3>1. PICK i \in DOMAIN load.channel : e = load.channel[i]
      BY <2>5
    <3>2. e = loads[n].channel[i + 1]
      BY <1>7, <3>1
    <3> QED BY <2>2, <3>2 DEF Coming
  <2> QED BY <2>4, <2>5 DEF Coming
<1>9. \A e \in Coming(loads[n]) : e \in Coming(load) \/ e.entries = {}
  <2> SUFFICES ASSUME NEW e \in Coming(loads[n]), e.entries # {} PROVE e \in Coming(load)
    OBVIOUS
  <2>1. PICK i \in DOMAIN loads[n].channel : e = loads[n].channel[i]
    BY <1>1 DEF Coming
  <2>2. CASE i = 1
    <3>1. load.taken = <<e>>
      BY <1>6, <1>7, <2>1, <2>2
    <3>2. 1 \in DOMAIN load.taken /\ load.taken[1] = e
      BY <3>1
    <3> QED BY <3>2 DEF Coming
  <2>3. CASE i # 1
    <3>1. i - 1 \in 1..(len - 1) /\ i = (i - 1) + 1
      BY <1>7, <2>3
    <3>2. load.channel[i - 1] = e
      BY <1>7, <2>1, <3>1
    <3> QED BY <1>7, <3>1, <3>2 DEF Coming
  <2> QED BY <2>2, <2>3
<1>10. Told(load) = Told(loads[n])
  BY <1>2, <1>8, <1>9 DEF Told
<1>11. \A i \in DOMAIN load.channel : load.channel[i].what = "complete" => i = Len(load.channel)
  <2> SUFFICES ASSUME NEW i \in 1..(len - 1), load.channel[i].what = "complete"
               PROVE  i = len - 1
    BY <1>7
  <2>1. i + 1 \in 1..len /\ loads[n].channel[i + 1].what = "complete"
    BY <1>7
  <2>2. i + 1 = len
    BY <1>0, <1>7, <2>1 DEF Stream, len
  <2> QED BY <1>7, <2>2
<1>12. \A i \in DOMAIN load.taken : load.taken[i].what = "complete" => load.channel = <<>>
  <2>1. \A i \in DOMAIN load.taken : load.taken[i] = event
    BY <1>6
  <2>2. event.what = "complete" => len = 1
    <3>1. \A i \in 1..len : loads[n].channel[i].what = "complete" => i = len
      BY <1>0, <1>7 DEF Stream, len
    <3>2. 1 \in 1..len
      BY <1>7
    <3> QED BY <1>7, <3>1, <3>2
  <2> QED BY <1>7, <2>1, <2>2
<1>13. Stream(load, edits)
  <2>1. load.taken = <<>> \/ \E e : load.taken = <<e>>
    BY <1>6
  <2>2. \A e \in Coming(load) : e.what = "complete" => load.at = "done" /\ e.entries = {}
    BY <1>0, <1>2, <1>8 DEF Stream
  <2>3. \A entry \in Told(load) :
          entry.path \in Covers[load.target] /\ Lazy(entry.path) /\ entry.stamp \in 0..edits
    BY <1>0, <1>2, <1>10 DEF Stream
  <2>4. /\ load.complete => load.at = "done"
        /\ load.at \notin {"complete", "done"} => ~ load.committed
        /\ load.stream # "dropped"
    BY <1>0, <1>1, <1>2, <1>4, <1>5 DEF Stream
  <2> QED BY <1>7, <1>11, <1>12, <2>1, <2>2, <2>3, <2>4 DEF Stream
<1>14. Faithful(loads[n], scopes) => Faithful(load, scopes)
  BY <1>2, <1>4, <1>10 DEF Faithful, SentScopes
<1>15. \A entry : Agrees(loads[n], entry) => Agrees(load, entry)
  BY <1>2 DEF Agrees
<1> QED BY <1>1, <1>2, <1>3, <1>4, <1>5, <1>13, <1>14, <1>15, OneHandler

\* A load makes something of a scope of which it has told nothing.
LEMMA OneFinds ==
  ASSUME CurrentInv, HandlesInv, NEW n \in Orders, NEW load, NEW scope, Becomes(n, load),
         accepted' = accepted, UNCHANGED world, scopes' = scopes, handles' = handles,
         requests' = requests,
         loads[n].at \in {"scope", "recheck"}, load.at = "entries",
         \A f \in Telling \ {"pending"} : load[f] = loads[n][f],
         load.stream = loads[n].stream,
         load.cancelled = loads[n].cancelled,
         load.pending = With(FirstOf(loads[n].todo), scope, loads[n].pending),
         \A entry : /\ Lazy(entry.path) /\ ScopeOf[entry.path] = FirstOf(loads[n].todo)
                    /\ Shown(entry) /\ Right(entry, loads[n].found)
                    => Right(entry, scope.found)
  PROVE  HandlesInv'
<1> DEFINE s == FirstOf(loads[n].todo)
<1>0. LoadInv(loads[n], disk, edits) /\ Stream(loads[n], edits)
  BY DEF CurrentInv, HandlesInv
<1>1. s \in loads[n].todo /\ loads[n].at \in Working /\ load.at \in Working
  BY <1>0, NextScope DEF Working
<1>2. /\ load.target = loads[n].target
      /\ load.channel = loads[n].channel
      /\ load.taken = loads[n].taken /\ load.told = loads[n].told
      /\ load.found = loads[n].found /\ load.todo = loads[n].todo
  BY DEF Telling
<1>3. load.complete = loads[n].complete
  BY DEF Telling
<1>4. load.committed = loads[n].committed
  BY DEF Telling
<1>5. Coming(load) = Coming(loads[n]) /\ Told(load) = Told(loads[n])
  BY <1>2, SameTold
<1>6. /\ DOMAIN load.pending = {s} \cup DOMAIN loads[n].pending
      /\ load.pending[s] = scope
      /\ \A q \in DOMAIN loads[n].pending : q # s => load.pending[q] = loads[n].pending[q]
  BY DEF With, Over
<1> HIDE DEF s
<1>7. Stream(load, edits)
  BY <1>0, <1>2, <1>3, <1>4, <1>5 DEF Stream
<1>8. /\ SentScopes(load) = SentScopes(loads[n])
      /\ \A q \in SentScopes(load) : load.pending[q] = loads[n].pending[q]
  BY <1>1, <1>2, <1>6 DEF SentScopes
<1>9. ~ load.committed /\ ~ loads[n].committed
  BY <1>0, <1>4 DEF Stream
<1>10. Faithful(loads[n], scopes) => Faithful(load, scopes)
  BY <1>1, <1>5, <1>8, <1>9 DEF Faithful
<1>11. ASSUME NEW entry, Lazy(entry.path), Shown(entry), Agrees(loads[n], entry)
       PROVE  Agrees(load, entry)
  <2> SUFFICES ASSUME entry.path \in Covers[load.target]
               PROVE  /\ Right(entry, load.found)
                      /\ ScopeOf[entry.path] \in DOMAIN load.pending =>
                           Right(entry, load.pending[ScopeOf[entry.path]].found)
    BY DEF Agrees
  <2>1. /\ Right(entry, loads[n].found)
        /\ ScopeOf[entry.path] \in DOMAIN loads[n].pending =>
             Right(entry, loads[n].pending[ScopeOf[entry.path]].found)
    BY <1>1, <1>2, <1>11 DEF Agrees
  <2>2. CASE ScopeOf[entry.path] = s
    BY <1>2, <1>6, <1>11, <2>1, <2>2 DEF s
  <2>3. CASE ScopeOf[entry.path] # s
    BY <1>2, <1>6, <2>1, <2>3
  <2> QED BY <2>2, <2>3
<1> QED BY <1>2, <1>3, <1>4, <1>7, <1>10, <1>11, OneHandler

\* A scope that is taken over whole has the handles that the session shows.
LEMMA HandlesWhenReused ==
  ASSUME CurrentInv, HandlesInv, NEW n \in Orders, Reuses(n)
  PROVE  HandlesInv'
<1> DEFINE s == FirstOf(loads[n].todo)
           scope == Previous(s)
           load == [loads[n] EXCEPT !.at = "entries", !.pending = With(s, scope, @)]
<1>0. DOMAIN loads[n] = Fields
  BY DEF CurrentInv, LoadInv
<1>1. /\ Becomes(n, load) /\ accepted' = accepted /\ UNCHANGED world /\ scopes' = scopes
      /\ requests' = requests /\ handles' = handles /\ loads[n].at = "scope"
  BY DEF Reuses, session
<1>2. /\ \A f \in Telling \ {"pending"} : load[f] = loads[n][f]
      /\ load.at = "entries" /\ load.stream = loads[n].stream
      /\ load.pending = With(s, scope, loads[n].pending)
  BY <1>0 DEF Fields, Telling
<1>3. load.cancelled = loads[n].cancelled
  BY <1>0 DEF Fields
<1> HIDE DEF load
<1>4. \A entry : ScopeOf[entry.path] = s /\ Shown(entry) => Right(entry, scope.found)
  BY DEF Shown, Previous
<1> QED BY <1>1, <1>2, <1>3, <1>4, OneFinds

\* A scope that is loaded keeps the handles that the walk gave.
LEMMA HandlesWhenRechecked ==
  ASSUME CurrentInv, HandlesInv, NEW n \in Orders, Rechecks(n)
  PROVE  HandlesInv'
<1> DEFINE s == FirstOf(loads[n].todo)
           scope == LoadedScope(loads[n], s)
           load == [loads[n] EXCEPT !.at = "entries", !.previous = None, !.read = <<>>,
                                    !.pending = With(s, scope, @)]
<1>0. DOMAIN loads[n] = Fields /\ LoadInv(loads[n], disk, edits)
  BY DEF CurrentInv, LoadInv
<1>1. /\ Becomes(n, load) /\ accepted' = accepted /\ UNCHANGED world /\ scopes' = scopes
      /\ requests' = requests /\ handles' = handles /\ loads[n].at = "recheck"
  BY DEF Rechecks, session
<1>2. /\ \A f \in Telling \ {"pending"} : load[f] = loads[n][f]
      /\ load.at = "entries" /\ load.stream = loads[n].stream
      /\ load.pending = With(s, scope, loads[n].pending)
  BY <1>0 DEF Fields, Telling
<1>3. load.cancelled = loads[n].cancelled
  BY <1>0 DEF Fields
<1> HIDE DEF load
<1>4. ASSUME NEW entry, Lazy(entry.path), ScopeOf[entry.path] = s, Right(entry, loads[n].found)
      PROVE  Right(entry, scope.found)
  <2> DEFINE p == entry.path
             read == loads[n].read
             kept == DOMAIN FoundIn(loads[n], s) \ Vanished(read)
             looked == {q \in DOMAIN read : read[q].outcome = "read" /\ disk[q] # None}
  <2>1. p \in DOMAIN loads[n].found
    BY <1>4 DEF Right
  <2>2. p \notin DOMAIN read
    BY <1>0, <1>1, <1>4 DEF LoadInv, Reading
  <2>3. p \in kept /\ p \notin looked
    BY <1>4, <2>1, <2>2 DEF FoundIn, Restrict, Vanished
  <2>4. scope.found = [q \in kept |-> IF q \in looked
                                      THEN [loads[n].found[q] EXCEPT !.stamp = disk[q].stamp]
                                      ELSE loads[n].found[q]]
    BY DEF LoadedScope
  <2>5. p \in DOMAIN scope.found /\ scope.found[p] = loads[n].found[p]
    BY <2>3, <2>4
  <2> QED BY <1>4, <2>5 DEF Right
<1> QED BY <1>1, <1>2, <1>3, <1>4, OneFinds

\* The lazy files of a scope, as they are told.
EntriesOf(found) ==
  { [path |-> p, handle |-> found[p].handle, stamp |-> found[p].stamp] :
      p \in {p \in DOMAIN found : Lazy(p)} }

\* A load has told of a scope.
LEMMA OneAdvances ==
  ASSUME CurrentInv, HandlesInv, NEW n \in Orders, NEW load, Becomes(n, load),
         accepted' = accepted, UNCHANGED world, scopes' = scopes, handles' = handles,
         requests' = requests,
         loads[n].at = "entries", load.at \in {"scope", "commit"},
         load.target = loads[n].target, load.told = loads[n].told,
         load.found = loads[n].found, load.pending = loads[n].pending,
         load.todo = loads[n].todo \ {FirstOf(loads[n].todo)},
         load.cancelled = loads[n].cancelled,
         load.complete = loads[n].complete,
         load.committed = loads[n].committed,
         Stream(load, edits),
         Told(load) = Told(loads[n])
                        \cup EntriesOf(loads[n].pending[FirstOf(loads[n].todo)].found)
  PROVE  HandlesInv'
<1> DEFINE s == FirstOf(loads[n].todo)
           found == loads[n].pending[s].found
<1>1. /\ s \in loads[n].todo /\ loads[n].at \in Working /\ load.at \in Working
      /\ s \in DOMAIN loads[n].pending /\ Held(s, loads[n].pending[s], disk, edits)
      /\ ~ load.committed /\ ~ loads[n].committed
  <2>1. LoadInv(loads[n], disk, edits) /\ Stream(loads[n], edits)
    BY DEF CurrentInv, HandlesInv
  <2>2. loads[n].at \in Working /\ load.at \in Working /\ s \in loads[n].todo
    BY <2>1, NextScope DEF Working
  <2>3. Walked(loads[n], disk, edits)
    BY <2>1, <2>2 DEF LoadInv
  <2>4. ~ loads[n].committed
    BY <2>1 DEF Stream
  <2> QED BY <2>2, <2>3, <2>4 DEF Walked
<1>2. /\ \A entry \in EntriesOf(found) : ScopeOf[entry.path] = s /\ Right(entry, found)
      /\ \A p \in DOMAIN found : Lazy(p) => \E entry \in EntriesOf(found) : entry.path = p
  <2> DEFINE Entry(p) == [path |-> p, handle |-> found[p].handle, stamp |-> found[p].stamp]
  <2>1. \A p \in DOMAIN found : Lazy(p) => Entry(p) \in EntriesOf(found)
    BY DEF EntriesOf
  <2>2. \A p : /\ Entry(p).path = p
               /\ Entry(p).handle = found[p].handle /\ Entry(p).stamp = found[p].stamp
    OBVIOUS
  <2>3. \A entry \in EntriesOf(found) : \E p \in DOMAIN found : entry = Entry(p)
    BY DEF EntriesOf
  <2> HIDE DEF Entry
  <2>4. \A p \in DOMAIN found : ScopeOf[p] = s
    BY <1>1 DEF Held
  <2>5. \A entry \in EntriesOf(found) : ScopeOf[entry.path] = s /\ Right(entry, found)
    <3> SUFFICES ASSUME NEW entry \in EntriesOf(found)
                 PROVE  ScopeOf[entry.path] = s /\ Right(entry, found)
      OBVIOUS
    <3>1. PICK p \in DOMAIN found : entry = Entry(p)
      BY <2>3
    <3>2. /\ entry.path = p /\ entry.handle = found[p].handle /\ entry.stamp = found[p].stamp
      BY <2>2, <3>1
    <3> HIDE DEF s, found
    <3>3. ScopeOf[entry.path] = s
      BY <2>4, <3>1, <3>2
    <3>4. Right(entry, found)
      BY <3>1, <3>2 DEF Right
    <3> QED BY <3>3, <3>4
  <2>6. \A p \in DOMAIN found : Lazy(p) => \E entry \in EntriesOf(found) : entry.path = p
    BY <2>1, <2>2
  <2> QED BY <2>5, <2>6
<1>3. /\ SentScopes(load) = SentScopes(loads[n]) \cup {s}
      /\ s \notin SentScopes(loads[n])
  BY <1>1 DEF SentScopes
<1> HIDE DEF s
<1>4. ASSUME Faithful(loads[n], scopes)
      PROVE  Faithful(load, scopes)
  <2>1. /\ \A entry \in Told(loads[n]) :
             /\ ScopeOf[entry.path] \in SentScopes(loads[n])
             /\ Right(entry, loads[n].pending[ScopeOf[entry.path]].found)
        /\ \A q \in SentScopes(loads[n]) : \A p \in DOMAIN loads[n].pending[q].found :
             Lazy(p) => \E entry \in Told(loads[n]) : entry.path = p
    BY <1>1, <1>4 DEF Faithful
  <2>2. ASSUME NEW entry \in Told(load)
        PROVE  /\ ScopeOf[entry.path] \in SentScopes(load)
               /\ Right(entry, load.pending[ScopeOf[entry.path]].found)
    <3>1. CASE entry \in Told(loads[n])
      BY <1>3, <2>1, <3>1
    <3>2. CASE entry \in EntriesOf(found)
      BY <1>2, <1>3, <3>2
    <3> QED BY <2>2, <3>1, <3>2 DEF s
  <2>3. ASSUME NEW q \in SentScopes(load), NEW p \in DOMAIN load.pending[q].found, Lazy(p)
        PROVE  p \in {entry.path : entry \in Told(load)}
    <3>1. CASE q \in SentScopes(loads[n])
      BY <2>1, <2>3, <3>1
    <3>2. CASE q = s
      <4>1. PICK entry \in EntriesOf(found) : entry.path = p
        BY <1>2, <2>3, <3>2
      <4> QED BY <4>1 DEF s
    <3> QED BY <1>3, <2>3, <3>1, <3>2
  <2> QED BY <1>1, <2>2, <2>3 DEF Faithful
<1>5. \A entry : Agrees(loads[n], entry) => Agrees(load, entry)
  BY <1>1 DEF Agrees
<1> QED BY <1>4, <1>5, OneHandler

\* What is sent of a scope is what the load made of it.
LEMMA HandlesWhenSent ==
  ASSUME CurrentInv, HandlesInv, NEW n \in Orders, SendsEntries(n)
  PROVE  HandlesInv'
<1> DEFINE s == FirstOf(loads[n].todo)
           found == loads[n].pending[s].found
           next == [loads[n] EXCEPT !.todo = @ \ {s},
                                    !.at = IF loads[n].todo = {s} THEN "commit" ELSE "scope"]
           event == [what |-> "entries", entries |-> EntriesOf(found)]
           load == [next EXCEPT !.channel = Append(@, event)]
<1>0. /\ DOMAIN loads[n] = Fields /\ Stream(loads[n], edits) /\ loads[n].at = "entries"
      /\ LoadInv(loads[n], disk, edits)
  BY DEF CurrentInv, HandlesInv, LoadInv, SendsEntries
<1>1. /\ accepted' = accepted /\ UNCHANGED world /\ scopes' = scopes
      /\ requests' = requests /\ handles' = handles
  BY DEF SendsEntries, Sends, session
<1>2. /\ next.target = loads[n].target /\ next.told = loads[n].told
      /\ next.found = loads[n].found /\ next.pending = loads[n].pending
      /\ next.todo = loads[n].todo \ {s} /\ next.at \in {"scope", "commit"}
      /\ next.stream = loads[n].stream /\ next.channel = loads[n].channel
      /\ next.taken = loads[n].taken /\ DOMAIN next = Fields
  BY <1>0 DEF Fields
<1>3. next.cancelled = loads[n].cancelled
  BY <1>0 DEF Fields
<1>4. next.complete = loads[n].complete
  BY <1>0 DEF Fields
<1>5. next.committed = loads[n].committed
  BY <1>0 DEF Fields
<1>6. /\ loads[n].at \in Working /\ Walked(loads[n], disk, edits)
      /\ ~ loads[n].committed /\ ~ loads[n].complete
      /\ \A e \in Coming(loads[n]) : e.what # "complete"
  BY <1>0 DEF Stream, LoadInv, Working
<1>7. \/ DOMAIN found = {} /\ Becomes(n, next)
      \/ (loads[n].cancelled \/ loads[n].stream = "dropped") /\ Becomes(n, Finished(loads[n]))
      \/ ~ (loads[n].cancelled \/ loads[n].stream = "dropped")
           /\ Becomes(n, [loads[n] EXCEPT !.parking = TRUE])
      \/ Becomes(n, load)
  BY DEF SendsEntries, Sends, EntriesOf
<1> HIDE DEF next
<1>8. CASE DOMAIN found = {} /\ Becomes(n, next)
  <2>1. Coming(next) = Coming(loads[n]) /\ Told(next) = Told(loads[n])
    BY <1>2, SameTold
  <2>2. Stream(next, edits)
    BY <1>0, <1>2, <1>3, <1>4, <1>5, <1>6, <2>1 DEF Stream
  <2>3. EntriesOf(found) = {}
    BY <1>8 DEF EntriesOf
  <2> QED BY <1>0, <1>1, <1>2, <1>3, <1>4, <1>5, <1>8, <2>1, <2>2, <2>3, OneAdvances
<1>9. CASE (loads[n].cancelled \/ loads[n].stream = "dropped") /\ Becomes(n, Finished(loads[n]))
  <2> DEFINE over == Finished(loads[n])
  <2>1. /\ over.target = loads[n].target /\ over.channel = loads[n].channel
        /\ over.taken = loads[n].taken /\ over.told = loads[n].told
        /\ over.stream = loads[n].stream /\ over.at = "done"
    BY <1>0 DEF Finished, Emptied, Fields
  <2>2. over.cancelled = loads[n].cancelled
    BY <1>0 DEF Finished, Emptied, Fields
  <2>3. over.complete = loads[n].complete
    BY <1>0 DEF Finished, Emptied, Fields
  <2>4. over.committed = loads[n].committed
    BY <1>0 DEF Finished, Emptied, Fields
  <2>5. ~ Current(n)
    BY <1>0, <1>9 DEF Stream, Current
  <2>6. Becomes(n, over)
    BY <1>9
  <2> HIDE DEF over
  <2> QED BY <1>0, <1>1, <2>1, <2>2, <2>3, <2>4, <2>5, <2>6, OneStops
<1>10. CASE ~ (loads[n].cancelled \/ loads[n].stream = "dropped")
              /\ Becomes(n, [loads[n] EXCEPT !.parking = TRUE])
  <2> DEFINE full == [loads[n] EXCEPT !.parking = TRUE]
  <2>1. \A f \in Telling : full[f] = loads[n][f]
    BY <1>0 DEF Telling, Fields
  <2>2. full.at = loads[n].at /\ full.stream = loads[n].stream
    BY <1>0 DEF Fields
  <2>3. full.cancelled = loads[n].cancelled
    BY <1>0 DEF Fields
  <2>4. Becomes(n, full)
    BY <1>10
  <2> HIDE DEF full
  <2>5. full.stream # "dropped"
    BY <1>10, <2>2
  <2> QED BY <1>1, <2>1, <2>2, <2>3, <2>4, <2>5, OneWaits
<1>11. CASE Becomes(n, load)
  <2>1. /\ load.target = loads[n].target /\ load.told = loads[n].told
        /\ load.found = loads[n].found /\ load.pending = loads[n].pending
        /\ load.todo = loads[n].todo \ {s} /\ load.at \in {"scope", "commit"}
        /\ load.stream = loads[n].stream /\ load.channel = Append(loads[n].channel, event)
        /\ load.taken = loads[n].taken
    BY <1>2 DEF Fields
  <2>2. load.cancelled = loads[n].cancelled
    BY <1>2, <1>3 DEF Fields
  <2>3. load.complete = loads[n].complete
    BY <1>2, <1>4 DEF Fields
  <2>4. load.committed = loads[n].committed
    BY <1>2, <1>5 DEF Fields
  <2>5. event.what = "entries" /\ event.entries = EntriesOf(found)
    OBVIOUS
  <2> HIDE DEF load, event
  <2>6. /\ IsSeq(load.channel) /\ Len(loads[n].channel) \in Nat
        /\ DOMAIN loads[n].channel = 1..Len(loads[n].channel)
        /\ DOMAIN load.channel = 1..(Len(loads[n].channel) + 1)
        /\ \A i \in 1..Len(loads[n].channel) : load.channel[i] = loads[n].channel[i]
        /\ load.channel[Len(loads[n].channel) + 1] = event
    BY <1>0, <2>1, Appended DEF Stream
  <2>7. Coming(load) = Coming(loads[n]) \cup {event}
    <3>1. {load.channel[i] : i \in DOMAIN load.channel}
            = {loads[n].channel[i] : i \in DOMAIN loads[n].channel} \cup {event}
      BY <1>0, <2>1, Appended DEF Stream
    <3> QED BY <2>1, <3>1 DEF Coming
  <2>8. Told(load) = Told(loads[n]) \cup EntriesOf(found)
    BY <2>1, <2>5, <2>7 DEF Told
  <2>9. ASSUME NEW entry \in EntriesOf(found)
        PROVE  entry.path \in Covers[load.target] /\ Lazy(entry.path) /\ entry.stamp \in 0..edits
    <3>1. s \in DOMAIN loads[n].pending
      BY <1>0, <1>6 DEF Walked
    <3>2. /\ Held(s, loads[n].pending[s], disk, edits)
          /\ DOMAIN found \subseteq DOMAIN loads[n].found
      BY <1>6, <3>1 DEF Walked
    <3>3. entry.path \in DOMAIN found /\ Lazy(entry.path) /\ entry.stamp = found[entry.path].stamp
      BY <2>9 DEF EntriesOf
    <3> QED BY <1>6, <2>1, <3>2, <3>3 DEF Held, Walked
  <2>10. Stream(load, edits)
    <3>1. \A entry \in Told(load) :
            entry.path \in Covers[load.target] /\ Lazy(entry.path) /\ entry.stamp \in 0..edits
      BY <1>0, <2>1, <2>8, <2>9 DEF Stream
    <3>2. \A e \in Coming(load) : e.what # "complete"
      BY <1>6, <2>5, <2>7
    <3>3. /\ \A i \in DOMAIN load.channel : load.channel[i].what # "complete"
          /\ \A i \in DOMAIN load.taken : load.taken[i].what # "complete"
      BY <3>2 DEF Coming
    <3>4. /\ load.stream = "dropped" => load.cancelled
          /\ load.taken = <<>> \/ \E e : load.taken = <<e>>
      BY <1>0, <2>1, <2>2 DEF Stream
    <3>5. ~ load.committed /\ ~ load.complete
      BY <1>6, <2>3, <2>4
    <3> QED BY <2>6, <3>1, <3>2, <3>3, <3>4, <3>5 DEF Stream
  <2> QED BY <1>0, <1>1, <1>11, <2>1, <2>2, <2>3, <2>4, <2>8, <2>10, OneAdvances
<1> QED BY <1>7, <1>8, <1>9, <1>10, <1>11

\* A walk gives a file that is as it was the handle it has.
LEMMA HandlesWhenWalked ==
  ASSUME CurrentInv, HandlesInv, NEW n \in Orders, Walks(n)
  PROVE  HandlesInv'
<1> DEFINE paths == {p \in Covers[loads[n].target] : disk[p] # None}
           fresh == {p \in paths : Lazy(p) /\ HandleLost(p)}
           Handle(p) == IF ~ Lazy(p) THEN 0
                        ELSE IF p \in fresh THEN issued + 1
                        ELSE scopes[ScopeOf[p]].found[p].handle
           todo == {ScopeOf[p] : p \in paths}
           found == [p \in paths |-> [stamp |-> disk[p].stamp, handle |-> Handle(p)]]
           load == [loads[n] EXCEPT !.at = IF todo = {} THEN "commit" ELSE "scope",
                                    !.found = found, !.todo = todo]
<1>0. /\ DOMAIN loads[n] = Fields /\ Stream(loads[n], edits) /\ loads[n].at = "walk"
      /\ LoadInv(loads[n], disk, edits)
  BY DEF CurrentInv, HandlesInv, LoadInv, Walks
<1>1. /\ Becomes(n, load) /\ accepted' = accepted /\ UNCHANGED world /\ scopes' = scopes
      /\ requests' = requests /\ handles' = handles
  BY DEF Walks
<1>2. /\ load.target = loads[n].target /\ load.told = loads[n].told
      /\ load.channel = loads[n].channel /\ load.taken = loads[n].taken
      /\ load.stream = loads[n].stream /\ load.at \in {"scope", "commit"}
      /\ load.pending = loads[n].pending /\ load.found = found
  BY <1>0 DEF Fields
<1>3. load.cancelled = loads[n].cancelled
  BY <1>0 DEF Fields
<1>4. load.complete = loads[n].complete
  BY <1>0 DEF Fields
<1>5. load.committed = loads[n].committed
  BY <1>0 DEF Fields
<1>6. Coming(load) = Coming(loads[n]) /\ Told(load) = Told(loads[n])
  BY <1>2, SameTold
<1>7. /\ load.at \in Working /\ loads[n].at \notin Working /\ load.pending = <<>>
      /\ ~ loads[n].committed
  BY <1>0, <1>2 DEF Working, LoadInv, Stream
<1>8. Stream(load, edits)
  BY <1>0, <1>2, <1>3, <1>4, <1>5, <1>6, ZenonT(40) DEF Stream
<1>9. Faithful(loads[n], scopes) => Faithful(load, scopes)
  <2>1. Faithful(loads[n], scopes) => Told(load) = {}
    BY <1>6, <1>7 DEF Faithful
  <2>2. SentScopes(load) = {}
    BY <1>7 DEF SentScopes
  <2> QED BY <1>5, <1>7, <2>1, <2>2 DEF Faithful
<1>10. ASSUME NEW entry, Unedited(entry), Lazy(entry.path), Shown(entry)
       PROVE  Agrees(load, entry)
  <2> SUFFICES ASSUME entry.path \in Covers[load.target]
               PROVE  Right(entry, load.found)
    BY <1>7 DEF Agrees
  <2>1. entry.path \in paths
    BY <1>2, <1>10 DEF Unedited
  <2>2. /\ ScopeOf[entry.path] \in DOMAIN scopes
        /\ entry.path \in DOMAIN scopes[ScopeOf[entry.path]].found
        /\ scopes[ScopeOf[entry.path]].found[entry.path].handle = entry.handle
        /\ scopes[ScopeOf[entry.path]].found[entry.path].stamp = entry.stamp
    BY <1>10 DEF Shown, Right
  <2>3. entry.path \notin fresh
    BY <1>10, <2>2 DEF HandleLost, Unedited
  <2>4. Handle(entry.path) = entry.handle
    BY <1>10, <2>2, <2>3
  <2>5. found[entry.path] = [stamp |-> disk[entry.path].stamp, handle |-> entry.handle]
    BY <2>1, <2>4
  <2>6. /\ entry.path \in DOMAIN found
        /\ found[entry.path].handle = entry.handle
        /\ found[entry.path].stamp = disk[entry.path].stamp
    BY <2>1, <2>5
  <2> HIDE DEF found
  <2> QED BY <1>2, <1>10, <2>6 DEF Right, Unedited
<1> HIDE DEF load
<1> QED BY <1>1, <1>2, <1>3, <1>4, <1>5, <1>8, <1>9, <1>10, OneHandler

\* A load tells of a file once and for all.
LEMMA ToldOnce ==
  ASSUME NEW load, NEW held, Faithful(load, held), NEW e \in Told(load), NEW f \in Told(load),
         e.path = f.path
  PROVE  e.handle = f.handle
<1>1. CASE load.committed
  BY <1>1 DEF Faithful, Right
<1>2. CASE ~ load.committed /\ load.at \in Working
  BY <1>2 DEF Faithful, Right
<1>3. CASE ~ load.committed /\ load.at \notin Working
  BY <1>3 DEF Faithful
<1> QED BY <1>1, <1>2, <1>3

\* What it tells is what is shown of a file that it found as it was.
LEMMA ToldAsShown ==
  ASSUME NEW load, Faithful(load, scopes), NEW e \in Told(load), NEW entry,
         entry.path = e.path, entry.path \in Covers[load.target], Shown(entry), Agrees(load, entry)
  PROVE  e.handle = entry.handle
<1>1. CASE load.committed
  BY <1>1 DEF Faithful, Right, Shown
<1>2. CASE ~ load.committed /\ load.at \in Working
  BY <1>2 DEF Faithful, Right, Agrees, SentScopes
<1>3. CASE ~ load.committed /\ load.at \notin Working
  BY <1>3 DEF Faithful
<1> QED BY <1>1, <1>2, <1>3

\* A load that is not under way and has told of a file shows it.
LEMMA ToldIsShown ==
  ASSUME NEW load, Faithful(load, scopes), load.at = "done", NEW entry \in Told(load)
  PROVE  load.committed /\ Shown(entry)
<1>1. load.at \notin Working
  BY DEF Working
<1> QED BY <1>1 DEF Faithful, Shown

\* What a current load covers is covered by no other current load and by none accepted after it.
LEMMA CoveredOnce ==
  ASSUME CurrentInv, NEW n \in Orders, Current(n), NEW m \in Orders, m # n,
         NEW p \in Covers[loads[n].target] \cap Covers[loads[m].target]
  PROVE  ~ Current(m) /\ m < n
<1>1. Overlap(loads[n].target, loads[m].target) /\ Overlap(loads[m].target, loads[n].target)
  BY DEF Overlap
<1>2. ~ (n < m)
  BY <1>1 DEF CurrentInv
<1>3. m < n
  BY <1>2 DEF Orders, CurrentInv
<1> QED BY <1>1, <1>3 DEF CurrentInv

\* The client of a current load registers an event: what is left to show is the handles.
LEMMA OneHears ==
  ASSUME CurrentInv, HandlesInv, NEW n \in Orders, Current(n), NEW load, Becomes(n, load),
         accepted' = accepted, UNCHANGED world, scopes' = scopes, requests' = requests,
         load.target = loads[n].target, load.at = loads[n].at,
         load.channel = loads[n].channel, load.taken = <<>>,
         load.found = loads[n].found, load.todo = loads[n].todo,
         load.pending = loads[n].pending, load.stream = loads[n].stream,
         load.cancelled = loads[n].cancelled,
         load.committed = loads[n].committed,
         loads[n].complete => load.complete,
         load.complete => load.at = "done",
         Told(load) = Told(loads[n]),
         \A k \in DOMAIN handles' : Owned(k)' /\ FromLast(k)',
         \A m \in Orders : Current(m) => Answered(m)',
         \A m \in Orders : \A entry \in loads[m].told :
           m # n /\ loads[m].complete /\ ~ FoundInactive(m)' /\ Fetchable(m, entry) =>
             Resolves(loads[m].target, entry, handles')
  PROVE  HandlesInv'
<1>1. /\ DOMAIN loads' = Orders /\ Orders' = Orders
      /\ \A m \in Orders : loads'[m] = IF m = n THEN load ELSE loads[m]
      /\ disk' = disk /\ edits' = edits
  BY DEF CurrentInv, Becomes, Orders, world
<1>2. Stream(loads[n], edits) /\ Faithful(loads[n], scopes)
  BY DEF HandlesInv
<1>3. /\ \A e \in Coming(load) : e \in Coming(loads[n])
      /\ \A i \in DOMAIN load.taken : FALSE
  BY DEF Coming
<1>4. Stream(load, edits)
  <2>1. \A e \in Coming(load) : e.what = "complete" => load.at = "done" /\ e.entries = {}
    BY <1>2, <1>3 DEF Stream
  <2>2. \A entry \in Told(load) :
          entry.path \in Covers[load.target] /\ Lazy(entry.path) /\ entry.stamp \in 0..edits
    BY <1>2 DEF Stream
  <2>3. /\ load.stream = "dropped" => load.cancelled
        /\ load.at \notin {"complete", "done"} => ~ load.committed
        /\ IsSeq(load.channel)
        /\ \A i \in DOMAIN load.channel : load.channel[i].what = "complete" => i = Len(load.channel)
    BY <1>2 DEF Stream
  <2> QED BY <1>3, <2>1, <2>2, <2>3 DEF Stream
<1>5. Faithful(load, scopes)
  BY <1>2 DEF Faithful, SentScopes
<1>6. \A m \in Orders : Current(m)' <=> Current(m)
  BY <1>1 DEF Current
<1>7. \A m \in Orders' : Stream(loads'[m], edits')
  BY <1>1, <1>4 DEF HandlesInv
<1>8. ASSUME NEW m \in Orders', Current(m)'
      PROVE  Faithful(loads'[m], scopes') /\ Answered(m)'
  BY <1>1, <1>5, <1>6, <1>8 DEF HandlesInv
<1>9. ASSUME NEW m \in Orders', loads'[m].complete, ~ FoundInactive(m)',
             NEW entry \in loads'[m].told, Unedited(entry)'
      PROVE  Fetchable(m, entry)'
  <2>1. CASE m = n
    <3>1. Answered(n)' /\ load.at = "done" /\ entry \in load.told /\ entry \in Told(load)
      BY <1>1, <1>9, <2>1 DEF Told
    <3>2. Resolves(loads'[m].target, entry, handles')
      BY <1>1, <2>1, <3>1 DEF Answered
    <3>3. Shown(entry)'
      BY <1>5, <3>1, ToldIsShown DEF Shown
    <3>4. ASSUME NEW k \in Orders', Current(k)'
          PROVE  Agrees(loads'[k], entry)
      <4>1. CASE k = n
        BY <1>1, <3>1, <4>1 DEF Agrees, Working
      <4>2. CASE k # n
        <5>1. entry.path \in Covers[loads[n].target]
          BY <1>4, <3>1 DEF Stream
        <5>2. entry.path \notin Covers[loads[k].target]
          BY <1>1, <1>6, <3>4, <4>2, <5>1, CoveredOnce
        <5> QED BY <1>1, <4>2, <5>2 DEF Agrees
      <4> QED BY <4>1, <4>2
    <3> QED BY <3>2, <3>3, <3>4 DEF Fetchable
  <2>2. CASE m # n
    <3>1. m \in Orders /\ loads[m].complete /\ entry \in loads[m].told
      BY <1>1, <1>9, <2>2
    <3>2. FoundInactive(m) => FoundInactive(m)'
      BY <1>1, <3>1 DEF FoundInactive
    <3>3. Fetchable(m, entry)
      BY <1>1, <1>9, <3>1, <3>2 DEF HandlesInv, Unedited
    <3>4. Resolves(loads'[m].target, entry, handles')
      BY <1>1, <1>9, <2>2, <3>1, <3>3
    <3>5. Shown(entry)'
      BY <3>3 DEF Fetchable, Shown
    <3>6. ASSUME NEW k \in Orders', Current(k)'
          PROVE  Agrees(loads'[k], entry)
      <4>1. k \in Orders /\ Agrees(loads[k], entry)
        BY <1>1, <1>6, <3>3, <3>6 DEF Fetchable
      <4> QED BY <1>1, <4>1 DEF Agrees
    <3> QED BY <3>4, <3>5, <3>6 DEF Fetchable
  <2> QED BY <2>1, <2>2
<1> QED BY <1>7, <1>8, <1>9 DEF HandlesInv

\* What a client takes of a load that is no longer the current one it forgets.
LEMMA HandlesWhenForgotten ==
  ASSUME CurrentInv, HandlesInv, NEW n \in Orders, Registers(n), ~ Current(n)
  PROVE  HandlesInv'
<1> DEFINE event == Head(loads[n].taken)
           load == [loads[n] EXCEPT
             !.taken = <<>>,
             !.told = IF Current(n) THEN @ \cup event.entries ELSE {},
             !.complete = @ \/ (event.what = "complete" /\ Current(n))]
<1>0. DOMAIN loads[n] = Fields /\ Stream(loads[n], edits)
  BY DEF CurrentInv, HandlesInv, LoadInv
<1>1. /\ Becomes(n, load) /\ accepted' = accepted /\ UNCHANGED world /\ scopes' = scopes
      /\ requests' = requests /\ handles' = handles
  BY DEF Registers
<1>2. /\ load.target = loads[n].target /\ load.at = loads[n].at /\ load.stream = loads[n].stream
      /\ load.channel = loads[n].channel /\ load.taken = <<>> /\ load.told = {}
  BY <1>0 DEF Fields
<1>3. load.cancelled = loads[n].cancelled
  BY <1>0 DEF Fields
<1>4. load.committed = loads[n].committed
  BY <1>0 DEF Fields
<1>5. load.complete <=> loads[n].complete
  BY <1>0 DEF Fields
<1> HIDE DEF load
<1>6. \A e \in Coming(load) : e \in Coming(loads[n])
  BY <1>2 DEF Coming
<1>7. Told(load) \subseteq Told(loads[n])
  BY <1>2, <1>6 DEF Told
<1>8. Stream(load, edits)
  <2>1. \A e \in Coming(load) : e.what = "complete" => load.at = "done" /\ e.entries = {}
    BY <1>0, <1>2, <1>6 DEF Stream
  <2>2. \A entry \in Told(load) :
          entry.path \in Covers[load.target] /\ Lazy(entry.path) /\ entry.stamp \in 0..edits
    BY <1>0, <1>2, <1>7 DEF Stream
  <2>3. /\ load.stream = "dropped" => load.cancelled
        /\ load.complete => load.at = "done"
        /\ load.at \notin {"complete", "done"} => ~ load.committed
        /\ IsSeq(load.channel)
        /\ \A i \in DOMAIN load.channel : load.channel[i].what = "complete" => i = Len(load.channel)
    BY <1>0, <1>2, <1>3, <1>4, <1>5 DEF Stream
  <2>4. \A i \in DOMAIN load.taken : FALSE
    BY <1>2
  <2> QED BY <1>2, <2>1, <2>2, <2>3, <2>4 DEF Stream
<1> QED BY <1>1, <1>2, <1>3, <1>4, <1>5, <1>8, OneHandler

\* The event that a client takes of a current load becomes part of what it was told.
LEMMA Hears ==
  ASSUME CurrentInv, HandlesInv, NEW n \in Orders, Registers(n), Current(n)
  PROVE  \E load, event :
           /\ loads[n].taken = <<event>> /\ event \in Coming(loads[n])
           /\ Becomes(n, load) /\ handles' = Registered(n, event)
           /\ load.target = loads[n].target /\ load.at = loads[n].at
           /\ load.channel = loads[n].channel /\ load.taken = <<>>
           /\ load.found = loads[n].found /\ load.todo = loads[n].todo
           /\ load.pending = loads[n].pending /\ load.stream = loads[n].stream
           /\ load.told = loads[n].told \cup event.entries
           /\ load.cancelled = loads[n].cancelled
           /\ load.committed = loads[n].committed
           /\ load.complete <=> loads[n].complete \/ event.what = "complete"
           /\ Told(load) = Told(loads[n])
<1> DEFINE head == Head(loads[n].taken)
           load == [loads[n] EXCEPT
             !.taken = <<>>,
             !.told = IF Current(n) THEN @ \cup head.entries ELSE {},
             !.complete = @ \/ (head.what = "complete" /\ Current(n))]
<1>0. DOMAIN loads[n] = Fields /\ Stream(loads[n], edits) /\ loads[n].taken # <<>>
  BY DEF CurrentInv, HandlesInv, LoadInv, Registers
<1>1. PICK event : loads[n].taken = <<event>>
  BY <1>0 DEF Stream
<1>2. head = event
  BY <1>1
<1>3. Becomes(n, load) /\ handles' = Registered(n, event)
  BY <1>2 DEF Registers
<1>4. /\ load.target = loads[n].target /\ load.at = loads[n].at
      /\ load.channel = loads[n].channel /\ load.taken = <<>>
      /\ load.found = loads[n].found /\ load.todo = loads[n].todo
      /\ load.pending = loads[n].pending /\ load.stream = loads[n].stream
      /\ load.told = loads[n].told \cup event.entries
  BY <1>0, <1>2 DEF Fields
<1>5. load.cancelled = loads[n].cancelled
  BY <1>0 DEF Fields
<1>6. load.committed = loads[n].committed
  BY <1>0 DEF Fields
<1>7. load.complete <=> loads[n].complete \/ event.what = "complete"
  BY <1>0, <1>2 DEF Fields
<1> HIDE DEF load
<1>8. Coming(loads[n]) = Coming(load) \cup {event} /\ event \in Coming(loads[n])
  <2>1. {loads[n].taken[i] : i \in DOMAIN loads[n].taken} = {event}
    BY <1>1
  <2>2. {load.taken[i] : i \in DOMAIN load.taken} = {}
    BY <1>4
  <2> QED BY <1>4, <2>1, <2>2 DEF Coming
<1>9. Told(load) = Told(loads[n])
  BY <1>4, <1>8 DEF Told
<1> QED BY <1>1, <1>3, <1>4, <1>5, <1>6, <1>7, <1>8, <1>9

\* A complete load takes away what it did not tell again, and tells again what is as it was.
LEMMA HandlesWhenComplete ==
  ASSUME CurrentInv, HandlesInv, NEW n \in Orders, Registers(n), Current(n),
         Head(loads[n].taken).what = "complete"
  PROVE  HandlesInv'
<1> DEFINE t == loads[n].target
<1>0. /\ Stream(loads[n], edits) /\ Faithful(loads[n], scopes) /\ Answered(n)
      /\ accepted' = accepted /\ UNCHANGED world /\ scopes' = scopes /\ requests' = requests
  BY DEF HandlesInv, Registers
<1>1. PICK load, event :
           /\ loads[n].taken = <<event>> /\ event \in Coming(loads[n])
           /\ Becomes(n, load) /\ handles' = Registered(n, event)
           /\ load.target = loads[n].target /\ load.at = loads[n].at
           /\ load.channel = loads[n].channel /\ load.taken = <<>>
           /\ load.found = loads[n].found /\ load.todo = loads[n].todo
           /\ load.pending = loads[n].pending /\ load.stream = loads[n].stream
           /\ load.told = loads[n].told \cup event.entries
           /\ load.cancelled = loads[n].cancelled
           /\ load.committed = loads[n].committed
           /\ load.complete <=> loads[n].complete \/ event.what = "complete"
           /\ Told(load) = Told(loads[n])
  BY Hears
<1>2. event.what = "complete"
  BY <1>1
<1>3. /\ loads[n].at = "done" /\ event.entries = {} /\ load.told = loads[n].told
      /\ load.complete
  BY <1>0, <1>1, <1>2 DEF Stream
<1>4. loads[n].channel = <<>>
  <2>1. 1 \in DOMAIN loads[n].taken /\ loads[n].taken[1] = event
    BY <1>1
  <2> QED BY <1>0, <1>2, <2>1 DEF Stream
<1>5. Told(loads[n]) = loads[n].told
  <2>1. Coming(load) = {}
    BY <1>1, <1>4 DEF Coming
  <2> QED BY <1>1, <1>3, <2>1 DEF Told
<1>6. /\ handles' = Restrict(handles, { k \in DOMAIN handles : k[1] = t => handles[k].order >= n })
  BY <1>1, <1>2 DEF Registered
<1>7. /\ DOMAIN handles' = { k \in DOMAIN handles : k[1] = t => handles[k].order >= n }
      /\ \A k \in DOMAIN handles' : handles'[k] = handles[k]
  BY <1>6 DEF Restrict
<1>8. /\ Orders' = Orders
      /\ \A m \in Orders : loads'[m] = IF m = n THEN load ELSE loads[m]
  BY <1>0, <1>1 DEF CurrentInv, Becomes, Orders
<1>9. ASSUME NEW k \in DOMAIN handles'
      PROVE  Owned(k)' /\ FromLast(k)'
  <2>1. k \in DOMAIN handles /\ handles'[k] = handles[k] /\ Owned(k) /\ FromLast(k)
    BY <1>7 DEF HandlesInv
  <2>2. Owned(k)'
    BY <1>1, <1>8, <2>1 DEF Owned
  <2>3. \A m \in Orders : loads'[m].target = loads[m].target
    BY <1>1, <1>8
  <2>4. \A m \in Orders : loads'[m].committed <=> loads[m].committed
    BY <1>1, <1>8
  <2>5. FromLast(k)'
    BY <1>0, <1>8, <2>1, <2>3, <2>4 DEF FromLast
  <2> QED BY <2>2, <2>5
<1>10. ASSUME NEW m \in Orders, NEW entry \in loads[m].told
       PROVE  entry.path \in Covers[loads[m].target]
  BY DEF HandlesInv, Stream, Told
<1>11. \A entry \in loads[n].told :
         /\ Resolves(t, entry, handles')
         /\ handles'[<<t, entry.path>>].order = n
  <2> SUFFICES ASSUME NEW entry \in loads[n].told
               PROVE  /\ Resolves(t, entry, handles')
                      /\ handles'[<<t, entry.path>>].order = n
    OBVIOUS
  <2>1. Resolves(t, entry, handles) /\ handles[<<t, entry.path>>].order = n
    BY <1>0 DEF Answered
  <2>2. <<t, entry.path>> \in DOMAIN handles'
    BY <1>7, <2>1 DEF Resolves, Orders
  <2> QED BY <1>7, <2>1, <2>2 DEF Resolves
<1>12. ASSUME NEW m \in Orders, Current(m)
       PROVE  Answered(m)'
  <2>1. CASE m = n
    BY <1>1, <1>3, <1>8, <1>11, <2>1 DEF Answered
  <2>2. CASE m # n
    <3>1. loads'[m] = loads[m] /\ Answered(m)
      BY <1>8, <1>12, <2>2 DEF HandlesInv
    <3>2. ASSUME NEW entry \in loads[m].told
          PROVE  /\ Resolves(loads[m].target, entry, handles')
                 /\ handles'[<<loads[m].target, entry.path>>].order = m
      <4>1. loads[m].target # t
        BY <1>10, <1>12, <2>2, <3>2, CoveredOnce
      <4>2. /\ Resolves(loads[m].target, entry, handles)
            /\ handles[<<loads[m].target, entry.path>>].order = m
        BY <3>1, <3>2 DEF Answered
      <4>3. <<loads[m].target, entry.path>> \in DOMAIN handles'
        BY <1>7, <4>1, <4>2 DEF Resolves
      <4> QED BY <1>7, <4>2, <4>3 DEF Resolves
    <3> QED BY <3>1, <3>2 DEF Answered
  <2> QED BY <2>1, <2>2
<1>13. ASSUME NEW m \in Orders, NEW entry \in loads[m].told, m # n, loads[m].complete,
              ~ FoundInactive(m)', Fetchable(m, entry)
       PROVE  Resolves(loads[m].target, entry, handles')
  <2>1. Resolves(loads[m].target, entry, handles) /\ Shown(entry)
    BY <1>13 DEF Fetchable
  <2>2. CASE loads[m].target # t
    <3>1. <<loads[m].target, entry.path>> \in DOMAIN handles'
      BY <1>7, <2>1, <2>2 DEF Resolves
    <3> QED BY <1>7, <2>1, <3>1 DEF Resolves
  <2>3. CASE loads[m].target = t
    <3>1. m < n
      BY <1>10, <1>13, <2>3, CoveredOnce
    <3>2. loads[n].committed
      <4>1. loads'[n].complete /\ loads'[n].target = loads'[m].target
        BY <1>1, <1>3, <1>8, <1>13, <2>3
      <4>2. loads'[n].committed
        BY <1>8, <1>13, <3>1, <4>1 DEF FoundInactive
      <4> QED BY <1>1, <1>8, <4>2
    <3>3. entry.path \in Covers[t] /\ Lazy(entry.path)
      BY <2>3 DEF HandlesInv, Stream, Told
    <3>4. PICK e \in loads[n].told : e.path = entry.path
      BY <1>0, <1>5, <2>1, <3>2, <3>3 DEF Faithful, Shown, Right
    <3>5. <<t, entry.path>> \in DOMAIN handles'
      BY <1>11, <3>4 DEF Resolves
    <3> QED BY <1>7, <2>1, <2>3, <3>5 DEF Resolves
  <2> QED BY <2>2, <2>3
<1>14. load.complete => load.at = "done"
  BY <1>1, <1>3
<1>15. loads[n].complete => load.complete
  BY <1>3
<1> QED BY <1>0, <1>1, <1>9, <1>12, <1>13, <1>14, <1>15, OneHears

\* A load that is current gives the handles of what it tells, and no later one has.
LEMMA HandlesWhenTold ==
  ASSUME CurrentInv, HandlesInv, NEW n \in Orders, Registers(n), Current(n),
         Head(loads[n].taken).what # "complete"
  PROVE  HandlesInv'
<1> DEFINE t == loads[n].target
<1>0. /\ Stream(loads[n], edits) /\ Faithful(loads[n], scopes) /\ Answered(n)
      /\ accepted' = accepted /\ UNCHANGED world /\ scopes' = scopes /\ requests' = requests
      /\ t \in Target /\ Orders \subseteq Nat
  BY DEF HandlesInv, Registers, CurrentInv, LoadInv, Orders
<1>1. PICK load, event :
           /\ loads[n].taken = <<event>> /\ event \in Coming(loads[n])
           /\ Becomes(n, load) /\ handles' = Registered(n, event)
           /\ load.target = loads[n].target /\ load.at = loads[n].at
           /\ load.channel = loads[n].channel /\ load.taken = <<>>
           /\ load.found = loads[n].found /\ load.todo = loads[n].todo
           /\ load.pending = loads[n].pending /\ load.stream = loads[n].stream
           /\ load.told = loads[n].told \cup event.entries
           /\ load.cancelled = loads[n].cancelled
           /\ load.committed = loads[n].committed
           /\ load.complete <=> loads[n].complete \/ event.what = "complete"
           /\ Told(load) = Told(loads[n])
  BY Hears
<1>2. event.what # "complete"
  BY <1>1
<1>3. \A e \in event.entries : e \in Told(loads[n]) /\ e.path \in Covers[t]
  <2>1. \A e \in event.entries : e \in Told(loads[n])
    BY <1>1 DEF Told
  <2> QED BY <1>0, <2>1 DEF Stream
<1>4. /\ Orders' = Orders
      /\ \A m \in Orders : loads'[m] = IF m = n THEN load ELSE loads[m]
  BY <1>0, <1>1 DEF CurrentInv, Becomes, Orders
<1>5. /\ \A m \in Orders : loads'[m].target = loads[m].target
      /\ \A m \in Orders : loads'[m].committed <=> loads[m].committed
  BY <1>1, <1>4
<1> DEFINE newer == { k \in DOMAIN handles : handles[k].order > n }
           keys == { <<t, e.path>> : e \in event.entries } \ newer
           given == [k \in keys |->
                       [order |-> n,
                        handle |-> (CHOOSE e \in event.entries : e.path = k[2]).handle]]
<1>6. \A e \in event.entries : <<t, e.path>> \in keys
  <2> SUFFICES ASSUME NEW e \in event.entries, <<t, e.path>> \in newer PROVE FALSE
    OBVIOUS
  <2>1. Owned(<<t, e.path>>) /\ handles[<<t, e.path>>].order > n
    BY DEF HandlesInv
  <2> DEFINE m == handles[<<t, e.path>>].order
  <2>2. m \in Orders /\ loads[m].target = t /\ m > n
    BY <2>1 DEF Owned
  <2> HIDE DEF m
  <2>3. m # n /\ ~ (m < n)
    BY <1>0, <2>2
  <2> QED BY <1>3, <2>2, <2>3, CoveredOnce
<1>7. ASSUME NEW k \in keys
      PROVE  \E e \in event.entries : k = <<t, e.path>> /\ given[k].order = n
                                        /\ given[k].handle = e.handle
  <2>1. PICK f \in event.entries : k = <<t, f.path>>
    OBVIOUS
  <2> DEFINE e == CHOOSE e \in event.entries : e.path = k[2]
  <2>2. k[2] = f.path
    BY <2>1
  <2>3. e \in event.entries /\ e.path = k[2]
    BY <2>2
  <2>4. given[k] = [order |-> n, handle |-> e.handle]
    OBVIOUS
  <2> HIDE DEF e, given
  <2>5. k = <<t, e.path>>
    BY <2>1, <2>2, <2>3
  <2> QED BY <2>3, <2>4, <2>5
<1>8. /\ DOMAIN handles' = keys \cup DOMAIN handles
      /\ \A k \in DOMAIN handles' : handles'[k] = IF k \in keys THEN given[k] ELSE handles[k]
  <2>1. handles' = Over(given, handles)
    BY <1>1, <1>2 DEF Registered
  <2>2. DOMAIN given = keys
    OBVIOUS
  <2> HIDE DEF given, keys
  <2> QED BY <2>1, <2>2 DEF Over
<1> HIDE DEF given, keys, newer
<1>9. ASSUME NEW k \in DOMAIN handles'
      PROVE  Owned(k)' /\ FromLast(k)'
  <2>1. CASE k \notin keys
    <3>1. k \in DOMAIN handles /\ handles'[k] = handles[k] /\ Owned(k) /\ FromLast(k)
      BY <1>8, <2>1 DEF HandlesInv
    <3>2. Owned(k)'
      BY <1>4, <1>5, <3>1 DEF Owned
    <3>3. FromLast(k)'
      BY <1>0, <1>4, <1>5, <3>1 DEF FromLast
    <3> QED BY <3>2, <3>3
  <2>2. CASE k \in keys
    <3>1. PICK e \in event.entries : k = <<t, e.path>> /\ given[k].order = n
                                       /\ given[k].handle = e.handle
      BY <1>7, <2>2
    <3>2. handles'[k].order = n /\ handles'[k].handle = e.handle
      BY <1>8, <2>2, <3>1
    <3>3. k[1] = t /\ k[2] = e.path /\ e \in Told(loads[n]) /\ e.path \in Covers[t]
      BY <1>3, <3>1
    <3>4. Owned(k)'
      BY <1>0, <1>4, <1>5, <3>2, <3>3 DEF Owned
    <3>5. FromLast(k)'
      <4>1. CASE loads[n].committed
        <5>1. ScopeOf[e.path] \in DOMAIN scopes /\ Right(e, scopes[ScopeOf[e.path]].found)
          BY <1>0, <3>3, <4>1 DEF Faithful
        <5> QED BY <1>0, <3>2, <3>3, <5>1 DEF FromLast, Right
      <4>2. CASE ~ loads[n].committed
        <5>1. \A m \in Orders : loads[m].committed /\ k[2] \in Covers[loads[m].target] => m < n
          BY <3>3, <4>2, CoveredOnce
        <5> QED BY <1>4, <1>5, <3>2, <5>1 DEF FromLast
      <4> QED BY <4>1, <4>2
    <3> QED BY <3>4, <3>5
  <2> QED BY <2>1, <2>2
<1>10. ASSUME NEW m \in Orders, NEW entry \in loads[m].told
       PROVE  entry.path \in Covers[loads[m].target]
  BY DEF HandlesInv, Stream, Told
<1>11. ASSUME NEW entry \in load.told
       PROVE  /\ Resolves(t, entry, handles')
              /\ handles'[<<t, entry.path>>].order = n
  <2>1. entry \in Told(loads[n])
    BY <1>1, <1>11 DEF Told
  <2>2. CASE <<t, entry.path>> \in keys
    <3>1. PICK e \in event.entries : <<t, entry.path>> = <<t, e.path>>
                                       /\ given[<<t, entry.path>>].order = n
                                       /\ given[<<t, entry.path>>].handle = e.handle
      BY <1>7, <2>2
    <3>2. e.handle = entry.handle
      BY <1>0, <1>3, <2>1, <3>1, ToldOnce
    <3> QED BY <1>8, <2>2, <3>1, <3>2 DEF Resolves
  <2>3. CASE <<t, entry.path>> \notin keys
    <3>1. entry \in loads[n].told
      BY <1>1, <1>6, <1>11, <2>3
    <3>2. Resolves(t, entry, handles) /\ handles[<<t, entry.path>>].order = n
      BY <1>0, <3>1 DEF Answered
    <3> QED BY <1>8, <2>3, <3>2 DEF Resolves
  <2> QED BY <2>2, <2>3
<1>12. ASSUME NEW m \in Orders, Current(m)
       PROVE  Answered(m)'
  <2>1. CASE m = n
    BY <1>1, <1>4, <1>11, <2>1 DEF Answered
  <2>2. CASE m # n
    <3>1. loads'[m] = loads[m] /\ Answered(m)
      BY <1>4, <1>12, <2>2 DEF HandlesInv
    <3>2. ASSUME NEW entry \in loads[m].told
          PROVE  /\ Resolves(loads[m].target, entry, handles')
                 /\ handles'[<<loads[m].target, entry.path>>].order = m
      <4>1. <<loads[m].target, entry.path>> \notin keys
        <5> SUFFICES ASSUME <<loads[m].target, entry.path>> \in keys PROVE FALSE
          OBVIOUS
        <5>1. PICK e \in event.entries : <<loads[m].target, entry.path>> = <<t, e.path>>
          BY <1>7
        <5>2. entry.path \in Covers[t]
          BY <1>3, <5>1
        <5> QED BY <1>10, <1>12, <2>2, <3>2, <5>2, CoveredOnce
      <4>2. /\ Resolves(loads[m].target, entry, handles)
            /\ handles[<<loads[m].target, entry.path>>].order = m
        BY <3>1, <3>2 DEF Answered
      <4> QED BY <1>8, <4>1, <4>2 DEF Resolves
    <3> QED BY <3>1, <3>2 DEF Answered
  <2> QED BY <2>1, <2>2
<1>13. ASSUME NEW m \in Orders, NEW entry \in loads[m].told, m # n, loads[m].complete,
              ~ FoundInactive(m)', Fetchable(m, entry)
       PROVE  Resolves(loads[m].target, entry, handles')
  <2>1. Resolves(loads[m].target, entry, handles) /\ Shown(entry) /\ Agrees(loads[n], entry)
    BY <1>13 DEF Fetchable
  <2>2. CASE <<loads[m].target, entry.path>> \notin keys
    BY <1>8, <2>1, <2>2 DEF Resolves
  <2>3. CASE <<loads[m].target, entry.path>> \in keys
    <3>1. PICK e \in event.entries : /\ <<loads[m].target, entry.path>> = <<t, e.path>>
                                     /\ given[<<loads[m].target, entry.path>>].handle = e.handle
      BY <1>7, <2>3
    <3>2. e \in Told(loads[n]) /\ entry.path = e.path /\ entry.path \in Covers[t]
      BY <1>3, <3>1
    <3>3. e.handle = entry.handle
      BY <1>0, <2>1, <3>2, ToldAsShown
    <3> QED BY <1>8, <2>3, <3>1, <3>3 DEF Resolves
  <2> QED BY <2>2, <2>3
<1>14. load.complete => load.at = "done"
  BY <1>0, <1>1, <1>2 DEF Stream
<1>15. loads[n].complete => load.complete
  BY <1>1
<1> QED BY <1>0, <1>1, <1>9, <1>12, <1>13, <1>14, <1>15, OneHears

\* Where the load covers a file the session shows of it what the load made of it, and it shows of
\* all others what it did.
LEMMA CommitShows ==
  ASSUME CurrentInv, NEW n \in Orders, Commits(n), Current(n)
  PROVE  LET pending == loads[n].pending
         IN  /\ \A p \in Path \ Covers[loads[n].target] :
                  /\ ScopeOf[p] \in DOMAIN scopes' <=> ScopeOf[p] \in DOMAIN scopes
                  /\ ScopeOf[p] \in DOMAIN scopes => scopes'[ScopeOf[p]] = scopes[ScopeOf[p]]
             /\ \A s \in DOMAIN pending : s \in DOMAIN scopes' /\ scopes'[s] = pending[s]
             /\ \A p \in Covers[loads[n].target] :
                  ScopeOf[p] \in DOMAIN scopes' /\ p \in DOMAIN scopes'[ScopeOf[p]].found =>
                    ScopeOf[p] \in DOMAIN pending
<1> DEFINE t == loads[n].target
           pending == loads[n].pending
           Left(s) == \E p \in DOMAIN scopes[s].found : p \in Covers[t]
           kept == {s \in DOMAIN scopes : ~ Left(s)}
<1>1. /\ LoadInv(loads[n], disk, edits) /\ t \in Target /\ loads[n].at \in Working
      /\ Walked(loads[n], disk, edits)
  BY DEF CurrentInv, LoadInv, Commits, Working
<1>2. scopes' = Over(pending, Restrict(scopes, kept))
  BY DEF Commits
<1>3. /\ DOMAIN scopes' = DOMAIN pending \cup kept
      /\ \A s \in DOMAIN pending : scopes'[s] = pending[s]
      /\ \A s \in kept : s \notin DOMAIN pending => scopes'[s] = scopes[s]
  BY <1>2 DEF Over, Restrict
<1>4. \A s \in DOMAIN pending : \E q \in Covers[t] : ScopeOf[q] = s
  BY <1>1 DEF Walked
<1>5. Covers[t] \subseteq Path
  BY <1>1, PresentationAssumption
<1>6. \A s \in DOMAIN scopes : \A p \in DOMAIN scopes[s].found : p \in Path /\ ScopeOf[p] = s
  BY DEF CurrentInv, Held
<1> HIDE DEF pending, kept, Left
<1>7. ASSUME NEW p \in Path \ Covers[t]
      PROVE  /\ ScopeOf[p] \notin DOMAIN pending
             /\ ScopeOf[p] \in DOMAIN scopes => ScopeOf[p] \in kept
  <2>1. \A q \in Covers[t] : ScopeOf[q] # ScopeOf[p]
    BY <1>1, <1>5, PresentationAssumption
  <2>2. ScopeOf[p] \notin DOMAIN pending
    BY <1>4, <2>1
  <2>3. ScopeOf[p] \in DOMAIN scopes => ~ Left(ScopeOf[p])
    BY <1>6, <2>1 DEF Left
  <2> QED BY <2>2, <2>3 DEF kept
<1>8. ASSUME NEW p \in Covers[t], ScopeOf[p] \in DOMAIN scopes',
             p \in DOMAIN scopes'[ScopeOf[p]].found
      PROVE  ScopeOf[p] \in DOMAIN pending
  <2> SUFFICES ASSUME ScopeOf[p] \notin DOMAIN pending PROVE FALSE
    OBVIOUS
  <2>1. ScopeOf[p] \in kept /\ p \in DOMAIN scopes[ScopeOf[p]].found
    BY <1>3, <1>8
  <2> QED BY <2>1 DEF kept, Left
<1>9. \A p \in Path \ Covers[t] :
        /\ ScopeOf[p] \in DOMAIN scopes' <=> ScopeOf[p] \in DOMAIN scopes
        /\ ScopeOf[p] \in DOMAIN scopes => scopes'[ScopeOf[p]] = scopes[ScopeOf[p]]
  <2>1. kept \subseteq DOMAIN scopes
    BY DEF kept
  <2> QED BY <1>3, <1>7, <2>1
<1> QED BY <1>3, <1>8, <1>9 DEF pending

\* A load that completes leaves the handles that it found again, and no others below its target.
LEMMA HandlesWhenCommitted ==
  ASSUME CurrentInv, HandlesInv, NEW n \in Orders, Commits(n), Current(n)
  PROVE  HandlesInv'
<1> DEFINE t == loads[n].target
           pending == loads[n].pending
           load == [Emptied(loads[n]) EXCEPT !.at = "complete", !.committed = TRUE]
<1>0. /\ DOMAIN loads[n] = Fields /\ Stream(loads[n], edits) /\ Faithful(loads[n], scopes)
      /\ Answered(n) /\ loads[n].at = "commit" /\ t \in Target /\ Covers[t] \subseteq Path
      /\ ~ loads[n].committed /\ ~ loads[n].complete
  <2>1. /\ Stream(loads[n], edits) /\ Faithful(loads[n], scopes) /\ Answered(n)
        /\ loads[n].at = "commit"
    BY DEF HandlesInv, Commits
  <2>2. DOMAIN loads[n] = Fields /\ t \in Target
    BY DEF CurrentInv, LoadInv
  <2>3. ~ loads[n].committed /\ ~ loads[n].complete
    BY <2>1 DEF Stream
  <2> QED BY <2>1, <2>2, <2>3, PresentationAssumption
<1>1. /\ accepted' = accepted /\ UNCHANGED world /\ requests' = requests
      /\ Becomes(n, load)
      /\ handles' = Restrict(handles, { k \in DOMAIN handles :
                        ~ Affected(n, k) \/ <<k[2], handles[k].handle>> \in FoundNow(n) })
  BY DEF Commits
<1>2. /\ load.target = loads[n].target /\ load.at = "complete"
      /\ load.stream = loads[n].stream
      /\ load.channel = loads[n].channel /\ load.taken = loads[n].taken
      /\ load.told = loads[n].told
  BY <1>0 DEF Fields, Emptied
<1>3. load.cancelled = loads[n].cancelled
  BY <1>0 DEF Fields, Emptied
<1>4. load.committed
  BY <1>0 DEF Fields, Emptied
<1>5. load.complete = loads[n].complete
  BY <1>0 DEF Fields, Emptied
<1> HIDE DEF load
<1>6. Coming(load) = Coming(loads[n]) /\ Told(load) = Told(loads[n])
  BY <1>2, SameTold
<1>7. /\ DOMAIN loads' = Orders /\ Orders' = Orders
      /\ \A m \in Orders : loads'[m] = IF m = n THEN load ELSE loads[m]
      /\ disk' = disk /\ edits' = edits
  BY <1>1 DEF CurrentInv, Becomes, Orders, world
<1>8. /\ \A m \in Orders : Current(m)' <=> Current(m)
      /\ \A m \in Orders : loads'[m].target = loads[m].target
      /\ \A m \in Orders : loads'[m].told = loads[m].told
      /\ \A m \in Orders : loads'[m].complete = loads[m].complete
  <2>1. \A m \in Orders : loads'[m].cancelled = loads[m].cancelled
    BY <1>3, <1>7
  <2>2. \A m \in Orders : loads'[m].target = loads[m].target
    BY <1>2, <1>7
  <2>3. \A m \in Orders : Current(m)' <=> Current(m)
    BY <1>1, <2>1, <2>2 DEF Current
  <2>4. \A m \in Orders : loads'[m].told = loads[m].told
    BY <1>2, <1>7
  <2>5. \A m \in Orders : loads'[m].complete = loads[m].complete
    BY <1>5, <1>7
  <2> QED BY <2>2, <2>3, <2>4, <2>5
<1>9. /\ \A p \in Path \ Covers[t] :
           /\ ScopeOf[p] \in DOMAIN scopes' <=> ScopeOf[p] \in DOMAIN scopes
           /\ ScopeOf[p] \in DOMAIN scopes => scopes'[ScopeOf[p]] = scopes[ScopeOf[p]]
      /\ \A s \in DOMAIN pending : s \in DOMAIN scopes' /\ scopes'[s] = pending[s]
      /\ \A p \in Covers[t] :
           ScopeOf[p] \in DOMAIN scopes' /\ p \in DOMAIN scopes'[ScopeOf[p]].found =>
             ScopeOf[p] \in DOMAIN pending
  BY CommitShows
<1>10. /\ SentScopes(loads[n]) = DOMAIN pending
       /\ DOMAIN pending = {ScopeOf[p] : p \in DOMAIN loads[n].found}
       /\ \A s \in DOMAIN pending : \A p \in DOMAIN pending[s].found : ScopeOf[p] = s
  <2>1. Walked(loads[n], disk, edits)
    BY <1>0 DEF CurrentInv, LoadInv, Working
  <2>2. loads[n].todo = {}
    BY <1>0, <2>1 DEF Walked
  <2> QED BY <2>1, <2>2 DEF Walked, Held, SentScopes
<1>11. /\ \A k \in DOMAIN handles' : k \in DOMAIN handles /\ handles'[k] = handles[k]
       /\ \A k \in DOMAIN handles :
            k \in DOMAIN handles' <=>
              \/ k[2] \notin Covers[t]
              \/ <<k[2], handles[k].handle>> \in FoundNow(n)
  BY <1>1 DEF Restrict, Affected
<1>12. \A p, h : <<p, h>> \in FoundNow(n) <=>
         \E s \in DOMAIN pending : p \in DOMAIN pending[s].found /\ pending[s].found[p].handle = h
  BY DEF FoundNow
<1> HIDE DEF pending
<1>13. ASSUME NEW m \in Orders'
       PROVE  Stream(loads'[m], edits')
  <2>1. Stream(load, edits)
    <3>1. \A e \in Coming(load) : e.what # "complete"
      BY <1>0, <1>6 DEF Stream
    <3>2. /\ load.stream = "dropped" => load.cancelled
          /\ ~ load.complete
          /\ IsSeq(load.channel)
          /\ load.taken = <<>> \/ \E e : load.taken = <<e>>
      BY <1>0, <1>2, <1>3, <1>5 DEF Stream
    <3>3. /\ \A i \in DOMAIN load.channel : load.channel[i].what # "complete"
          /\ \A i \in DOMAIN load.taken : load.taken[i].what # "complete"
      BY <3>1 DEF Coming
    <3>4. \A entry \in Told(load) :
            entry.path \in Covers[load.target] /\ Lazy(entry.path) /\ entry.stamp \in 0..edits
      BY <1>0, <1>2, <1>6 DEF Stream
    <3> QED BY <1>2, <3>1, <3>2, <3>3, <3>4 DEF Stream
  <2> QED BY <1>7, <2>1 DEF HandlesInv
<1>14. ASSUME NEW k \in DOMAIN handles'
       PROVE  Owned(k)' /\ FromLast(k)'
  <2>1. k \in DOMAIN handles /\ handles'[k] = handles[k] /\ Owned(k) /\ FromLast(k)
    BY <1>11 DEF HandlesInv
  <2>2. Owned(k)'
    BY <1>7, <1>8, <2>1 DEF Owned
  <2>3. k[2] \in Path
    BY <2>1, PresentationAssumption DEF Owned
  <2>4. ASSUME k[2] \notin Covers[t]
        PROVE  FromLast(k)'
    <3>1. CASE \A m \in Orders :
                 loads[m].committed /\ k[2] \in Covers[loads[m].target] => m < handles[k].order
      <4>1. \A m \in Orders' :
              loads'[m].committed /\ k[2] \in Covers[loads'[m].target] => m < handles'[k].order
        BY <1>7, <1>8, <2>1, <2>4, <3>1
      <4> QED BY Zenon, <4>1 DEF FromLast
    <3>2. CASE /\ ScopeOf[k[2]] \in DOMAIN scopes /\ k[2] \in DOMAIN scopes[ScopeOf[k[2]]].found
               /\ scopes[ScopeOf[k[2]]].found[k[2]].handle = handles[k].handle
      <4> DEFINE p == k[2]
      <4>1. p \in Path \ Covers[t]
        BY <2>3, <2>4
      <4>2. ScopeOf[p] \in DOMAIN scopes' /\ scopes'[ScopeOf[p]] = scopes[ScopeOf[p]]
        BY <1>9, <3>2, <4>1
      <4>3. /\ ScopeOf[p] \in DOMAIN scopes' /\ p \in DOMAIN scopes'[ScopeOf[p]].found
            /\ scopes'[ScopeOf[p]].found[p].handle = handles'[k].handle
        BY <2>1, <3>2, <4>2
      <4> QED BY Zenon, <4>3 DEF FromLast
    <3> QED BY <2>1, <3>1, <3>2 DEF FromLast
  <2>5. ASSUME k[2] \in Covers[t]
        PROVE  FromLast(k)'
    <3>1. PICK s \in DOMAIN pending :
            k[2] \in DOMAIN pending[s].found /\ pending[s].found[k[2]].handle = handles[k].handle
      BY <1>11, <1>12, <2>1, <2>5
    <3>2. s = ScopeOf[k[2]]
      BY <1>10, <3>1 DEF pending
    <3>3. /\ ScopeOf[k[2]] \in DOMAIN scopes' /\ k[2] \in DOMAIN scopes'[ScopeOf[k[2]]].found
          /\ scopes'[ScopeOf[k[2]]].found[k[2]].handle = handles'[k].handle
      BY <1>9, <2>1, <3>1, <3>2
    <3> QED BY Zenon, <3>3 DEF FromLast
  <2> QED BY <2>2, <2>4, <2>5
<1>15. \A m \in Orders : \A entry \in Told(loads[m]) : entry.path \in Covers[loads[m].target]
  BY DEF HandlesInv, Stream
<1>16. \A m \in Orders : \A entry \in loads[m].told : entry \in Told(loads[m])
  BY DEF Told
<1>17. \A m \in Orders : Covers[loads[m].target] \subseteq Path
  BY PresentationAssumption DEF CurrentInv, LoadInv
<1>18. ASSUME NEW entry, entry.path \in Covers[t],
              ScopeOf[entry.path] \in DOMAIN pending,
              Right(entry, pending[ScopeOf[entry.path]].found)
       PROVE  \A u : Resolves(u, entry, handles) => Resolves(u, entry, handles')
  <2> SUFFICES ASSUME NEW u, Resolves(u, entry, handles) PROVE Resolves(u, entry, handles')
    OBVIOUS
  <2> DEFINE k == <<u, entry.path>>
  <2>1. k \in DOMAIN handles /\ handles[k].handle = entry.handle /\ k[2] = entry.path
    BY DEF Resolves
  <2>2. <<entry.path, entry.handle>> \in FoundNow(n)
    BY <1>12, <1>18 DEF Right
  <2>3. k \in DOMAIN handles'
    BY <1>11, <2>1, <2>2
  <2> QED BY <1>11, <2>1, <2>3 DEF Resolves
<1>19. ASSUME NEW u, NEW entry, entry.path \notin Covers[t], Resolves(u, entry, handles)
       PROVE  Resolves(u, entry, handles')
  <2> DEFINE k == <<u, entry.path>>
  <2>1. k \in DOMAIN handles /\ handles[k].handle = entry.handle /\ k[2] = entry.path
    BY <1>19 DEF Resolves
  <2>2. k \in DOMAIN handles'
    BY <1>11, <1>19, <2>1
  <2> QED BY <1>11, <2>1, <2>2 DEF Resolves
<1>20. \A u, entry : Resolves(u, entry, handles') =>
         handles'[<<u, entry.path>>].order = handles[<<u, entry.path>>].order
  BY <1>11 DEF Resolves
<1>21. \A entry \in Told(loads[n]) :
         /\ ScopeOf[entry.path] \in DOMAIN pending
         /\ Right(entry, pending[ScopeOf[entry.path]].found)
  BY <1>0, <1>10 DEF Faithful, Working, pending
<1>22. ASSUME NEW m \in Orders', Current(m)'
       PROVE  Faithful(loads'[m], scopes') /\ Answered(m)'
  <2>1. m \in Orders /\ Current(m) /\ Faithful(loads[m], scopes) /\ Answered(m)
    BY <1>7, <1>8, <1>22 DEF HandlesInv
  <2>2. CASE m = n
    <3>1. Faithful(load, scopes')
      <4>1. ASSUME NEW entry \in Told(load)
            PROVE  /\ ScopeOf[entry.path] \in DOMAIN scopes'
                   /\ Right(entry, scopes'[ScopeOf[entry.path]].found)
        BY <1>6, <1>9, <1>21
      <4>2. ASSUME NEW p \in Covers[load.target], Lazy(p), ScopeOf[p] \in DOMAIN scopes',
                   p \in DOMAIN scopes'[ScopeOf[p]].found
            PROVE  p \in {entry.path : entry \in Told(load)}
        <5>1. ScopeOf[p] \in DOMAIN pending
          BY <1>2, <1>9, <4>2
        <5>2. p \in DOMAIN pending[ScopeOf[p]].found
          BY <1>9, <4>2, <5>1
        <5> QED BY <1>0, <1>6, <1>10, <4>2, <5>1, <5>2 DEF Faithful, Working, pending
      <4> QED BY <1>4, <4>1, <4>2 DEF Faithful
    <3>2. ASSUME NEW entry \in loads[n].told
          PROVE  /\ Resolves(t, entry, handles')
                 /\ handles'[<<t, entry.path>>].order = n
      <4>1. entry \in Told(loads[n]) /\ entry.path \in Covers[t]
        BY <1>15, <1>16
      <4>2. Resolves(t, entry, handles) /\ handles[<<t, entry.path>>].order = n
        BY <1>0 DEF Answered
      <4>3. Resolves(t, entry, handles')
        BY <1>18, <1>21, <4>1, <4>2
      <4> QED BY <1>20, <4>2, <4>3
    <3> QED BY <1>7, <1>8, <2>2, <3>1, <3>2 DEF Answered
  <2>3. CASE m # n
    <3>1. loads'[m] = loads[m]
      BY <1>7, <2>1, <2>3
    <3>2. \A p \in Covers[loads[m].target] : p \in Path \ Covers[t]
      BY <1>17, <2>1, <2>3, CoveredOnce
    <3>3. Faithful(loads[m], scopes')
      <4>1. CASE loads[m].committed
        <5>1. \A entry \in Told(loads[m]) :
                /\ ScopeOf[entry.path] \in DOMAIN scopes'
                /\ Right(entry, scopes'[ScopeOf[entry.path]].found)
          <6>1. \A entry \in Told(loads[m]) : entry.path \in Path \ Covers[t]
            BY <1>15, <2>1, <3>2
          <6> QED BY <1>9, <2>1, <4>1, <6>1 DEF Faithful
        <5>2. \A p \in Covers[loads[m].target] :
                Lazy(p) /\ ScopeOf[p] \in DOMAIN scopes'
                    /\ p \in DOMAIN scopes'[ScopeOf[p]].found =>
                  p \in {entry.path : entry \in Told(loads[m])}
          BY <1>9, <2>1, <3>2, <4>1 DEF Faithful
        <5> QED BY <4>1, <5>1, <5>2 DEF Faithful
      <4>2. CASE ~ loads[m].committed
        BY <2>1, <4>2 DEF Faithful
      <4> QED BY <4>1, <4>2
    <3>4. ASSUME NEW entry \in loads[m].told
          PROVE  /\ Resolves(loads[m].target, entry, handles')
                 /\ handles'[<<loads[m].target, entry.path>>].order = m
      <4>1. entry.path \notin Covers[t]
        BY <1>15, <1>16, <2>1, <3>2
      <4>2. /\ Resolves(loads[m].target, entry, handles)
            /\ handles[<<loads[m].target, entry.path>>].order = m
        BY <2>1 DEF Answered
      <4>3. Resolves(loads[m].target, entry, handles')
        BY <1>19, <4>1, <4>2
      <4> QED BY <1>20, <4>2, <4>3
    <3> QED BY <3>1, <3>3, <3>4 DEF Answered
  <2> QED BY <2>2, <2>3
<1>23. ASSUME NEW m \in Orders', loads'[m].complete, ~ FoundInactive(m)',
              NEW entry \in loads'[m].told, Unedited(entry)'
       PROVE  Fetchable(m, entry)'
  <2>1. m \in Orders /\ loads[m].complete /\ entry \in loads[m].told
    BY <1>7, <1>8, <1>23
  <2>2. ~ FoundInactive(m)
    <3> SUFFICES ASSUME FoundInactive(m) PROVE FALSE
      OBVIOUS
    <3>1. PICK k \in Orders : /\ k > m /\ loads[k].target = loads[m].target
                              /\ loads[k].complete /\ ~ loads[k].committed
      BY DEF FoundInactive
    <3>2. k # n
      BY <1>0, <3>1
    <3>3. ~ loads'[k].committed
      BY <1>7, <3>1, <3>2
    <3> QED BY <1>7, <1>8, <1>23, <2>1, <3>1, <3>3 DEF FoundInactive
  <2>3. Fetchable(m, entry)
    BY <1>7, <1>23, <2>1, <2>2 DEF HandlesInv, Unedited
  <2>4. Resolves(loads[m].target, entry, handles) /\ Shown(entry) /\ Agrees(loads[n], entry)
    BY <2>3 DEF Fetchable
  <2>5. Resolves(loads[m].target, entry, handles') /\ Shown(entry)'
    <3>1. CASE entry.path \in Covers[t]
      <4>1. Right(entry, loads[n].found)
        BY <1>0, <2>4, <3>1 DEF Agrees, Working
      <4>2. ScopeOf[entry.path] \in DOMAIN pending
        BY <1>10, <4>1 DEF Right, pending
      <4>3. Right(entry, pending[ScopeOf[entry.path]].found)
        BY <1>0, <2>4, <3>1, <4>2 DEF Agrees, Working, pending
      <4>4. Shown(entry)'
        BY <1>9, <4>2, <4>3 DEF Shown
      <4> QED BY <1>18, <2>4, <3>1, <4>2, <4>3, <4>4
    <3>2. CASE entry.path \notin Covers[t]
      <4>1. entry.path \in Path \ Covers[t]
        BY <1>15, <1>16, <1>17, <2>1, <3>2
      <4>2. Shown(entry)'
        BY <1>9, <2>4, <4>1 DEF Shown
      <4> QED BY <1>19, <2>4, <3>2, <4>2
    <3> QED BY <3>1, <3>2
  <2>6. ASSUME NEW k \in Orders', Current(k)'
        PROVE  Agrees(loads'[k], entry)
    <3>1. k \in Orders /\ Agrees(loads[k], entry)
      BY <1>7, <1>8, <2>3, <2>6 DEF Fetchable
    <3>2. CASE k = n
      BY <1>2, <1>7, <3>2 DEF Agrees, Working
    <3>3. CASE k # n
      BY <1>7, <3>1, <3>3
    <3> QED BY <3>2, <3>3
  <2> QED BY <1>8, <2>1, <2>5, <2>6 DEF Fetchable
<1> QED BY <1>13, <1>14, <1>22, <1>23 DEF HandlesInv

\* No step undoes it.
LEMMA HandlesNext == CurrentInv /\ HandlesInv /\ [Next]_vars => HandlesInv'
<1> SUFFICES ASSUME CurrentInv, HandlesInv, [Next]_vars PROVE HandlesInv'
  OBVIOUS
<1>1. CASE Edit
  BY <1>1, HandlesWhenSaved
<1>2. CASE \E t \in Target : Accepts(t)
  BY <1>2, HandlesWhenAccepted
<1>3. ASSUME NEW n \in Orders, Registers(n)
      PROVE  HandlesInv'
  BY <1>3, HandlesWhenForgotten, HandlesWhenComplete, HandlesWhenTold
<1>4. ASSUME NEW n \in Orders, Commits(n)
      PROVE  HandlesInv'
  <2>1. CASE Current(n)
    BY <1>4, <2>1, HandlesWhenCommitted
  <2>2. CASE ~ Current(n)
    <3> DEFINE load == Finished(loads[n])
    <3>0. DOMAIN loads[n] = Fields
      BY DEF CurrentInv, LoadInv
    <3>1. /\ Becomes(n, load) /\ accepted' = accepted /\ UNCHANGED world /\ scopes' = scopes
          /\ handles' = handles /\ requests' = requests /\ loads[n].at = "commit"
      BY <1>4, <2>2 DEF Commits
    <3>2. /\ load.target = loads[n].target /\ load.channel = loads[n].channel
          /\ load.taken = loads[n].taken /\ load.told = loads[n].told
          /\ load.stream = loads[n].stream /\ load.at = "done"
      BY <3>0 DEF Finished, Emptied, Fields
    <3>3. load.cancelled = loads[n].cancelled
      BY <3>0 DEF Finished, Emptied, Fields
    <3>4. load.complete = loads[n].complete
      BY <3>0 DEF Finished, Emptied, Fields
    <3>5. load.committed = loads[n].committed
      BY <3>0 DEF Finished, Emptied, Fields
    <3> HIDE DEF load
    <3> QED BY <2>2, <3>1, <3>2, <3>3, <3>4, <3>5, OneStops
  <2> QED BY <2>1, <2>2
<1>5. ASSUME NEW n \in Orders, ReadsScope(n) \/ ReadFails(n)
      PROVE  HandlesInv'
  <2>1. UNCHANGED <<world, session>> /\ \E failing : Reads(n, failing)
    BY <1>5 DEF ReadsScope, ReadFails
  <2> QED BY <2>1, HandlesElse
<1>6. ASSUME NEW n \in Orders, Works(n)
      PROVE  HandlesInv'
  BY <1>4, <1>5, <1>6, HandlesElse, HandlesWhenWalked, HandlesWhenReused, HandlesWhenRechecked,
     HandlesWhenSent DEF Works
<1>7. ASSUME NEW n \in Orders, Opens(n) \/ Receives(n) \/ Cancels(n) \/ Drops(n) \/ Breaks(n)
      PROVE  HandlesInv'
  BY <1>7, HandlesElse, HandlesWhenReceived, HandlesWhenDropped
<1>8. CASE UNCHANGED vars
  <2>1. /\ disk' = disk /\ edits' = edits /\ loads' = loads /\ accepted' = accepted
        /\ scopes' = scopes /\ requests' = requests /\ handles' = handles
    BY <1>8 DEF vars
  <2>2. Orders' = Orders /\ edits \in Nat
    BY <2>1 DEF Orders, CurrentInv
  <2>3. \A n \in Orders :
           /\ \A f \in Telling : loads'[n][f] = loads[n][f]
           /\ loads'[n].at = loads[n].at
           /\ loads'[n].stream = "dropped" => loads'[n].cancelled
           /\ Current(n)' => Current(n)
    BY <2>1 DEF Current, HandlesInv, Stream
  <2>4. \A entry : Unedited(entry)' => Unedited(entry)
    BY <2>1 DEF Unedited
  <2> QED BY <2>1, <2>2, <2>3, <2>4, NoneHandles
<1> QED BY <1>1, <1>2, <1>3, <1>5, <1>6, <1>7, <1>8 DEF Next

\* A handle that resolves is never an old one, and what a client was told to the end it can fetch:
\* whatever loads of overlapping targets run, are cancelled or dropped beside it, and in whatever
\* order their events come (register_handles, the removals of commit and of a complete load).
THEOREM HandlesAreExact == Spec => []HandlesExact
<1> QED BY HandlesMean, HandlesInit, HandlesNext, CurrentInit, CurrentNext, PTL DEF Spec
=============================================================================
