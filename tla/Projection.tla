------------------------------ MODULE Projection ------------------------------
(***************************************************************************)
(* What a presentation shows of the files of one scope: what each file     *)
(* says on its own, and what follows from the others, the progress of a    *)
(* ticket, the state of a writer binding, the cards of a board and the     *)
(* diagnostics.  Derived computes it from the files alone; Projected is    *)
(* facts::project_scope, which keeps of the previous load whatever it      *)
(* takes to be unaffected by the files that were read again.               *)
(*                                                                         *)
(* A file as loaded has at least [governed, says, own]: whether it parsed, *)
(* what it says (by kind: a ticket its status and title, a log the last    *)
(* status of each ticket it names, a board what it groups by, a strategy   *)
(* its adapter and number of writers, a binding its adapter), and its own  *)
(* diagnostics.                                                            *)
(***************************************************************************)
EXTENDS Naturals, FiniteSets

CONSTANTS
  Path,    \* the paths files may be at
  KindOf   \* the kind the layout gives each path

Kinds == {"activation", "map", "ticket", "log", "board", "strategy", "binding", "evidence"}

ASSUME ProjectionAssumption == KindOf \in [Path -> Kinds]

\* The one member of a set that has one.
Only(set) == CHOOSE x \in set : TRUE

Of(kind, files) == {p \in DOMAIN files : KindOf[p] = kind}

Parsed(kind, files) == {p \in Of(kind, files) : files[p].governed}

\* The status of a work item, or none where there is no work item.
StatusOf(file) == IF file.governed THEN file.says.status ELSE "none"

Accepted(files) == {p \in Parsed("ticket", files) : files[p].says.status = "accepted"}

-----------------------------------------------------------------------------
(* From the files alone. *)

\* Entries of the log about tickets that are not accepted, each with the reason that is given.
ProgressFaults(files) ==
  UNION { {<<log, ticket,
             IF ticket \in Of("ticket", files) THEN StatusOf(files[ticket]) ELSE "missing">> :
             ticket \in DOMAIN files[log].says \ Accepted(files)} :
          log \in Parsed("log", files) }

\* binding_state of a strategy and a binding that parsed.
Resolved(strategy, binding) ==
  IF strategy.adapter = binding /\ strategy.writers = 1 THEN "resolved" ELSE "unresolved"

\* A binding that does not fit the implementation strategy it is for.
BindingFaults(files) ==
  LET Unfit(b) == {s \in Parsed("strategy", files) :
                     Resolved(files[s].says, files[b].says) = "unresolved"}
  IN  UNION { {<<b, b, IF files[b].says # files[s].says.adapter THEN "adapter" ELSE "writers">> :
                 s \in Unfit(b)} : b \in Parsed("binding", files) }

\* No ticket shows progress while anything is wrong with the log.
LogInvalid(files, faults) ==
  \E log \in Of("log", files) :
    ~ files[log].governed \/ files[log].own # {} \/ \E f \in faults : f[1] = log

\* records::ticket_progress
TicketProgress(files, faults, p) ==
  IF p \notin Accepted(files) \/ LogInvalid(files, faults) THEN "none"
  ELSE LET told == {files[log].says[p] : log \in {log \in Parsed("log", files) :
                                                    p \in DOMAIN files[log].says}}
       IN  IF told = {} THEN "unknown" ELSE Only(told)

ProgressOf(files, faults) == [p \in DOMAIN files |-> TicketProgress(files, faults, p)]

\* records::project_binding
BindingState(files, p) ==
  LET strategies == Parsed("strategy", files)
      bindings == Of("binding", files)
  IN  IF p \in strategies
      THEN IF bindings = {}
           THEN IF files[p].says.writers = 1 THEN "default" ELSE "unresolved"
           ELSE LET b == Only(bindings)
                IN  IF files[b].governed THEN Resolved(files[p].says, files[b].says) ELSE "invalid"
      ELSE IF p \in Parsed("binding", files)
      THEN IF strategies = {} THEN "pending"
           ELSE Resolved(files[Only(strategies)].says, files[p].says)
      ELSE "none"

\* boards::derive_boards, given the progress of the tickets: who is on which board as what.
Cards(files, progress) ==
  [b \in Parsed("board", files) |->
     { <<p, files[p].says.title, IF files[b].says = "progress" THEN progress[p] ELSE files[p].says.status>> :
         p \in { p \in Parsed("ticket", files) : files[b].says = "progress" => progress[p] # "none" } }]

CardsAt(cards, p) == IF p \in DOMAIN cards THEN cards[p] ELSE {}

FaultsAt(files, faults, p) == files[p].own \cup {f \in faults : f[1] = p}

\* The entries of a scope that nothing was known of before.
Derived(files) ==
  LET faults == ProgressFaults(files) \cup BindingFaults(files)
      progress == ProgressOf(files, ProgressFaults(files))
  IN  [p \in DOMAIN files |->
         [progress |-> progress[p],
          binding |-> BindingState(files, p),
          faults |-> FaultsAt(files, faults, p),
          cards |-> CardsAt(Cards(files, progress), p)]]

-----------------------------------------------------------------------------
(* From the previous load and the files that were read again. *)

\* What a log's diagnostics depend on in a ticket.
Membership(file) == <<file.governed, StatusOf(file)>>

\* What the cards of a board depend on in a record, its progress apart.
Carded(file) == <<file.governed, file.says>>

\* No previous load.  A loaded scope has its files, their entries and the facts these were made of.
Nothing ==
  [known |-> FALSE, files |-> <<>>, shown |-> <<>>, progress |-> {}, binding |-> {}, cards |-> <<>>]

\* Mutant: a ticket that leaves the accepted ones goes unnoticed by the log.
LogChanged(files, previous, changed) ==
  \/ \E p \in changed : KindOf[p] = "log"
  \/ \E p \in DOMAIN previous.files \ DOMAIN files : KindOf[p] \in {"log", "ticket"}

MembershipChanged(files, previous, changed) ==
  \/ \E p \in changed :
       \/ KindOf[p] = "log"
       \/ /\ KindOf[p] = "ticket"
          /\ p \in DOMAIN previous.files => Membership(previous.files[p]) # Membership(files[p])
  \/ \E p \in DOMAIN previous.files \ DOMAIN files : KindOf[p] \in {"log", "ticket"}

BindingChanged(files, previous, changed) ==
  \/ \E p \in changed :
       \/ KindOf[p] = "binding"
       \/ p \in Parsed("strategy", files)
       \/ p \in DOMAIN previous.files /\ p \in Parsed("strategy", previous.files)
  \/ \E p \in DOMAIN previous.files \ DOMAIN files :
       KindOf[p] = "binding" \/ p \in Parsed("strategy", previous.files)

\* What of the cards of a scope is no longer as it was.
BoardsChanged(files, previous, progress) ==
  LET OnBoards(all) == Parsed("board", all) \cup Parsed("ticket", all)
  IN  \/ OnBoards(previous.files) \ DOMAIN files # {}
      \/ \E p \in OnBoards(files) \cup (OnBoards(previous.files) \cap DOMAIN files) :
           \/ p \notin DOMAIN previous.files
           \/ Carded(previous.files[p]) # Carded(files[p])
           \/ previous.shown[p].progress # progress[p]

\* Entries that are taken for what they were: nothing they were made from is taken to have changed.
Borrowed(files, previous, changed, wanted) ==
  { p \in DOMAIN files \ changed :
      /\ ~ (BindingChanged(files, previous, changed) /\ KindOf[p] \in {"strategy", "binding"})
      /\ MembershipChanged(files, previous, changed) => previous.shown[p].progress = wanted[p] }

\* project_scope: the entries and facts of files, of which changed were read again and the rest
\* are those of the previous load.
Projected(files, previous, changed) ==
  LET membership == ~ previous.known \/ MembershipChanged(files, previous, changed)
      bindings == ~ previous.known \/ BindingChanged(files, previous, changed)
      progressFaults == IF membership THEN ProgressFaults(files) ELSE previous.progress
      bindingFaults == IF bindings THEN BindingFaults(files) ELSE previous.binding
      wanted == ProgressOf(files, progressFaults)
      borrowed == Borrowed(files, previous, changed, wanted)
      progress ==
        [p \in DOMAIN files |-> IF p \in borrowed THEN previous.shown[p].progress ELSE wanted[p]]
      boards == ~ previous.known \/ BoardsChanged(files, previous, progress)
      cards == IF boards THEN Cards(files, progress) ELSE previous.cards
      same == ~ membership /\ ~ bindings /\ ~ boards
      Entry(p) ==
        [progress |-> progress[p],
         binding |-> IF p \in borrowed THEN previous.shown[p].binding ELSE BindingState(files, p),
         faults |-> FaultsAt(files, progressFaults \cup bindingFaults, p),
         cards |-> CardsAt(cards, p)]
  IN  [known |-> TRUE,
       files |-> files,
       shown |-> [p \in DOMAIN files |->
                    IF same /\ p \in borrowed THEN previous.shown[p] ELSE Entry(p)],
       progress |-> progressFaults,
       binding |-> bindingFaults,
       cards |-> cards]
=============================================================================
