--------------------------- MODULE ProgressLedger ---------------------------
(***************************************************************************)
(* What progress mutations promise: an investigation's progress log is one *)
(* sequence of entries, changed in one step at a time.  Entries are added  *)
(* together and at the end, an entry that is there already is not added    *)
(* again, and an entry is about a ticket that is accepted as long as the   *)
(* entry is there.  Entries are forgotten only by a replacement that says  *)
(* so.                                                                     *)
(***************************************************************************)
EXTENDS ProgressLog

CONSTANTS
  Request   \* appends, replacements and the bootstrap of a log

VARIABLES
  log,      \* the entries, in order
  accepted  \* the accepted tickets

vars == <<log, accepted>>

-----------------------------------------------------------------------------
Init == log = Missing /\ accepted \in SUBSET Ticket

\* An append adds all of its entries that are not there yet, and it happens
\* only where none of its operation ids stands for something else.
Change ==
  \E request \in Request :
    /\ log' = Proposed(request, log)
    /\ request.op = "append" => Recorded(request.entries) \subseteq Recorded(log')
    /\ Sound(log', accepted)
    /\ UNCHANGED accepted

Move ==
  /\ accepted' \in SUBSET Ticket
  /\ About(log) \subseteq accepted'
  /\ UNCHANGED log

Next == Change \/ Move

Spec == Init /\ [][Next]_vars
=============================================================================
