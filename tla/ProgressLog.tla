----------------------------- MODULE ProgressLog -----------------------------
(***************************************************************************)
(* Progress logs and what requests make of them (casefile-core's           *)
(* progress.rs, casefile-store's progress.rs).  An entry is a transition   *)
(* of a ticket from one status to another, or a note; its operation id     *)
(* makes it the client's own.                                              *)
(***************************************************************************)
EXTENDS Integers, Sequences, FiniteSets

CONSTANTS
  Ticket,   \* the tickets of the investigation
  Entry,    \* progress entries: id, ticket, kind, from and to
  Missing   \* the log that was never bootstrapped

Entries(content) == IF content = Missing THEN <<>> ELSE content

Recorded(content) == { Entries(content)[i] : i \in DOMAIN Entries(content) }

\* The status of a ticket after the first n entries (validate_entries).
StatusAfter(entries, n, ticket) ==
  LET changes == { i \in 1..n : entries[i].ticket = ticket /\ entries[i].kind = "transition" }
  IN  IF changes = {}
        THEN "unknown"
        ELSE entries[CHOOSE i \in changes : \A j \in changes : j <= i].to

\* Operation ids are unique and every transition leaves the status its
\* ticket is in.
Valid(entries) ==
  /\ \A i, j \in DOMAIN entries : entries[i].id = entries[j].id => i = j
  /\ \A i \in DOMAIN entries : entries[i].kind = "transition" =>
       /\ entries[i].from = StatusAfter(entries, i - 1, entries[i].ticket)
       /\ entries[i].from # entries[i].to

About(content) == { e.ticket : e \in Recorded(content) }

\* What validation asks of a log among the accepted tickets.
Sound(content, tickets) == Valid(Entries(content)) /\ About(content) \subseteq tickets

\* A finite set of numbers from the least to the greatest.
InOrder(S) ==
  [ k \in 1..Cardinality(S) |-> CHOOSE i \in S : Cardinality({ j \in S : j <= i }) = k ]

\* The entries of an append whose operation ids are not taken, by the log or
\* by an entry before them.
New(request, content) ==
  LET ids == { e.id : e \in Recorded(content) }
  IN  { i \in DOMAIN request.entries :
          /\ request.entries[i].id \notin ids
          /\ \A j \in 1..(i - 1) : request.entries[j].id # request.entries[i].id }

Added(request, content) ==
  LET new == InOrder(New(request, content))
  IN  [ k \in DOMAIN new |-> request.entries[new[k]] ]

\* The log after a request (progress::capture).
Proposed(request, content) ==
  CASE request.op = "append" -> Entries(content) \o Added(request, content)
    [] request.op = "bootstrap" -> Entries(content)
    [] request.op = "replace" -> request.entries
=============================================================================
