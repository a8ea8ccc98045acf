------------------------------ MODULE Discovery ------------------------------
(***************************************************************************)
(* Local validation on its own: one client at a time, nothing fails and    *)
(* nobody edits, so all that matters is what dependency discovery selects  *)
(* (mutation_dependencies::discover) and what preparation makes of it      *)
(* (writing::prepare_batch).  A batch is judged by the diagnostics of the  *)
(* few records it was found to depend on; a scan judges the whole store.   *)
(***************************************************************************)
EXTENDS Records

ASSUME DiscoveryAssumption ==
  /\ \A batch \in Request :
       DOMAIN batch \in SUBSET Path /\ DOMAIN batch # {} /\ batch \in [DOMAIN batch -> Change]
  /\ Start \subseteq [Path -> Doc \cup {Absent}]

VARIABLES
    store,
    judging  \* whether batches are judged, or one is published to a store that is given

Found == store \in Start

\* What is read for a batch: its dependencies and nothing else.
Captured(batch) ==
  LET read == DependencyPaths(store, batch)
  IN  [p \in Path |-> IF p \in read THEN store[p] ELSE Absent]

Refused(batch) ==
  Rejected(Captured(batch), batch, DependencyPaths(store, batch), ValidationPaths(store, batch))

Accept ==
  \E batch \in Request :
    /\ ~ Refused(batch)
    /\ store' = Overlay(store, batch)

Refuse ==
  \E batch \in Request :
    /\ Refused(batch)
    /\ UNCHANGED store

Judge == Accept \/ Refuse

Judgements == Found /\ [][Judge]_store

\* The few files that discovery selects are enough: an accepted batch brings
\* no diagnostic into the store that a scan of all of it would report.
NothingIntroduced == [][StoreDiagnostics(store') \subseteq StoreDiagnostics(store)]_store

\* And they are not too few the other way: a record left unread never makes
\* a reference of the batch look broken that a scan would resolve.
NothingInvented ==
  \A batch \in Request :
    ~ TargetMismatch(store, batch) =>
      Introduced(Captured(batch), batch, DependencyPaths(store, batch), ValidationPaths(store, batch))
        \subseteq StoreDiagnostics(Overlay(store, batch)) \ StoreDiagnostics(store)

\* That of the stores that are judged (mutation_dependencies.rs:47-141, writing.rs:165-215).
NoReferenceInvented == judging => NothingInvented
=============================================================================
