----------------------------- MODULE RecordStore -----------------------------
(***************************************************************************)
(* What the mutation engine promises its cooperating clients, with no      *)
(* locks, no files and no failures in sight: a batch is approved against   *)
(* the store, and is later applied in one step to a store whose targets    *)
(* are still what the approval saw, or not at all.  No application brings  *)
(* a diagnostic into the store that a full scan would report; an approval  *)
(* is advice, and promises only what it saw of its targets.                *)
(***************************************************************************)
EXTENDS Records

CONSTANTS
  Client,  \* the processes and threads that mutate the store
  None     \* no approval

VARIABLES
  store,    \* the body at each path
  approval  \* what each client holds: a batch and the targets it was approved on

vars == <<store, approval>>

Approval == [batch : Request, seen : UNION { [S -> Doc \cup {Absent}] : S \in SUBSET Path }]

\* The shape of the store and of an approval (ChangeBatchPreview).
TypeOK ==
  /\ store \in [Path -> Doc \cup {Absent}]
  /\ approval \in [Client -> Approval \cup {None}]

Init ==
  /\ store \in Start
  /\ approval = [c \in Client |-> None]

\* A batch introduces nothing when every diagnostic after it was there before.
Harmless(batch) ==
  StoreDiagnostics(Overlay(store, batch)) \subseteq StoreDiagnostics(store)

Approve(c) ==
  \E batch \in Request :
    /\ approval' = [approval EXCEPT
         ![c] = [batch |-> batch, seen |-> [p \in DOMAIN batch |-> store[p]]]]
    /\ UNCHANGED store

Forget(c) ==
  /\ approval' = [approval EXCEPT ![c] = None]
  /\ UNCHANGED store

Commit(c) ==
  /\ approval[c] # None
  /\ \A p \in DOMAIN approval[c].batch : store[p] = approval[c].seen[p]
  /\ Harmless(approval[c].batch)
  /\ store' = Overlay(store, approval[c].batch)
  /\ UNCHANGED approval

Next == \E c \in Client : Approve(c) \/ Forget(c) \/ Commit(c)

Spec == Init /\ [][Next]_vars
=============================================================================
