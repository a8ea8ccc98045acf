------------------------------- MODULE Records -------------------------------
(***************************************************************************)
(* The data of a Casefile Store that its mutations reason about: governed  *)
(* records at paths, their identities, the references between them, the    *)
(* diagnostics cross validation derives from them, and the set of files a  *)
(* change depends on (casefile-store: references.rs, validation.rs and     *)
(* mutation_dependencies.rs).                                              *)
(*                                                                         *)
(* A record is one ticket or epic of one investigation, so its identity is *)
(* the stem of its file name (work_item.rs requires it): the same identity *)
(* can sit at several paths (accepted, provisional, rejected).  Paths and  *)
(* identities are numbers because their keys are sorted: every             *)
(* "identity:..." key sorts before every "path:..." key, and a bare        *)
(* identity (upper case) sorts before a Store-relative path.               *)
(*                                                                         *)
(* A body keeps what cross validation reads: rel, the related_tickets and  *)
(* superseded_by references, sup, the supersedes references, and body,     *)
(* which stands for all the rest of the text.  A reference is an identity  *)
(* or an explicit path.                                                    *)
(***************************************************************************)
EXTENDS Integers, FiniteSets

CONSTANTS
  Path,      \* Store-relative record paths
  Identity,  \* record identities
  IdOf,      \* the identity in the name of each path
  Doc,       \* record bodies
  Absent,    \* what is read where no file is
  Request,   \* the batches that are asked for
  Start      \* the stores that are found, broken ones included

Key == Identity \cup Path

ASSUME KeysAssumption ==
  /\ Path \subseteq Nat
  /\ Identity \subseteq Nat
  /\ \A i \in Identity, p \in Path : i < p
  /\ IdOf \in [Path -> Identity]

ASSUME DocAssumption ==
  /\ \A d \in Doc : d.rel \subseteq Key /\ d.sup \subseteq Key
  /\ Absent \notin Doc

(***************************************************************************)
(* Changes.  A request of a batch creates, replaces or deletes one record; *)
(* a batch is a function from the paths it targets.                        *)
(***************************************************************************)
Change ==
  [op : {"create", "replace"}, doc : Doc] \cup [op : {"delete"}, doc : {Absent}]

Batch == UNION { [S -> Change] : S \in (SUBSET Path) \ {{}} }

\* The store with the batch laid over it.
Overlay(store, batch) ==
  [p \in Path |-> IF p \in DOMAIN batch THEN batch[p].doc ELSE store[p]]

Existing(store) == { p \in Path : store[p] # Absent }

(***************************************************************************)
(* References and their resolution.                                        *)
(***************************************************************************)
Rel(d) == IF d = Absent THEN {} ELSE d.rel

Sup(d) == IF d = Absent THEN {} ELSE d.sup

Refs(d) == Rel(d) \cup Sup(d)

\* The references of a record, each as often as it is made: a second time when it is of both
\* kinds.  Within one list no reference is repeated here.
Occurrences(d) == (Refs(d) \X {1}) \cup ((Rel(d) \cap Sup(d)) \X {2})

\* Every place where the target of a reference may be.
Locations(r) == { p \in Path : r = p \/ r = IdOf[p] }

\* What a reference resolves to among the records of E: at most one target.
Resolved(E, r) ==
  LET targets == Locations(r) \cap E
  IN  IF Cardinality(targets) = 1 THEN targets ELSE {}

(***************************************************************************)
(* Cross validation over the records of E.  Each diagnostic carries what   *)
(* its key carries in the code: path, code and the text of the message.    *)
(* Only an unresolved reference can give two of one key, which are         *)
(* numbered: the difference of two sets of diagnostics then counts the     *)
(* occurrences of each key as introduced_diagnostics does.                 *)
(***************************************************************************)

\* The nodes that are not leaves however long leaves are stripped: the
\* largest set in which every node still has a successor.
CycleReachable(E, next) ==
  UNION { S \in SUBSET E : \A p \in S : next[p] \cap S # {} }

\* A record that is not the first to claim its identity is reported
\* together with the one before it.
Claims(E, p) == { q \in E : IdOf[q] = IdOf[p] /\ q < p }

Duplicates(E) ==
  UNION { { <<"duplicate_identity", p, q>> :
              q \in { x \in Claims(E, p) : \A y \in Claims(E, p) : y <= x } } : p \in E }

Unresolved(store, E, checked) ==
  UNION { { <<"unresolved_reference", p, o>> :
              o \in { x \in Occurrences(store[p]) : Resolved(E, x[1]) \in {{}, {p}} } } :
          p \in E \cap checked }

Cycles(store, E, checked) ==
  LET next == [p \in E |-> UNION { Resolved(E, r) : r \in Sup(store[p]) }]
  IN  { <<"supersession_cycle", p, p>> : p \in CycleReachable(E, next) \cap checked }

\* Projection::run keeps duplicates of every projected record and the other
\* diagnostics of the paths selected for validation only.
Diagnostics(store, E, checked) ==
  Duplicates(E) \cup Unresolved(store, E, checked) \cup Cycles(store, E, checked)

\* A full scan projects and checks every record.
StoreDiagnostics(store) == Diagnostics(store, Existing(store), Path)

(***************************************************************************)
(* Dependency discovery: what a batch reads, checks and locks.             *)
(***************************************************************************)

\* Old and proposed edges are both kept.
MergedRel(store, batch, p) ==
  Rel(store[p]) \cup (IF p \in DOMAIN batch THEN Rel(batch[p].doc) ELSE {})

MergedSup(store, batch, p) ==
  Sup(store[p]) \cup (IF p \in DOMAIN batch THEN Sup(batch[p].doc) ELSE {})

MergedRefs(store, batch, p) == MergedRel(store, batch, p) \cup MergedSup(store, batch, p)

\* A candidate has an identity when its file or its proposed body exists.
Identified(store, batch) ==
  Existing(store) \cup { p \in DOMAIN batch : batch[p].doc # Absent }

WrittenIdentities(store, batch) ==
  { IdOf[p] : p \in DOMAIN batch \cap Identified(store, batch) }

\* Mutant: references by identity are overlooked.
IncomingByPath(store, batch) ==
  { q \in Identified(store, batch) : MergedRefs(store, batch, q) \cap DOMAIN batch # {} }

\* Records that refer to a written target, or share a written identity.
Incoming(store, batch) ==
  { q \in Identified(store, batch) :
      MergedRefs(store, batch, q) \cap (DOMAIN batch \cup WrittenIdentities(store, batch)) # {} }

SameIdentity(store, batch) ==
  { q \in Identified(store, batch) : IdOf[q] \in WrittenIdentities(store, batch) }

ValidationPaths(store, batch) ==
  DOMAIN batch \cup Incoming(store, batch) \cup SameIdentity(store, batch)

\* The supersession frontier starts at the targets of a validated record
\* that it supersedes.  A target named by several references takes the flag
\* of the last one in key order.
Supersedes(store, batch, p) ==
  { q \in Path :
      LET naming == { r \in MergedRefs(store, batch, p) : q \in Locations(r) }
      IN  \E r \in naming :
            /\ r \in MergedSup(store, batch, p)
            /\ \A s \in naming : s <= r }

SupersededFrom(store, batch, p) ==
  UNION { Locations(r) : r \in MergedSup(store, batch, p) }

\* Mutant: the frontier is not followed any further.
SupersessionFrontier(store, batch) ==
  UNION { Supersedes(store, batch, p) : p \in ValidationPaths(store, batch) }

\* The least set that holds the frontier and what its members supersede.
SupersessionClosure(store, batch) ==
  LET frontier == UNION { Supersedes(store, batch, p) : p \in ValidationPaths(store, batch) }
      closed(S) == \A x \in S : SupersededFrom(store, batch, x) \subseteq S
  IN  { q \in Path : \A S \in SUBSET Path : (frontier \subseteq S /\ closed(S)) => q \in S }

\* Mutant: the targets of references are left unread.
DependencyPathsOnly(store, batch) ==
  ValidationPaths(store, batch) \cup SupersessionClosure(store, batch)

DependencyPaths(store, batch) ==
  LET checked == ValidationPaths(store, batch)
  IN  checked
        \cup (UNION { Locations(r) :
                        r \in UNION { MergedRefs(store, batch, p) : p \in checked } })
        \cup SupersessionClosure(store, batch)

DependencyKeys(store, batch) ==
  DependencyPaths(store, batch)
    \cup { IdOf[p] : p \in DependencyPaths(store, batch) \cap Identified(store, batch) }
    \cup WrittenIdentities(store, batch)

\* Mutant: the identities a batch writes are shared.
LocksOfTargets(store, batch, applying) ==
  [ keys |-> DependencyKeys(store, batch), excl |-> IF applying THEN DOMAIN batch ELSE {} ]

\* Mutant: an application locks like a preview.
LocksOfPreview(store, batch, applying) ==
  [ keys |-> DependencyKeys(store, batch), excl |-> {} ]

\* The locks of a batch: every key, and which of them exclusively.
Locks(store, batch, applying) ==
  [ keys |-> DependencyKeys(store, batch),
    excl |-> IF applying
               THEN DOMAIN batch \cup WrittenIdentities(store, batch)
               ELSE {} ]

(***************************************************************************)
(* Preparation of a batch: the diagnostics that make a preview unusable.   *)
(* captured is what was read (Absent where nothing was), read the paths    *)
(* that were, checked the paths selected for validation.                   *)
(***************************************************************************)
TargetMismatch(captured, batch) ==
  \E p \in DOMAIN batch : (batch[p].op = "create") # (captured[p] = Absent)

Introduced(captured, batch, read, checked) ==
  LET proposed == Overlay(captured, batch)
  IN  Diagnostics(proposed, Existing(proposed) \cap read, checked)
        \ Diagnostics(captured, Existing(captured) \cap read, checked)

Rejected(captured, batch, read, checked) ==
  \/ TargetMismatch(captured, batch)
  \/ Introduced(captured, batch, read, checked) # {}
=============================================================================
