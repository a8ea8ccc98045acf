--------------------------- MODULE MutationProofs ---------------------------
(***************************************************************************)
(* Proofs about the mutation engine, for any number of writers, records    *)
(* and requests and for any bounds: its types and locks, what captures and *)
(* confirmed dependencies are worth, what is approved, that judging a      *)
(* batch by its dependencies is judging it by the whole store, and from    *)
(* all of that that the engine implements RecordStore.                     *)
(***************************************************************************)
EXTENDS Mutation, Discovery, TLAPS, WellFoundedInduction, SequenceTheorems

(***************************************************************************)
(* The operators the engine is built from.                                 *)
(***************************************************************************)

\* Every key is a number, and so the keys are ordered.
LEMMA KeysAreNumbers == Key \subseteq Nat
BY KeysAssumption DEF Key

\* A set of keys that is not empty has a least one.
LEMMA LeastKey ==
  ASSUME NEW S, S \subseteq Nat, S # {}
  PROVE  \E k \in S : \A j \in S : k <= j
<1>1. PICK k \in S : \A j \in S : ~ (<<j, k>> \in OpToRel(<, Nat))
  BY NatLessThanWellFounded, WFMin, Zenon
<1>2. \A j \in S : ~ (j < k)
  BY <1>1 DEF OpToRel
<1> QED BY <1>2

\* The dependencies of a batch are paths; its locks are keys.
LEMMA DependenciesType ==
  ASSUME NEW docs, NEW request \in Request
  PROVE  /\ ValidationPaths(docs, request) \subseteq Path
         /\ DependencyPaths(docs, request) \subseteq Path
<1>1. DOMAIN request \subseteq Path
  BY MutationAssumption DEF Batch
<1>2. ValidationPaths(docs, request) \subseteq Path
  BY <1>1 DEF ValidationPaths, Incoming, SameIdentity, Identified, Existing
<1>3. \A r : Locations(r) \subseteq Path
  BY DEF Locations
<1>4. SupersessionClosure(docs, request) \subseteq Path
  BY DEF SupersessionClosure
<1>5. UNION { Locations(r) : r \in
          UNION { MergedRefs(docs, request, p) : p \in ValidationPaths(docs, request) } }
        \subseteq Path
  BY <1>3
<1>6. DependencyPaths(docs, request) \subseteq Path
  BY <1>2, <1>4, <1>5 DEF DependencyPaths
<1> QED BY <1>2, <1>6

\* The locks an operation selects are keys, its targets among them; an
\* application selects its targets for exclusive use.
LEMMA LocksType ==
  ASSUME NEW docs, NEW request \in Request, NEW exclusive \in BOOLEAN
  PROVE  /\ Locks(docs, request, exclusive) \in LockSet
         /\ DOMAIN request \subseteq Locks(docs, request, exclusive).keys
         /\ exclusive => DOMAIN request \subseteq Locks(docs, request, exclusive).excl
<1>1. DOMAIN request \subseteq Path
  BY MutationAssumption DEF Batch
<1>2. WrittenIdentities(docs, request) \subseteq Identity
  BY <1>1, KeysAssumption DEF WrittenIdentities, Identified, Existing
<1>3. { IdOf[p] : p \in DependencyPaths(docs, request) \cap Identified(docs, request) }
        \subseteq Identity
  BY DependenciesType, KeysAssumption
<1>4. DependencyKeys(docs, request) \subseteq Key
  BY <1>2, <1>3, DependenciesType DEF DependencyKeys, Key
<1>5. DOMAIN request \subseteq DependencyKeys(docs, request)
  BY DEF DependencyKeys, DependencyPaths, ValidationPaths
<1> QED BY <1>1, <1>2, <1>4, <1>5 DEF Locks, LockSet, Key

(***************************************************************************)
(* Type correctness.  What a writer publishes is what it captured, and so  *)
(* the types need to know that the targets of its batch were captured.     *)
(***************************************************************************)
Locked(w) == pc[w] \in {"lock", "capture", "prepare", "verify", "publish", "rollback"}

Loaded(w) == pc[w] \in {"prepare", "verify", "publish", "rollback"}

\* A writer that is not idle has a batch, and the locks it selected cover
\* the targets of the batch.
Targeted ==
  \A w \in Writer :
    /\ pc[w] # "idle" => batch[w] \in Request
    /\ Locked(w) => /\ DOMAIN batch[w] \subseteq want[w].keys
                    /\ applying[w] => DOMAIN batch[w] \subseteq want[w].excl

\* What is captured is the paths among the keys.
AllCaptured ==
  \A w \in Writer : Loaded(w) =>
    \A p \in Path : IF p \in want[w].keys THEN seen[w][p] \in Version ELSE seen[w][p] = Unread

TypeInv == TypeOK /\ Targeted /\ AllCaptured

\* A request targets paths and leaves a body or nothing at each.
LEMMA RequestType ==
  ASSUME NEW request \in Request
  PROVE  /\ DOMAIN request \subseteq Path
         /\ \A p \in DOMAIN request : request[p].doc \in Doc \cup {Absent}
<1>1. request \in Batch
  BY MutationAssumption
<1>2. PICK S \in (SUBSET Path) \ {{}} : request \in [S -> Change]
  BY <1>1 DEF Batch
<1>3. \A p \in S : request[p].doc \in Doc \cup {Absent}
  BY <1>2 DEF Change
<1> QED BY <1>2, <1>3

\* What a publication leaves is a version of a file.
LEMMA PublicationType ==
  ASSUME clock \in Nat, NEW doc \in Doc \cup {Absent}
  PROVE  Publication(doc) \in Version
BY DEF Publication, Missing, Version

\* The engine starts with its types, with no batch and nothing captured.
LEMMA TypeInit == Init => TypeInv
<1> SUFFICES ASSUME Init PROVE TypeInv
  OBVIOUS
<1>1. PICK docs \in Start :
        files = [p \in Path |->
                   IF docs[p] = Absent THEN Missing ELSE [doc |-> docs[p], rev |-> 1]]
  BY DEF Init
<1>2. docs \in [Path -> Doc \cup {Absent}]
  BY MutationAssumption
<1>3. files \in [Path -> Version]
  BY <1>1, <1>2 DEF Version, Missing
<1>4. budget \in Bounds
  BY MutationAssumption DEF Init, Bounds
<1>5. /\ want \in [Writer -> LockSet]
      /\ seen \in [Writer -> Capture]
      /\ approved \in [Writer -> Capture]
  BY DEF Init, LockSet, NoLocks, Capture, Nothing
<1>6. TypeOK
  BY <1>3, <1>4, <1>5 DEF Init, TypeOK, Control, Outcome
<1> QED BY <1>6 DEF Init, TypeInv, Targeted, AllCaptured, Locked, Loaded

\* Returning leaves no locks and no capture behind.
LEMMA ReturnTypes ==
  ASSUME TypeOK, NEW w \in Writer, NEW result \in Outcome, Return(w, result)
  PROVE  /\ pc' \in [Writer -> Control]
         /\ want' \in [Writer -> LockSet]
         /\ held' \in [Writer -> SUBSET Key]
         /\ checked' \in [Writer -> SUBSET Path]
         /\ seen' \in [Writer -> Capture]
         /\ outcome' \in [Writer -> Outcome]
         /\ pc'[w] \in {"idle", "ready"}
         /\ pc'[w] = "ready" => applying[w] \/ result = "approved"
         /\ \A v \in Writer \ {w} : pc'[v] = pc[v] /\ want'[v] = want[v] /\ seen'[v] = seen[v]
<1>1. Nothing \in Capture /\ NoLocks \in LockSet
  BY DEF Nothing, Capture, NoLocks, LockSet
<1> QED BY <1>1 DEF TypeOK, Return, DropContext, Goto, Control

\* Spending a bound leaves bounds; only an edit spends the edits.
LEMMA SpendTurnType ==
  ASSUME budget \in Bounds, NEW w \in Writer, SpendTurn(w)
  PROVE  budget' \in Bounds /\ budget'.edits = budget.edits
<1> DEFINE left == [budget.turns EXCEPT ![w] = @ - 1]
<1>1. budget.turns \in [Writer -> Nat] /\ budget.turns[w] > 0
  BY DEF Bounds, SpendTurn
<1>2. left \in [Writer -> Nat]
  BY <1>1
<1>3. budget' = [budget EXCEPT !.turns = left]
  BY DEF SpendTurn
<1> HIDE DEF left
<1> QED BY <1>2, <1>3 DEF Bounds

\* Spending any other bound takes one from it alone.
LEMMA SpendType ==
  ASSUME budget \in Bounds, NEW kind \in {"edits", "faults", "crashes"}, Spend(kind)
  PROVE  /\ budget' \in Bounds
         /\ kind # "edits" => budget'.edits = budget.edits
         /\ kind = "edits" => budget'.edits = budget.edits - 1
BY DEF Bounds, Spend

\* Every step keeps the types, the targets locked and the capture complete.
LEMMA TypeNext == TypeInv /\ [Next]_vars => TypeInv'
<1> SUFFICES ASSUME TypeInv, [Next]_vars PROVE TypeInv'
  OBVIOUS
<1> USE DEF TypeInv
<1>1. ASSUME NEW w \in Writer, Preview(w) PROVE TypeInv'
  <2>1. approved' \in [Writer -> Capture]
    BY <1>1 DEF Preview, TypeOK, Capture, Nothing
  <2>2. budget' \in Bounds
    BY <1>1, SpendTurnType DEF Preview, TypeOK
  <2>3. TypeOK'
    BY <1>1, <2>1, <2>2 DEF Preview, Goto, TypeOK, lockVars, Control, Outcome
  <2> QED BY <1>1, <2>3 DEF Preview, Goto, TypeOK, Targeted, AllCaptured, Locked, Loaded, lockVars
<1>2. ASSUME NEW w \in Writer, Apply(w) PROVE TypeInv'
  <2>1. budget' \in Bounds
    BY <1>2, SpendTurnType DEF Apply, TypeOK
  <2>2. TypeOK'
    BY <1>2, <2>1 DEF Apply, Goto, TypeOK, lockVars, Control, Outcome
  <2> QED BY <1>2, <2>2 DEF Apply, Goto, At, TypeOK, Targeted, AllCaptured, Locked, Loaded, lockVars
<1>3. ASSUME NEW w \in Writer, Discover(w) PROVE TypeInv'
  <2> DEFINE selected == Locks(Docs(files), batch[w], applying[w])
  <2>1. batch[w] \in Request /\ applying[w] \in BOOLEAN
    BY <1>3 DEF Discover, At, Targeted, TypeOK
  <2>2. want' = [want EXCEPT ![w] = selected]
    BY <1>3 DEF Discover
  <2>3. /\ selected \in LockSet
        /\ DOMAIN batch[w] \subseteq selected.keys
        /\ applying[w] => DOMAIN batch[w] \subseteq selected.excl
    BY <2>1, LocksType
  <2> HIDE DEF selected
  <2>4. TypeOK'
    BY <1>3, <2>2, <2>3 DEF Discover, Goto, TypeOK, Control
  <2>5. Targeted'
    BY <1>3, <2>1, <2>2, <2>3 DEF Discover, Goto, TypeOK, Targeted, Locked
  <2> QED BY <1>3, <2>4, <2>5 DEF Discover, Goto, At, TypeOK, AllCaptured, Loaded
<1>4. ASSUME NEW w \in Writer, Acquire(w) PROVE TypeInv'
  <2>1. NextKey(w) \in Key
    <3>1. Missed(w) \subseteq Key /\ Missed(w) # {}
      BY <1>4 DEF Acquire, Missed, TypeOK, LockSet
    <3>2. \E k \in Missed(w) : \A j \in Missed(w) : k <= j
      BY <3>1, KeysAreNumbers, LeastKey
    <3> QED BY <3>1, <3>2 DEF NextKey
  <2>2. TypeOK'
    BY <1>4, <2>1 DEF Acquire, TypeOK
  <2> QED BY <1>4, <2>2 DEF Acquire, Targeted, AllCaptured, Locked, Loaded
<1>5. ASSUME NEW w \in Writer, Confirm(w) PROVE TypeInv'
  <2>1. ValidationPaths(Docs(files), batch[w]) \subseteq Path
    BY <1>5, DependenciesType DEF Confirm, At, Targeted
  <2>2. TypeOK'
    BY <1>5, <2>1 DEF Confirm, Goto, TypeOK, Control
  <2> QED BY <1>5, <2>2 DEF Confirm, Goto, At, TypeOK, Targeted, AllCaptured, Locked, Loaded
<1>6. ASSUME NEW w \in Writer, ReadFiles(w) PROVE TypeInv'
  <2>1. seen' \in [Writer -> Capture]
    BY <1>6 DEF ReadFiles, TypeOK, Capture
  <2>2. TypeOK'
    BY <1>6, <2>1 DEF ReadFiles, Goto, TypeOK, Control
  <2>3. AllCaptured'
    BY <1>6 DEF ReadFiles, Goto, TypeOK, AllCaptured, Loaded
  <2> QED BY <1>6, <2>2, <2>3 DEF ReadFiles, Goto, At, TypeOK, Targeted, Locked
<1>7. ASSUME NEW w \in Writer, Outdated(w) PROVE TypeInv'
  <2>1. Return(w, "stale") /\ "stale" \in Outcome
    BY <1>7 DEF Outdated, Outcome, Failure
  <2>2. TypeOK'
    BY <1>7, <2>1, ReturnTypes DEF Outdated, TypeOK
  <2> QED BY <1>7, <2>1, <2>2, ReturnTypes DEF Outdated, At, Targeted, AllCaptured, Locked, Loaded
<1>8. ASSUME NEW w \in Writer, PrepareStale(w) PROVE TypeInv'
  <2>1. Return(w, "stale") /\ "stale" \in Outcome
    BY <1>8 DEF PrepareStale, Outcome, Failure
  <2>2. TypeOK'
    BY <1>8, <2>1, ReturnTypes DEF PrepareStale, TypeOK
  <2> QED
    BY <1>8, <2>1, <2>2, ReturnTypes DEF PrepareStale, At, Targeted, AllCaptured, Locked, Loaded
<1>9. ASSUME NEW w \in Writer, PrepareInvalid(w) PROVE TypeInv'
  <2>1. Return(w, "invalid") /\ "invalid" \in Outcome
    BY <1>9 DEF PrepareInvalid, Outcome, Failure
  <2>2. TypeOK'
    BY <1>9, <2>1, ReturnTypes DEF PrepareInvalid, TypeOK
  <2> QED
    BY <1>9, <2>1, <2>2, ReturnTypes
    DEF PrepareInvalid, At, Targeted, AllCaptured, Locked, Loaded
<1>10. ASSUME NEW w \in Writer, VerifyStale(w) PROVE TypeInv'
  <2>1. Return(w, "stale") /\ "stale" \in Outcome
    BY <1>10 DEF VerifyStale, Outcome, Failure
  <2>2. TypeOK'
    BY <1>10, <2>1, ReturnTypes DEF VerifyStale, TypeOK
  <2> QED
    BY <1>10, <2>1, <2>2, ReturnTypes DEF VerifyStale, At, Targeted, AllCaptured, Locked, Loaded
<1>11. ASSUME NEW w \in Writer, Approve(w) PROVE TypeInv'
  <2>1. Return(w, "approved") /\ "approved" \in Outcome
    BY <1>11 DEF Approve, Outcome
  <2>2. TypeOK'
    BY <1>11, <2>1, ReturnTypes DEF Approve, TypeOK
  <2> QED BY <1>11, <2>1, <2>2, ReturnTypes DEF Approve, At, Targeted, AllCaptured, Locked, Loaded
<1>12. ASSUME NEW w \in Writer, Prepare(w) PROVE TypeInv'
  BY <1>12 DEF Prepare, Goto, At, TypeOK, Control, lockVars, Targeted, AllCaptured, Locked, Loaded
<1>13. ASSUME NEW w \in Writer, Verify(w) PROVE TypeInv'
  BY <1>13 DEF Verify, Goto, At, TypeOK, Control, lockVars, Targeted, AllCaptured, Locked, Loaded
<1>14. ASSUME NEW w \in Writer, Publish(w) PROVE TypeInv'
  <2>1. PICK p \in Unpublished(w) :
          /\ files' = [files EXCEPT ![p] = Publication(batch[w][p].doc)]
          /\ clock' = clock + 1
          /\ \E known \in BOOLEAN :
               /\ receipts' = [receipts EXCEPT ![w] = Append(@,
                    [path |-> p, prior |-> seen[w][p].doc, written |-> batch[w][p].doc,
                     rev |-> IF known THEN Publication(batch[w][p].doc).rev ELSE 0])]
               /\ IF known THEN UNCHANGED budget ELSE Spend("faults")
    BY <1>14 DEF Publish
  <2>2. /\ batch[w] \in Request
        /\ p \in DOMAIN batch[w]
        /\ p \in want[w].keys
    BY <1>14, <2>1 DEF Publish, At, Unpublished, Targeted, Locked
  <2>3. p \in Path /\ batch[w][p].doc \in Doc \cup {Absent}
    BY <2>2, RequestType
  <2>4. seen[w][p] \in Version
    BY <1>14, <2>2, <2>3 DEF Publish, At, AllCaptured, Loaded
  <2>5. Publication(batch[w][p].doc) \in Version
    BY <2>3, PublicationType DEF TypeOK
  <2>6. \A rev \in Nat :
          [path |-> p, prior |-> seen[w][p].doc, written |-> batch[w][p].doc, rev |-> rev]
            \in Receipt
    BY <2>3, <2>4 DEF Receipt, Version
  <2>7. files' \in [Path -> Version] /\ clock' \in Nat \ {0}
    BY <2>1, <2>3, <2>5 DEF TypeOK
  <2>8. \A rev \in Nat :
          Append(receipts[w],
                 [path |-> p, prior |-> seen[w][p].doc, written |-> batch[w][p].doc, rev |-> rev])
            \in Seq(Receipt)
    BY <2>6, AppendProperties DEF TypeOK
  <2>9. \A known \in BOOLEAN :
          (IF known THEN Publication(batch[w][p].doc).rev ELSE 0) \in Nat
    BY <2>5 DEF Version
  <2>10. receipts' \in [Writer -> Seq(Receipt)]
    BY <2>1, <2>8, <2>9 DEF TypeOK
  <2>11. budget' \in Bounds
    BY <2>1, SpendType DEF TypeOK
  <2>12. TypeOK'
    BY <1>14, <2>7, <2>10, <2>11 DEF Publish, TypeOK, lockVars
  <2> QED BY <1>14, <2>12 DEF Publish, Targeted, AllCaptured, Locked, Loaded, lockVars
<1>15. ASSUME NEW w \in Writer, PublishFails(w) PROVE TypeInv'
  <2>1. PICK cause \in {"stale", "io"} : StartRollback(w, cause)
    BY <1>15 DEF PublishFails
  <2>2. budget' \in Bounds
    BY <1>15, SpendType DEF PublishFails, TypeOK
  <2>3. TypeOK'
    BY <2>1, <2>2 DEF StartRollback, Goto, TypeOK, lockVars, Control, Outcome, Failure
  <2> QED BY <1>15, <2>1, <2>3
      DEF PublishFails, StartRollback, Goto, At, TypeOK, Targeted, AllCaptured, Locked, Loaded,
          lockVars
<1>16. ASSUME NEW w \in Writer, Observe(w) PROVE TypeInv'
  <2>1. Return(w, "applied") /\ "applied" \in Outcome
    BY <1>16 DEF Observe, Outcome
  <2>2. TypeOK'
    BY <1>16, <2>1, ReturnTypes DEF Observe, TypeOK
  <2> QED BY <1>16, <2>1, <2>2, ReturnTypes DEF Observe, At, Targeted, AllCaptured, Locked, Loaded
<1>17. ASSUME NEW w \in Writer, ObserveFails(w) PROVE TypeInv'
  <2>1. budget' \in Bounds
    BY <1>17, SpendType DEF ObserveFails, TypeOK
  <2>2. TypeOK'
    BY <1>17, <2>1
    DEF ObserveFails, StartRollback, Goto, TypeOK, lockVars, Control, Outcome, Failure
  <2> QED BY <1>17, <2>2
      DEF ObserveFails, StartRollback, Goto, At, TypeOK, Targeted, AllCaptured, Locked, Loaded,
          lockVars
<1>18. ASSUME NEW w \in Writer, Restore(w) PROVE TypeInv'
  <2> DEFINE receipt == receipts[w][Len(receipts[w])]
  <2>1. receipts[w] \in Seq(Receipt) /\ receipts[w] # <<>>
    BY <1>18 DEF Restore, TypeOK
  <2>2. Len(receipts[w]) \in Nat \ {0} /\ receipt \in Receipt
    BY <2>1
  <2>3. SubSeq(receipts[w], 1, Len(receipts[w]) - 1) \in Seq(Receipt)
    BY <2>1, <2>2, SubSeqProperties
  <2>4. /\ receipts' = [receipts EXCEPT ![w] = SubSeq(@, 1, Len(@) - 1)]
        /\ \/ /\ files' = [files EXCEPT ![receipt.path] = Publication(receipt.prior)]
              /\ clock' = clock + 1
              /\ UNCHANGED <<affected, budget>>
           \/ /\ affected' = [affected EXCEPT ![w] = @ \cup {receipt.path}]
              /\ Spend("faults") \/ UNCHANGED budget
              /\ UNCHANGED <<files, clock>>
    BY <1>18 DEF Restore
  <2> HIDE DEF receipt
  <2>5. receipt.path \in Path /\ Publication(receipt.prior) \in Version
    BY <2>2, PublicationType DEF Receipt, TypeOK
  <2>6. receipts' \in [Writer -> Seq(Receipt)]
    BY <2>3, <2>4 DEF TypeOK
  <2>7. files' \in [Path -> Version] /\ clock' \in Nat \ {0}
    <3>1. files \in [Path -> Version] /\ clock \in Nat \ {0}
      BY DEF TypeOK
    <3> QED BY <2>4, <2>5, <3>1
  <2>8. affected' \in [Writer -> SUBSET Path]
    <3>1. affected \in [Writer -> SUBSET Path]
      BY DEF TypeOK
    <3> QED BY <2>4, <2>5, <3>1
  <2>9. budget' \in Bounds
    BY <2>4, SpendType DEF TypeOK
  <2>10. TypeOK'
    BY <1>18, <2>6, <2>7, <2>8, <2>9 DEF Restore, TypeOK, lockVars
  <2> QED BY <1>18, <2>10 DEF Restore, Targeted, AllCaptured, Locked, Loaded, lockVars
<1>19. ASSUME NEW w \in Writer, FinishRollback(w) PROVE TypeInv'
  <2>1. PICK result \in Outcome : Return(w, result)
    <3>1. outcome[w] \in Outcome /\ "incomplete" \in Outcome
      BY DEF TypeOK, Outcome
    <3> QED BY <1>19, <3>1 DEF FinishRollback
  <2>2. TypeOK'
    BY <1>19, <2>1, ReturnTypes DEF FinishRollback, TypeOK
  <2> QED BY <1>19, <2>1, <2>2, ReturnTypes
      DEF FinishRollback, At, Targeted, AllCaptured, Locked, Loaded
<1>20. ASSUME NEW w \in Writer, Crash(w) PROVE TypeInv'
  <2>1. Nothing \in Capture /\ NoLocks \in LockSet
    BY DEF Nothing, Capture, NoLocks, LockSet
  <2>2. budget' \in Bounds
    BY <1>20, SpendType DEF Crash, TypeOK
  <2>3. TypeOK'
    BY <1>20, <2>1, <2>2 DEF Crash, DropContext, Goto, TypeOK, Control, Outcome
  <2> QED BY <1>20, <2>3
      DEF Crash, DropContext, Goto, TypeOK, Targeted, AllCaptured, Locked, Loaded
<1>21. ASSUME Edit PROVE TypeInv'
  <2>1. PICK p \in Path, doc \in Doc \cup {Absent} :
          files' = [files EXCEPT ![p] = Publication(doc)]
    BY <1>21 DEF Edit
  <2>2. files' \in [Path -> Version] /\ clock' \in Nat \ {0}
    BY <1>21, <2>1, PublicationType DEF Edit, TypeOK
  <2>3. budget' \in Bounds
    BY <1>21, SpendType DEF Edit, TypeOK
  <2>4. TypeOK'
    BY <1>21, <2>2, <2>3 DEF Edit, TypeOK, lockVars
  <2> QED BY <1>21, <2>4 DEF Edit, Targeted, AllCaptured, Locked, Loaded, lockVars
<1>22. ASSUME NEW w \in Writer, Fails(w) PROVE TypeInv'
  <2>1. Return(w, "io") /\ "io" \in Outcome
    BY <1>22 DEF Fails, Outcome, Failure
  <2>2. budget' \in Bounds
    BY <1>22, SpendType DEF Fails, TypeOK
  <2>3. TypeOK'
    BY <1>22, <2>1, <2>2, ReturnTypes DEF Fails, TypeOK
  <2> QED BY <1>22, <2>1, <2>3, ReturnTypes DEF Fails, At, Targeted, AllCaptured, Locked, Loaded
<1>23. CASE UNCHANGED vars
  BY <1>23 DEF vars, lockVars, TypeOK, Targeted, AllCaptured, Locked, Loaded
<1> QED
  BY <1>1, <1>2, <1>3, <1>4, <1>5, <1>6, <1>7, <1>8, <1>9, <1>10, <1>11, <1>12, <1>13, <1>14,
     <1>15, <1>16, <1>17, <1>18, <1>19, <1>20, <1>21, <1>22, <1>23
  DEF Next, Operate, Finished

\* Every variable keeps its type, whatever writers, editors, faults and
\* crashes do.
THEOREM TypeCorrect == Spec => []TypeOK
<1>1. TypeInv => TypeOK
  BY DEF TypeInv
<1> QED BY <1>1, TypeInit, TypeNext, PTL DEF Spec

(***************************************************************************)
(* Locks.  A writer takes its keys in increasing order, so it holds those  *)
(* below some point of what it selected, all of them once it is past       *)
(* locking and none before.                                                *)
(***************************************************************************)
Prefix ==
  \A w \in Writer :
    /\ held[w] \subseteq want[w].keys
    /\ \A k \in held[w], j \in want[w].keys \ held[w] : k < j
    /\ ~ Locked(w) => held[w] = {}
    /\ Locked(w) /\ pc[w] # "lock" => held[w] = want[w].keys

LockInv == Prefix /\ LockExclusion

\* The next key is the least one a writer has not been granted.
LEMMA NextKeyLeast ==
  ASSUME TypeOK, NEW w \in Writer, Missed(w) # {}
  PROVE  /\ NextKey(w) \in Missed(w)
         /\ \A j \in Missed(w) : NextKey(w) <= j
         /\ Missed(w) \subseteq Nat
<1>1. Missed(w) \subseteq Nat
  BY KeysAreNumbers DEF Missed, TypeOK, LockSet
<1>2. \E k \in Missed(w) : \A j \in Missed(w) : k <= j
  BY <1>1, LeastKey
<1> QED BY <1>1, <1>2 DEF NextKey

\* Dropping locks disturbs nobody's locks.
LEMMA DropKeepsLocks ==
  ASSUME TypeOK, LockInv, NEW w \in Writer, DropContext(w),
         pc' \in [Writer -> Control], pc'[w] \in {"idle", "ready"},
         \A v \in Writer \ {w} : pc'[v] = pc[v]
  PROVE  LockInv'
<1>1. /\ held'[w] = {} /\ want'[w] = NoLocks
      /\ \A v \in Writer \ {w} : held'[v] = held[v] /\ want'[v] = want[v]
  BY DEF DropContext, TypeOK
<1>2. Prefix'
  BY <1>1 DEF LockInv, Prefix, Locked, NoLocks
<1>3. LockExclusion'
  BY <1>1 DEF LockInv, LockExclusion
<1> QED BY <1>2, <1>3 DEF LockInv

\* Neither does a step past locking, or before it.
LEMMA MoveKeepsLocks ==
  ASSUME TypeOK, LockInv, NEW w \in Writer, UNCHANGED <<want, held>>,
         \A v \in Writer \ {w} : pc'[v] = pc[v],
         \/ ~ Locked(w) /\ ~ Locked(w)'
         \/ pc[w] = "lock" /\ Missed(w) = {} /\ Locked(w)' /\ pc'[w] # "lock"
         \/ Locked(w) /\ pc[w] # "lock" /\ Locked(w)' /\ pc'[w] # "lock"
  PROVE  LockInv'
<1>1. Prefix'
  BY DEF LockInv, Prefix, Locked, Missed
<1>2. LockExclusion'
  BY DEF LockInv, LockExclusion
<1> QED BY <1>1, <1>2 DEF LockInv

\* Nobody starts with a lock.
LEMMA LockInit == Init => LockInv
BY DEF Init, LockInv, Prefix, LockExclusion, Locked, NoLocks

\* Every step keeps locks in order and exclusive.
LEMMA LockNext == TypeInv /\ LockInv /\ [Next]_vars => LockInv'
<1> SUFFICES ASSUME TypeInv, LockInv, [Next]_vars PROVE LockInv'
  OBVIOUS
<1>0. TypeOK /\ TypeOK'
  BY TypeNext DEF TypeInv
<1>1. ASSUME NEW w \in Writer, Preview(w) \/ Apply(w) PROVE LockInv'
  BY <1>0, <1>1, MoveKeepsLocks DEF Preview, Apply, Goto, At, TypeOK, Locked, lockVars
<1>2. ASSUME NEW w \in Writer, Discover(w) PROVE LockInv'
  <2>1. /\ held' = held /\ held[w] = {}
        /\ \A v \in Writer \ {w} : want'[v] = want[v] /\ pc'[v] = pc[v]
        /\ pc'[w] = "lock"
    BY <1>0, <1>2 DEF Discover, Goto, At, TypeOK, LockInv, Prefix, Locked
  <2>2. Prefix'
    BY <2>1 DEF LockInv, Prefix, Locked
  <2>3. LockExclusion'
    BY <2>1 DEF LockInv, LockExclusion
  <2> QED BY <2>2, <2>3 DEF LockInv
<1>3. ASSUME NEW w \in Writer, Acquire(w) PROVE LockInv'
  <2> DEFINE key == NextKey(w)
  <2>1. /\ key \in Missed(w)
        /\ \A j \in Missed(w) : key <= j
        /\ Missed(w) \subseteq Nat
    BY <1>0, <1>3, NextKeyLeast DEF Acquire
  <2>2. /\ held'[w] = held[w] \cup {key}
        /\ \A v \in Writer \ {w} : held'[v] = held[v]
        /\ pc[w] = "lock"
        /\ UNCHANGED <<want, pc>>
    BY <1>0, <1>3 DEF Acquire, At, TypeOK
  <2>3. \A v \in Writer \ {w} :
          key \in held[v] => key \notin want[v].excl /\ key \notin want[w].excl
    BY <1>3 DEF Acquire, Grantable
  <2> HIDE DEF key
  <2>4. Prefix'
    BY <2>1, <2>2 DEF LockInv, Prefix, Locked, Missed
  <2>5. LockExclusion'
    BY <2>2, <2>3 DEF LockInv, LockExclusion
  <2> QED BY <2>4, <2>5 DEF LockInv
<1>4. ASSUME NEW w \in Writer, Confirm(w) PROVE LockInv'
  BY <1>0, <1>4, MoveKeepsLocks DEF Confirm, Goto, At, TypeOK, Locked
<1>5. ASSUME NEW w \in Writer, NEW result, Return(w, result) PROVE LockInv'
  BY <1>0, <1>5, DropKeepsLocks DEF Return, Goto, TypeOK
<1>6. ASSUME NEW w \in Writer, ReadFiles(w) \/ Prepare(w) \/ Verify(w) PROVE LockInv'
  BY <1>0, <1>6, MoveKeepsLocks DEF ReadFiles, Prepare, Verify, Goto, At, TypeOK, Locked, lockVars
<1>7. ASSUME NEW w \in Writer, Publish(w) \/ Restore(w) PROVE LockInv'
  BY <1>0, <1>7, MoveKeepsLocks DEF Publish, Restore, At, TypeOK, Locked, lockVars
<1>8. ASSUME NEW w \in Writer, PublishFails(w) \/ ObserveFails(w) PROVE LockInv'
  <2>1. PICK cause : StartRollback(w, cause) /\ At(w, "publish")
    BY <1>8 DEF PublishFails, ObserveFails
  <2> QED BY <1>0, <2>1, MoveKeepsLocks DEF StartRollback, Goto, At, TypeOK, Locked, lockVars
<1>9. ASSUME NEW w \in Writer, Crash(w) PROVE LockInv'
  BY <1>0, <1>9, DropKeepsLocks DEF Crash, Goto, TypeOK
<1>10. CASE Edit \/ UNCHANGED vars
  BY <1>10 DEF Edit, vars, lockVars, LockInv, Prefix, LockExclusion, Locked
<1>11. ASSUME NEW w \in Writer,
              \/ Outdated(w) \/ PrepareStale(w) \/ PrepareInvalid(w) \/ Approve(w)
              \/ VerifyStale(w) \/ Fails(w) \/ Observe(w) \/ FinishRollback(w)
       PROVE  LockInv'
  <2>1. \E result : Return(w, result)
    BY <1>11
    DEF Outdated, PrepareStale, PrepareInvalid, Approve, VerifyStale, Fails, Observe,
        FinishRollback
  <2> QED BY <1>5, <2>1
<1> QED
  BY <1>1, <1>2, <1>3, <1>4, <1>6, <1>7, <1>8, <1>9, <1>10, <1>11 DEF Next, Operate, Finished

\* Two writers never hold the same lock file unless both share it, however
\* many there are.
THEOREM LocksExclude == Spec => []LockExclusion
<1>1. LockInv => LockExclusion
  BY DEF LockInv
<1> QED BY <1>1, TypeInit, TypeNext, LockInit, LockNext, PTL DEF Spec

\* Writers never wait for each other in a circle: along every chain of
\* waits the key that is waited for grows.
THEOREM WaitsAreOrdered == Spec => []NoCircularWait
<1>1. TypeInv /\ LockInv => NoCircularWait
  <2> SUFFICES ASSUME TypeInv, LockInv, NEW v \in Writer, NEW w \in Writer,
                      Waiting(v), Waiting(w), NextKey(v) \in held[w]
               PROVE  NextKey(v) < NextKey(w)
    BY DEF NoCircularWait
  <2>1. NextKey(w) \in Missed(w)
    BY NextKeyLeast DEF TypeInv, Waiting
  <2> QED BY <2>1 DEF LockInv, Prefix, Missed
<1> QED BY <1>1, TypeInit, TypeNext, LockInit, LockNext, PTL DEF Spec

(***************************************************************************)
(* What locks are worth.  A file is written only by a writer that holds it *)
(* exclusively, and so nobody else has captured it.                        *)
(***************************************************************************)
Writing(w) == pc[w] \in {"publish", "rollback"}

\* Only applications write, and a receipt is for a target of the batch and
\* remembers what was captured there.
Receipted ==
  \A w \in Writer :
    /\ Writing(w) \/ pc[w] = "verify" => applying[w]
    /\ ~ Writing(w) => receipts[w] = <<>>
    /\ \A i \in DOMAIN receipts[w] :
         /\ receipts[w][i].path \in DOMAIN batch[w]
         /\ receipts[w][i].prior = seen[w][receipts[w][i].path].doc

EditsSpent == budget.edits <= MaxEdits

\* No edit has happened and nothing is published at the start.
LEMMA SpentInit == Init => EditsSpent /\ Receipted
BY MutationAssumption DEF Init, EditsSpent, Receipted, Writing

\* Nothing but an edit spends the edits.
LEMMA OnlyEditsSpend ==
  ASSUME TypeInv, EditsSpent, [Next]_vars
  PROVE  /\ EditsSpent'
         /\ Edit => ~ Undisturbed'
         /\ ~ Edit => budget'.edits = budget.edits
<1>1. budget \in Bounds /\ budget.edits \in Nat /\ MaxEdits \in Nat
  BY MutationAssumption DEF TypeInv, TypeOK, Bounds
<1>2. ASSUME NEW w \in Writer, Preview(w) \/ Apply(w) PROVE budget'.edits = budget.edits
  BY <1>1, <1>2, SpendTurnType DEF Preview, Apply
<1>3. ASSUME NEW w \in Writer, Operate(w) PROVE budget'.edits = budget.edits
  <2>1. CASE Fails(w) \/ Publish(w) \/ PublishFails(w) \/ ObserveFails(w) \/ Restore(w)
    BY <1>1, <2>1, SpendType DEF Fails, Publish, PublishFails, ObserveFails, Restore
  <2>2. CASE \/ Discover(w) \/ Acquire(w) \/ Confirm(w) \/ Outdated(w) \/ ReadFiles(w)
             \/ PrepareStale(w) \/ PrepareInvalid(w) \/ Approve(w) \/ Prepare(w)
             \/ Verify(w) \/ VerifyStale(w) \/ Observe(w) \/ FinishRollback(w)
    BY <2>2
    DEF Discover, Acquire, Confirm, Outdated, ReadFiles, PrepareStale, PrepareInvalid, Approve,
        Prepare, Verify, VerifyStale, Observe, FinishRollback
  <2> QED BY <1>3, <2>1, <2>2 DEF Operate
<1>4. ASSUME NEW w \in Writer, Crash(w) PROVE budget'.edits = budget.edits
  BY <1>1, <1>4, SpendType DEF Crash
<1>5. ASSUME Edit PROVE EditsSpent' /\ ~ Undisturbed'
  <2>1. budget'.edits = budget.edits - 1
    BY <1>1, <1>5, SpendType DEF Edit
  <2> QED BY <1>1, <2>1 DEF EditsSpent, Undisturbed
<1>6. UNCHANGED vars => budget'.edits = budget.edits
  BY DEF vars
<1>7. ~ Edit => budget'.edits = budget.edits
  BY <1>2, <1>3, <1>4, <1>6 DEF Next, Finished
<1> QED BY <1>1, <1>5, <1>7 DEF EditsSpent

\* A publication writes a target of the writer's own batch.
LEMMA PublishTarget ==
  ASSUME TypeInv, Receipted, NEW w \in Writer, Publish(w)
  PROVE  /\ \E p \in DOMAIN batch[w] \cap Path :
              /\ files' = [files EXCEPT ![p] = Publication(batch[w][p].doc)]
              /\ Published(w)' = Published(w) \cup {p}
         /\ Receipted'
<1>0. PICK p \in Unpublished(w) :
        /\ files' = [files EXCEPT ![p] = Publication(batch[w][p].doc)]
        /\ \E rev : receipts' = [receipts EXCEPT ![w] = Append(@,
             [path |-> p, prior |-> seen[w][p].doc, written |-> batch[w][p].doc, rev |-> rev])]
  BY DEF Publish
<1>1. PICK rev :
        receipts' = [receipts EXCEPT ![w] = Append(@,
          [path |-> p, prior |-> seen[w][p].doc, written |-> batch[w][p].doc, rev |-> rev])]
  BY <1>0
<1> DEFINE receipt ==
  [path |-> p, prior |-> seen[w][p].doc, written |-> batch[w][p].doc, rev |-> rev]
<1>2. p \in DOMAIN batch[w] \cap Path
  BY RequestType DEF Publish, At, Unpublished, TypeInv, Targeted
<1>3. receipts[w] \in Seq(Receipt) /\ receipts'[w] = Append(receipts[w], receipt)
  BY <1>1 DEF TypeInv, TypeOK
<1>4. /\ DOMAIN receipts'[w] = DOMAIN receipts[w] \cup {Len(receipts[w]) + 1}
      /\ \A i \in DOMAIN receipts[w] : receipts'[w][i] = receipts[w][i]
      /\ receipts'[w][Len(receipts[w]) + 1] = receipt
  <2> HIDE DEF receipt
  <2> QED BY <1>3
<1>5. Published(w)' = Published(w) \cup {p}
  BY <1>4 DEF Published
<1>6. Receipted'
  <2>1. UNCHANGED <<pc, batch, applying, seen>> /\ pc[w] = "publish"
    BY DEF Publish, At, lockVars
  <2>2. \A v \in Writer \ {w} : receipts'[v] = receipts[v]
    BY <1>1 DEF TypeInv, TypeOK
  <2> QED BY <1>2, <1>4, <2>1, <2>2 DEF Receipted, Writing
<1> QED BY <1>0, <1>2, <1>5, <1>6

\* A rollback puts back what was captured, or reports the target.
LEMMA RestoreTarget ==
  ASSUME TypeInv, Receipted, NEW w \in Writer, Restore(w)
  PROVE  /\ \E p \in DOMAIN batch[w] \cap Path :
              /\ Published(w) \subseteq Published(w)' \cup {p}
              /\ \/ /\ files' = [files EXCEPT ![p] = Publication(seen[w][p].doc)]
                    /\ UNCHANGED affected
                 \/ /\ UNCHANGED files
                    /\ affected' = [affected EXCEPT ![w] = @ \cup {p}]
         /\ Receipted'
<1> DEFINE last == Len(receipts[w])
           receipt == receipts[w][last]
<1>1. receipts[w] \in Seq(Receipt) /\ receipts[w] # <<>>
  BY DEF Restore, TypeInv, TypeOK
<1>2. last \in Nat \ {0} /\ DOMAIN receipts[w] = 1 .. last
  BY <1>1
<1>3. receipt.path \in DOMAIN batch[w] \cap Path /\ receipt.prior = seen[w][receipt.path].doc
  BY <1>1, <1>2, RequestType DEF Receipted, Restore, At, TypeInv, Targeted
<1>4. receipts'[w] = SubSeq(receipts[w], 1, last - 1)
  BY DEF Restore, TypeInv, TypeOK
<1>5. /\ DOMAIN receipts'[w] = 1 .. (last - 1)
      /\ \A i \in 1 .. (last - 1) : receipts'[w][i] = receipts[w][i]
  BY <1>1, <1>2, <1>4, SubSeqProperties
<1>6. Published(w) \subseteq Published(w)' \cup {receipt.path}
  BY <1>2, <1>5 DEF Published
<1>7. Receipted'
  <2>1. UNCHANGED <<pc, batch, applying, seen>> /\ pc[w] = "rollback"
    BY DEF Restore, At, lockVars
  <2>2. \A v \in Writer \ {w} : receipts'[v] = receipts[v]
    BY DEF Restore, TypeInv, TypeOK
  <2>3. \A i \in DOMAIN receipts'[w] :
          i \in DOMAIN receipts[w] /\ receipts'[w][i] = receipts[w][i]
    <3> HIDE DEF last
    <3> QED BY <1>2, <1>5
  <2> HIDE DEF last, receipt
  <2> QED BY <2>1, <2>2, <2>3 DEF Receipted, Writing
<1>8. \/ /\ files' = [files EXCEPT ![receipt.path] = Publication(receipt.prior)]
         /\ UNCHANGED affected
      \/ /\ UNCHANGED files
         /\ affected' = [affected EXCEPT ![w] = @ \cup {receipt.path}]
  BY DEF Restore
<1> QED BY <1>3, <1>6, <1>7, <1>8

\* A writer that returns or crashes has nothing left to take back.
LEMMA EmptyKeepsReceipted ==
  ASSUME TypeInv, Receipted, NEW w \in Writer,
         receipts'[w] = <<>>,
         pc'[w] \notin {"publish", "rollback"},
         pc'[w] = "verify" => applying'[w],
         \A v \in Writer \ {w} : /\ pc'[v] = pc[v] /\ applying'[v] = applying[v]
                                 /\ batch'[v] = batch[v] /\ seen'[v] = seen[v]
                                 /\ receipts'[v] = receipts[v]
  PROVE  Receipted'
BY DEF Receipted, Writing

\* Every step keeps receipts true to batch and capture.
LEMMA ReceiptedNext == TypeInv /\ Receipted /\ [Next]_vars => Receipted'
<1> SUFFICES ASSUME TypeInv, Receipted, [Next]_vars PROVE Receipted'
  OBVIOUS
<1>0. TypeOK /\ \A w \in Writer : ~ Writing(w) => receipts[w] = <<>>
  BY DEF TypeInv, Receipted
<1>1. ASSUME NEW w \in Writer, Preview(w) \/ Apply(w) PROVE Receipted'
  BY <1>0, <1>1, EmptyKeepsReceipted DEF Preview, Apply, Goto, At, TypeOK, Writing, lockVars
<1>2. ASSUME NEW w \in Writer, Discover(w) \/ Acquire(w) \/ Confirm(w) \/ ReadFiles(w)
      PROVE  Receipted'
  BY <1>0, <1>2, EmptyKeepsReceipted
  DEF Discover, Acquire, Confirm, ReadFiles, Goto, At, TypeOK, Writing
<1>3. ASSUME NEW w \in Writer,
             \/ Outdated(w) \/ PrepareStale(w) \/ PrepareInvalid(w) \/ Approve(w)
             \/ VerifyStale(w) \/ Fails(w) \/ Observe(w) \/ FinishRollback(w)
      PROVE  Receipted'
  <2>1. PICK result : Return(w, result)
    BY <1>3
    DEF Outdated, PrepareStale, PrepareInvalid, Approve, VerifyStale, Fails, Observe,
        FinishRollback
  <2>2. /\ receipts'[w] = <<>>
        /\ \A v \in Writer \ {w} : receipts'[v] = receipts[v]
        /\ UNCHANGED <<batch, applying>>
    BY <1>0, <1>3
    DEF Outdated, PrepareStale, PrepareInvalid, Approve, VerifyStale, Fails, Observe,
        FinishRollback,
        At, TypeOK, Writing
  <2> QED BY <1>0, <2>1, <2>2, EmptyKeepsReceipted DEF Return, DropContext, Goto, TypeOK
<1>4. ASSUME NEW w \in Writer, Prepare(w) PROVE Receipted'
  BY <1>0, <1>4, EmptyKeepsReceipted DEF Prepare, Goto, At, TypeOK, Writing, lockVars
<1>5. ASSUME NEW w \in Writer, Verify(w) PROVE Receipted'
  BY <1>0, <1>5 DEF Verify, Goto, At, TypeOK, Receipted, Writing, lockVars
<1>6. ASSUME NEW w \in Writer, Publish(w) PROVE Receipted'
  BY <1>6, PublishTarget
<1>7. ASSUME NEW w \in Writer, Restore(w) PROVE Receipted'
  BY <1>7, RestoreTarget
<1>8. ASSUME NEW w \in Writer, PublishFails(w) \/ ObserveFails(w) PROVE Receipted'
  <2>1. PICK cause : StartRollback(w, cause) /\ At(w, "publish")
    BY <1>8 DEF PublishFails, ObserveFails
  <2> QED BY <1>0, <2>1 DEF StartRollback, Goto, At, TypeOK, Receipted, Writing, lockVars
<1>9. ASSUME NEW w \in Writer, Crash(w) PROVE Receipted'
  BY <1>0, <1>9, EmptyKeepsReceipted DEF Crash, DropContext, Goto, TypeOK
<1>10. CASE Edit \/ UNCHANGED vars
  BY <1>10 DEF Edit, vars, lockVars, Receipted, Writing
<1> QED
  BY <1>1, <1>2, <1>3, <1>4, <1>5, <1>6, <1>7, <1>8, <1>9, <1>10 DEF Next, Operate, Finished

\* What one writer may write, no other has captured.
LEMMA KeptOut ==
  ASSUME TypeInv, LockInv, Receipted,
         NEW v \in Writer, NEW w \in Writer, v # w, Writing(v), Loaded(w)
  PROVE  DOMAIN batch[v] \cap Read(w) = {}
<1>1. DOMAIN batch[v] \subseteq held[v] \cap want[v].excl
  BY DEF TypeInv, Targeted, LockInv, Prefix, Receipted, Writing, Locked
<1>2. Read(w) \subseteq held[w]
  BY DEF TypeInv, AllCaptured, LockInv, Prefix, Loaded, Locked, Read
<1> QED BY <1>1, <1>2 DEF LockInv, LockExclusion

\* The files of the captures that are under way are what was captured.
Current ==
  \A w \in Writer : Loaded(w) =>
    \A p \in Read(w) \ (Published(w) \cup affected[w]) : files[p].doc = seen[w][p].doc

\* Current is what CapturesCurrent says while nobody has edited.
LEMMA CurrentIsCapturesCurrent == CapturesCurrent <=> (Undisturbed => Current)
BY DEF CapturesCurrent, Current, Loaded

\* A step that writes no file and captures none leaves captures current.
LEMMA QuietKeepsCurrent ==
  ASSUME Current, NEW w \in Writer, UNCHANGED files,
         \A v \in Writer \ {w} : /\ pc'[v] = pc[v] /\ seen'[v] = seen[v]
                                 /\ receipts'[v] = receipts[v] /\ affected'[v] = affected[v],
         Loaded(w)' => /\ Loaded(w)
                       /\ seen'[w] = seen[w] /\ receipts'[w] = receipts[w]
                       /\ affected'[w] = affected[w]
  PROVE  Current'
BY DEF Current, Loaded, Read, Published

\* No step but an edit changes a captured file under its writer.
LEMMA CurrentNext ==
  ASSUME TypeInv, LockInv, Receipted, Current, [Next]_vars, ~ Edit
  PROVE  Current'
<1>0. TypeOK
  BY DEF TypeInv
<1>1. ASSUME NEW w \in Writer, Preview(w) \/ Apply(w) PROVE Current'
  BY <1>0, <1>1, QuietKeepsCurrent DEF Preview, Apply, Goto, TypeOK, Loaded, lockVars
<1>2. ASSUME NEW w \in Writer, Discover(w) \/ Acquire(w) \/ Confirm(w) PROVE Current'
  BY <1>0, <1>2, QuietKeepsCurrent DEF Discover, Acquire, Confirm, Goto, At, TypeOK, Loaded
<1>3. ASSUME NEW w \in Writer, ReadFiles(w) PROVE Current'
  <2>1. /\ \A p \in Path : seen'[w][p] # Unread => seen'[w][p] = files[p]
        /\ \A v \in Writer \ {w} : seen'[v] = seen[v] /\ pc'[v] = pc[v]
        /\ UNCHANGED <<files, receipts, affected>>
    BY <1>0, <1>3 DEF ReadFiles, Goto, TypeOK
  <2> QED BY <2>1 DEF Current, Loaded, Read, Published
<1>4. ASSUME NEW w \in Writer, NEW result, Return(w, result), UNCHANGED <<files, affected>>,
             \A v \in Writer \ {w} : receipts'[v] = receipts[v]
      PROVE  Current'
  BY <1>0, <1>4, QuietKeepsCurrent DEF Return, DropContext, Goto, TypeOK, Loaded
<1>5. ASSUME NEW w \in Writer,
             \/ Outdated(w) \/ PrepareStale(w) \/ PrepareInvalid(w) \/ Approve(w)
             \/ VerifyStale(w) \/ Fails(w) \/ Observe(w) \/ FinishRollback(w)
      PROVE  Current'
  <2>1. /\ \E result : Return(w, result)
        /\ UNCHANGED <<files, affected>>
        /\ \A v \in Writer \ {w} : receipts'[v] = receipts[v]
    BY <1>0, <1>5
    DEF Outdated, PrepareStale, PrepareInvalid, Approve, VerifyStale, Fails, Observe,
        FinishRollback,
        TypeOK
  <2> QED BY <1>4, <2>1
<1>6. ASSUME NEW w \in Writer, Prepare(w) \/ Verify(w) PROVE Current'
  BY <1>0, <1>6, QuietKeepsCurrent DEF Prepare, Verify, Goto, At, TypeOK, Loaded, lockVars
<1>7. ASSUME NEW w \in Writer, PublishFails(w) \/ ObserveFails(w) PROVE Current'
  <2>1. PICK cause : StartRollback(w, cause) /\ At(w, "publish")
    BY <1>7 DEF PublishFails, ObserveFails
  <2> QED BY <1>0, <2>1, QuietKeepsCurrent DEF StartRollback, Goto, At, TypeOK, Loaded, lockVars
<1>8. ASSUME NEW w \in Writer, Publish(w) PROVE Current'
  <2>1. PICK p \in DOMAIN batch[w] \cap Path :
          /\ \A q \in Path \ {p} : files'[q] = files[q]
          /\ Published(w)' = Published(w) \cup {p}
    BY <1>0, <1>8, PublishTarget DEF TypeOK
  <2>2. /\ UNCHANGED <<pc, seen, affected>> /\ Writing(w)
        /\ \A v \in Writer \ {w} : receipts'[v] = receipts[v]
    BY <1>0, <1>8 DEF Publish, At, TypeOK, lockVars, Writing
  <2>3. \A v \in Writer \ {w} : Loaded(v) => p \notin Read(v)
    BY <2>1, <2>2, KeptOut
  <2>4. SUFFICES ASSUME NEW v \in Writer, Loaded(v)',
                        NEW q \in (Read(v) \ (Published(v) \cup affected[v]))'
                 PROVE  files'[q].doc = seen'[v][q].doc
    BY DEF Current
  <2>5. Loaded(v) /\ q \in Read(v) /\ q \in Path /\ q \notin affected[v]
    BY <2>2, <2>4 DEF Loaded, Read
  <2>6. q # p /\ q \notin Published(v)
    <3>1. CASE v = w
      BY <2>1, <2>4, <3>1
    <3>2. CASE v # w
      BY <2>2, <2>3, <2>4, <2>5, <3>2 DEF Published
    <3> QED BY <3>1, <3>2
  <2> QED BY <2>1, <2>2, <2>5, <2>6 DEF Current
<1>9. ASSUME NEW w \in Writer, Restore(w) PROVE Current'
  <2>1. PICK p \in DOMAIN batch[w] \cap Path :
          /\ Published(w) \subseteq Published(w)' \cup {p}
          /\ \/ /\ files' = [files EXCEPT ![p] = Publication(seen[w][p].doc)]
                /\ UNCHANGED affected
             \/ /\ UNCHANGED files
                /\ affected' = [affected EXCEPT ![w] = @ \cup {p}]
    BY <1>9, RestoreTarget
  <2>2. /\ UNCHANGED <<pc, seen>> /\ Writing(w)
        /\ \A v \in Writer \ {w} : receipts'[v] = receipts[v] /\ affected'[v] = affected[v]
    BY <1>0, <1>9 DEF Restore, At, TypeOK, lockVars, Writing
  <2>3. \A v \in Writer \ {w} : Loaded(v) => p \notin Read(v)
    BY <2>1, <2>2, KeptOut
  <2>4. /\ \A q \in Path \ {p} : files'[q] = files[q]
        /\ files'[p].doc = seen[w][p].doc \/ p \in affected'[w]
        /\ affected[w] \subseteq affected'[w]
    BY <1>0, <2>1 DEF TypeOK, Publication, Missing
  <2>5. ASSUME NEW v \in Writer \ {w}, Loaded(v)',
               NEW q \in (Read(v) \ (Published(v) \cup affected[v]))'
        PROVE  files'[q].doc = seen'[v][q].doc
    BY <2>2, <2>3, <2>4, <2>5 DEF Current, Loaded, Read, Published
  <2>6. ASSUME NEW q \in (Read(w) \ (Published(w) \cup affected[w]))'
        PROVE  files'[q].doc = seen'[w][q].doc
    <3>1. q \in Path /\ q \in Read(w) /\ q \notin affected[w] /\ q \notin affected'[w]
      BY <2>2, <2>4, <2>6 DEF Read
    <3>2. CASE q = p
      BY <2>2, <2>4, <3>1, <3>2
    <3>3. CASE q # p
      <4>1. q \notin Published(w)
        BY <2>1, <2>6, <3>3
      <4> QED BY <2>2, <2>4, <3>1, <3>3, <4>1 DEF Current, Loaded, Writing
    <3> QED BY <3>2, <3>3
  <2>7. SUFFICES ASSUME NEW v \in Writer, Loaded(v)',
                        NEW q \in (Read(v) \ (Published(v) \cup affected[v]))'
                 PROVE  files'[q].doc = seen'[v][q].doc
    BY DEF Current
  <2> QED BY <2>5, <2>6, <2>7
<1>10. ASSUME NEW w \in Writer, Crash(w) PROVE Current'
  BY <1>0, <1>10, QuietKeepsCurrent DEF Crash, DropContext, Goto, TypeOK, Loaded
<1>11. CASE UNCHANGED vars
  BY <1>11 DEF vars, lockVars, Current, Loaded, Read, Published
<1> QED
  BY <1>1, <1>2, <1>3, <1>5, <1>6, <1>7, <1>8, <1>9, <1>10, <1>11 DEF Next, Operate, Finished

\* So CapturesCurrent is kept: an edit ends the premise for good.
LEMMA CapturesCurrentNext ==
  TypeInv /\ LockInv /\ EditsSpent /\ Receipted /\ CapturesCurrent /\ [Next]_vars
    => CapturesCurrent'
<1> SUFFICES ASSUME TypeInv, LockInv, EditsSpent, Receipted, CapturesCurrent, [Next]_vars,
                    Undisturbed'
             PROVE  Current'
  BY DEF CapturesCurrent, Current, Loaded
<1>1. ~ Edit /\ Undisturbed
  BY OnlyEditsSpend DEF Undisturbed
<1>2. Current
  BY <1>1, CurrentIsCapturesCurrent
<1> QED BY <1>1, <1>2, CurrentNext

\* As long as every editor takes the locks, what an application or a preview
\* has captured stays what is on disk until that writer itself writes it,
\* while any number of other writers publish and roll back: nobody decides
\* on a file that changed under it.
THEOREM CapturesStayCurrent == Spec => []CapturesCurrent
<1>1. Init => CapturesCurrent
  BY DEF Init, CapturesCurrent
<1>2. TypeInv /\ EditsSpent /\ [Next]_vars => EditsSpent'
  BY OnlyEditsSpend
<1> QED
  BY <1>1, <1>2, TypeInit, TypeNext, LockInit, LockNext, SpentInit, ReceiptedNext,
     CapturesCurrentNext, PTL
  DEF Spec

(***************************************************************************)
(* Approvals.  A batch is published on what its preview captured, whatever *)
(* editors, faults and crashes do.  The engine only compares revisions:    *)
(* the argument is that a revision that was seen at a path and is there    *)
(* now still belongs to the same version of the file.                      *)
(***************************************************************************)

\* What is known of a version that was read at a path: it is older than the
\* clock, only absent files share a revision, and where its revision is
\* that of the file, it is the file.
Known(version, p) ==
  /\ version.rev < clock
  /\ version.rev = 0 => version = Missing
  /\ version.rev = files[p].rev => version = files[p]

Stamped ==
  /\ \A p \in Path : Known(files[p], p)
  /\ \A w \in Writer, p \in Path :
       /\ seen[w][p] # Unread => Known(seen[w][p], p)
       /\ approved[w][p] # Unread => Known(approved[w][p], p)

\* A writer that is about to verify has compared its capture with its preview.
Compared == \A w \in Writer : pc[w] = "verify" => AsApproved(w)

\* No version is taken for one that was not captured.
LEMMA UnreadIsNoVersion == Unread \notin Version /\ Missing \in Version
BY MutationAssumption DEF Version, Missing

\* The revision of a new version was never seen before.
LEMMA WriteKeepsStamped ==
  ASSUME TypeOK, Stamped, NEW q \in Path, NEW doc \in Doc \cup {Absent},
         files' = [files EXCEPT ![q] = Publication(doc)], clock' = clock + 1,
         UNCHANGED <<seen, approved>>
  PROVE  Stamped'
<1>1. /\ clock \in Nat \ {0}
      /\ files \in [Path -> Version]
      /\ \A w \in Writer, p \in Path : /\ seen[w][p] \in Version \cup {Unread}
                                       /\ approved[w][p] \in Version \cup {Unread}
  BY DEF TypeOK, Capture
<1>2. ASSUME NEW version \in Version, NEW p \in Path, Known(version, p)
      PROVE  Known(version, p)'
  <2>1. version.rev \in Nat /\ version.rev < clock'
    BY <1>1, <1>2 DEF Known, Version
  <2>2. CASE p # q
    <3>1. files'[p] = files[p]
      BY <1>1, <2>2
    <3> QED BY <1>2, <2>1, <3>1 DEF Known, Missing
  <2>3. CASE p = q
    <3>1. files'[p] = Publication(doc)
      BY <1>1, <2>3
    <3>2. CASE doc = Absent
      <4>1. files'[p] = Missing /\ files'[p].rev = 0
        BY <3>1, <3>2 DEF Publication, Missing
      <4> QED BY <1>2, <2>1, <4>1 DEF Known, Missing
    <3>3. CASE doc # Absent
      <4>1. files'[p].rev = clock
        BY <3>1, <3>3 DEF Publication
      <4>2. version.rev # files'[p].rev
        BY <1>1, <1>2, <2>1, <4>1 DEF Known
      <4> QED BY <1>2, <2>1, <4>2 DEF Known, Missing
    <3> QED BY <3>2, <3>3
  <2> QED BY <2>2, <2>3
<1>3. \A p \in Path : Known(files[p], p)'
  <2> SUFFICES ASSUME NEW p \in Path PROVE Known(files[p], p)'
    OBVIOUS
  <2>1. CASE p # q
    <3>1. files'[p] = files[p] /\ files[p] \in Version
      BY <1>1, <2>1
    <3> QED BY <1>1, <2>1, <3>1 DEF Stamped, Known, Missing, Version
  <2>2. CASE p = q
    <3>1. files'[p] = Publication(doc)
      BY <1>1, <2>2
    <3> QED BY <1>1, <3>1 DEF Known, Publication, Missing
  <2> QED BY <2>1, <2>2
<1>4. ASSUME NEW w \in Writer, NEW p \in Path
      PROVE  /\ (seen[w][p] # Unread => Known(seen[w][p], p))'
             /\ (approved[w][p] # Unread => Known(approved[w][p], p))'
  <2>1. seen'[w][p] = seen[w][p] /\ approved'[w][p] = approved[w][p]
    OBVIOUS
  <2>2. seen[w][p] # Unread => Known(seen[w][p], p)'
    BY <1>1, <1>2 DEF Stamped
  <2>3. approved[w][p] # Unread => Known(approved[w][p], p)'
    BY <1>1, <1>2 DEF Stamped
  <2> QED BY <2>1, <2>2, <2>3 DEF Known, Missing
<1> QED BY <1>3, <1>4 DEF Stamped

\* A step that writes no file captures what is there, approves what was
\* captured, or forgets.
LEMMA CaptureKeepsStamped ==
  ASSUME Stamped, UNCHANGED <<files, clock>>,
         \A w \in Writer, p \in Path :
           /\ seen'[w][p] \in {Unread, seen[w][p], files[p]}
           /\ approved'[w][p] \in {Unread, approved[w][p], seen[w][p]}
  PROVE  Stamped'
<1>1. ASSUME NEW version, NEW p \in Path, Known(version, p) PROVE Known(version, p)'
  BY <1>1 DEF Known, Missing
<1>2. \A p \in Path : Known(files[p], p)'
  BY <1>1 DEF Stamped, Known, Missing
<1>3. ASSUME NEW w \in Writer, NEW p \in Path
      PROVE  /\ (seen[w][p] # Unread => Known(seen[w][p], p))'
             /\ (approved[w][p] # Unread => Known(approved[w][p], p))'
  <2>1. seen'[w][p] # Unread => Known(seen'[w][p], p)
    BY DEF Stamped
  <2>2. approved'[w][p] # Unread => Known(approved'[w][p], p)
    BY DEF Stamped
  <2> QED BY <2>1, <2>2 DEF Known, Missing
<1> QED BY <1>2, <1>3 DEF Stamped

\* The files that are found have been there before the first step.
LEMMA StampedInit == Init => Stamped /\ Compared
BY MutationAssumption DEF Init, Stamped, Known, Missing, Compared, Nothing

\* Every step keeps what is known of the versions that were read.
LEMMA StampedNext == TypeInv /\ Stamped /\ [Next]_vars => Stamped'
<1> SUFFICES ASSUME TypeInv, Stamped, [Next]_vars PROVE Stamped'
  OBVIOUS
<1>0. /\ TypeOK
      /\ seen \in [Writer -> Capture] /\ approved \in [Writer -> Capture]
      /\ receipts \in [Writer -> Seq(Receipt)]
  BY DEF TypeInv, TypeOK
<1>1. ASSUME NEW w \in Writer, Preview(w) \/ Apply(w) PROVE Stamped'
  <2>1. UNCHANGED <<files, clock, seen>>
    BY <1>1 DEF Preview, Apply, lockVars
  <2>2. approved' = approved \/ approved' = [approved EXCEPT ![w] = Nothing]
    BY <1>1 DEF Preview, Apply
  <2>3. \A v \in Writer, p \in Path : approved'[v][p] \in {Unread, approved[v][p]}
    BY <1>0, <2>2 DEF Nothing
  <2> QED BY <2>1, <2>3, CaptureKeepsStamped
<1>2. ASSUME NEW w \in Writer,
             Discover(w) \/ Acquire(w) \/ Confirm(w) \/ Prepare(w) \/ Verify(w)
      PROVE  Stamped'
  BY <1>2, CaptureKeepsStamped DEF Discover, Acquire, Confirm, Prepare, Verify, lockVars
<1>3. ASSUME NEW w \in Writer, ReadFiles(w) PROVE Stamped'
  BY <1>0, <1>3, CaptureKeepsStamped DEF ReadFiles
<1>4. ASSUME NEW w \in Writer,
             \/ Outdated(w) \/ PrepareStale(w) \/ PrepareInvalid(w)
             \/ VerifyStale(w) \/ Fails(w) \/ Observe(w) \/ FinishRollback(w)
      PROVE  Stamped'
  <2>1. PICK result : Return(w, result)
    BY <1>4 DEF Outdated, PrepareStale, PrepareInvalid, VerifyStale, Fails, Observe, FinishRollback
  <2>2. UNCHANGED <<files, clock, approved>>
    BY <1>4 DEF Outdated, PrepareStale, PrepareInvalid, VerifyStale, Fails, Observe, FinishRollback
  <2> QED BY <1>0, <2>1, <2>2, CaptureKeepsStamped DEF Return, DropContext, Nothing
<1>5. ASSUME NEW w \in Writer, Approve(w) PROVE Stamped'
  BY <1>0, <1>5, CaptureKeepsStamped DEF Approve, Return, DropContext, Nothing
<1>6. ASSUME NEW w \in Writer, Publish(w) PROVE Stamped'
  <2>1. PICK p \in Unpublished(w) :
          files' = [files EXCEPT ![p] = Publication(batch[w][p].doc)] /\ clock' = clock + 1
    BY <1>6 DEF Publish
  <2>2. p \in Path /\ batch[w][p].doc \in Doc \cup {Absent}
    BY <1>6, <2>1, RequestType DEF Publish, At, Unpublished, TypeInv, Targeted
  <2> QED BY <1>0, <1>6, <2>1, <2>2, WriteKeepsStamped DEF Publish, lockVars
<1>7. ASSUME NEW w \in Writer, Restore(w) PROVE Stamped'
  <2> DEFINE receipt == receipts[w][Len(receipts[w])]
  <2>1. receipt \in Receipt
    BY <1>0, <1>7 DEF Restore
  <2>2. receipt.path \in Path /\ receipt.prior \in Doc \cup {Absent}
    BY <2>1 DEF Receipt
  <2>3. UNCHANGED <<seen, approved>>
    BY <1>7 DEF Restore, lockVars
  <2>4. \/ /\ files' = [files EXCEPT ![receipt.path] = Publication(receipt.prior)]
           /\ clock' = clock + 1
        \/ UNCHANGED <<files, clock>>
    BY <1>7 DEF Restore
  <2> HIDE DEF receipt
  <2> QED BY <1>0, <2>2, <2>3, <2>4, WriteKeepsStamped, CaptureKeepsStamped
<1>8. ASSUME NEW w \in Writer, PublishFails(w) \/ ObserveFails(w) PROVE Stamped'
  BY <1>8, CaptureKeepsStamped DEF PublishFails, ObserveFails, StartRollback, lockVars
<1>9. ASSUME NEW w \in Writer, Crash(w) PROVE Stamped'
  BY <1>0, <1>9, CaptureKeepsStamped DEF Crash, DropContext, Nothing
<1>10. CASE Edit
  <2>1. PICK p \in Path, doc \in Doc \cup {Absent} :
          files' = [files EXCEPT ![p] = Publication(doc)] /\ clock' = clock + 1
    BY <1>10 DEF Edit
  <2> QED BY <1>0, <1>10, <2>1, WriteKeepsStamped DEF Edit, lockVars
<1>11. CASE UNCHANGED vars
  BY <1>11, CaptureKeepsStamped DEF vars, lockVars
<1> QED
  BY <1>1, <1>2, <1>3, <1>4, <1>5, <1>6, <1>7, <1>8, <1>9, <1>10, <1>11
  DEF Next, Operate, Finished

\* A writer reaches its last look from preparation, past the comparison.
LEMMA MoveKeepsCompared ==
  ASSUME Compared, NEW w \in Writer,
         \A v \in Writer \ {w} : /\ pc'[v] = pc[v] /\ seen'[v] = seen[v]
                                 /\ approved'[v] = approved[v],
         pc'[w] = "verify" => /\ AsApproved(w)
                              /\ seen'[w] = seen[w] /\ approved'[w] = approved[w]
  PROVE  Compared'
<1> SUFFICES ASSUME NEW v \in Writer, pc'[v] = "verify" PROVE AsApproved(v)'
  BY DEF Compared
<1>1. AsApproved(v) /\ seen'[v] = seen[v] /\ approved'[v] = approved[v]
  BY DEF Compared
<1> QED BY <1>1 DEF AsApproved

\* Every step keeps the comparison that a writer has made.
LEMMA ComparedNext == TypeInv /\ Compared /\ [Next]_vars => Compared'
<1> SUFFICES ASSUME TypeInv, Compared, [Next]_vars PROVE Compared'
  OBVIOUS
<1>0. /\ seen \in [Writer -> Capture] /\ approved \in [Writer -> Capture]
      /\ pc \in [Writer -> Control]
      /\ applying \in [Writer -> BOOLEAN]
  BY DEF TypeInv, TypeOK
<1>1. ASSUME NEW w \in Writer,
             Preview(w) \/ Apply(w) \/ Discover(w) \/ Confirm(w) \/ ReadFiles(w) \/ Crash(w)
      PROVE  Compared'
  BY <1>0, <1>1, MoveKeepsCompared
  DEF Preview, Apply, Discover, Confirm, ReadFiles, Crash, DropContext, Goto, lockVars
<1>2. ASSUME NEW w \in Writer, Acquire(w) \/ Publish(w) \/ Restore(w) PROVE Compared'
  BY <1>2 DEF Acquire, Publish, Restore, Compared, AsApproved, lockVars
<1>3. ASSUME NEW w \in Writer,
             \/ Outdated(w) \/ PrepareStale(w) \/ PrepareInvalid(w) \/ Approve(w)
             \/ VerifyStale(w) \/ Fails(w) \/ Observe(w) \/ FinishRollback(w)
      PROVE  Compared'
  <2>1. PICK result : Return(w, result)
    BY <1>3
    DEF Outdated, PrepareStale, PrepareInvalid, Approve, VerifyStale, Fails, Observe,
        FinishRollback
  <2>2. \A v \in Writer \ {w} : approved'[v] = approved[v]
    BY <1>0, <1>3
    DEF Outdated, PrepareStale, PrepareInvalid, Approve, VerifyStale, Fails, Observe,
        FinishRollback
  <2> QED BY <1>0, <2>1, <2>2, MoveKeepsCompared DEF Return, DropContext, Goto
<1>4. ASSUME NEW w \in Writer, Prepare(w) PROVE Compared'
  BY <1>0, <1>4, MoveKeepsCompared DEF Prepare, Fresh, Goto, lockVars
<1>5. ASSUME NEW w \in Writer, Verify(w) PROVE Compared'
  BY <1>0, <1>5, MoveKeepsCompared DEF Verify, Goto, lockVars
<1>6. ASSUME NEW w \in Writer, PublishFails(w) \/ ObserveFails(w) PROVE Compared'
  BY <1>0, <1>6, MoveKeepsCompared DEF PublishFails, ObserveFails, StartRollback, Goto, lockVars
<1>7. CASE Edit \/ UNCHANGED vars
  BY <1>7 DEF Edit, vars, lockVars, Compared, AsApproved
<1> QED
  BY <1>1, <1>2, <1>3, <1>4, <1>5, <1>6, <1>7 DEF Next, Operate, Finished

\* The last look: equal revisions are those of equal versions.
LEMMA LastLook ==
  ASSUME TypeInv, Stamped, Compared, NEW w \in Writer, At(w, "verify"), Unchanged(w),
         NEW p \in Path, approved[w][p] # Unread
  PROVE  \/ files[p] = approved[w][p]
         \/ approved[w][p] = Missing /\ p \notin Read(w)
<1>1. Known(approved[w][p], p) /\ RevOf(seen[w][p]) = approved[w][p].rev
  BY DEF Stamped, Compared, At, AsApproved
<1>2. CASE p \in Read(w)
  BY <1>1, <1>2 DEF Read, Unchanged, RevOf, Known
<1>3. CASE p \notin Read(w)
  BY <1>1, <1>3 DEF Read, RevOf, Known
<1> QED BY <1>2, <1>3

\* A writer gets from its last look to publication by that look alone.
LEMMA OnlyVerifyPublishes ==
  ASSUME TypeInv, Next, NEW w \in Writer, At(w, "verify"), pc'[w] = "publish"
  PROVE  Unchanged(w)
<1>0. pc \in [Writer -> Control] /\ pc[w] = "verify"
  BY DEF TypeInv, TypeOK, At
<1>1. ASSUME NEW v \in Writer,
             \/ Preview(v) \/ Apply(v) \/ Discover(v) \/ Confirm(v) \/ ReadFiles(v)
             \/ Prepare(v) \/ Crash(v)
      PROVE  FALSE
  BY <1>0, <1>1 DEF Preview, Apply, Discover, Confirm, ReadFiles, Prepare, Crash, At, Goto
<1>2. ASSUME NEW v \in Writer, Acquire(v) \/ Publish(v) \/ Restore(v) PROVE FALSE
  BY <1>0, <1>2 DEF Acquire, Publish, Restore
<1>3. ASSUME NEW v \in Writer,
             \/ Outdated(v) \/ PrepareStale(v) \/ PrepareInvalid(v) \/ Approve(v)
             \/ VerifyStale(v) \/ Fails(v) \/ Observe(v) \/ FinishRollback(v)
      PROVE  FALSE
  <2>1. PICK result : Return(v, result)
    BY <1>3
    DEF Outdated, PrepareStale, PrepareInvalid, Approve, VerifyStale, Fails, Observe,
        FinishRollback
  <2> QED BY <1>0, <2>1 DEF Return, Goto
<1>4. ASSUME NEW v \in Writer, PublishFails(v) \/ ObserveFails(v) PROVE FALSE
  BY <1>0, <1>4 DEF PublishFails, ObserveFails, StartRollback, Goto
<1>5. ASSUME NEW v \in Writer, Verify(v) PROVE Unchanged(w)
  BY <1>0, <1>5 DEF Verify, Goto
<1>6. CASE Edit \/ Finished
  BY <1>0, <1>6 DEF Edit, Finished, vars
<1> QED BY <1>1, <1>2, <1>3, <1>4, <1>5, <1>6 DEF Next, Operate

\* Publication starts on the very versions the preview captured (Mutation's
\* require_revisions and its two checks of require_unchanged), for any number
\* of writers, edits, faults and crashes.
THEOREM PublishesTheApproved == Spec => PublishesWhatWasApproved
<1> DEFINE Approved(w) ==
      At(w, "verify") /\ pc'[w] = "publish" =>
        \A p \in Path : approved[w][p] # Unread =>
          \/ files[p] = approved[w][p]
          \/ approved[w][p] = Missing /\ p \notin Read(w)
<1> DEFINE Stable == TypeInv /\ Stamped /\ Compared
<1>1. Init => Stable
  BY TypeInit, StampedInit
<1>2. Stable /\ [Next]_vars => Stable'
  BY TypeNext, StampedNext, ComparedNext
<1>3. ASSUME Stable, Next PROVE \A w \in Writer : Approved(w)
  BY <1>3, OnlyVerifyPublishes, LastLook
<1> QED BY <1>1, <1>2, <1>3, PTL DEF Spec, PublishesWhatWasApproved

(***************************************************************************)
(* Dependencies.  What a batch depends on is discovered before any lock is *)
(* held and confirmed under the locks.  It then stays as confirmed: what   *)
(* another application writes lies outside, and the records it writes      *)
(* neither refer to what the batch writes nor claim its identities, or     *)
(* the two would have wanted the same key, one of them exclusively.        *)
(***************************************************************************)

\* Writes outside the dependencies of a batch, of records that before and after neither refer to
\* what the batch writes nor have an identity it writes, change neither the dependencies nor the
\* locks.
LEMMA LocksKept ==
  ASSUME NEW docs, NEW other, NEW request \in Request, NEW applied \in BOOLEAN,
         NEW D \in SUBSET Path, D \cap DependencyPaths(docs, request) = {},
         \A q \in Path \ D : other[q] = docs[q],
         \A p \in D : \A r \in Refs(docs[p]) \cup Refs(other[p]) :
           r \notin DOMAIN request \cup WrittenIdentities(docs, request),
         \A p \in D : docs[p] # Absent \/ other[p] # Absent =>
           IdOf[p] \notin WrittenIdentities(docs, request)
  PROVE  /\ ValidationPaths(other, request) = ValidationPaths(docs, request)
         /\ Locks(other, request, applied) = Locks(docs, request, applied)
<1>1. DOMAIN request \subseteq Path /\ ValidationPaths(docs, request) \subseteq Path
  BY RequestType, DependenciesType
<1>2. /\ D \cap ValidationPaths(docs, request) = {}
      /\ D \cap SupersessionClosure(docs, request) = {}
      /\ D \cap DOMAIN request = {}
  BY DEF DependencyPaths, ValidationPaths
<1>3. \A q \in Path \ D :
        /\ MergedRel(other, request, q) = MergedRel(docs, request, q)
        /\ MergedSup(other, request, q) = MergedSup(docs, request, q)
        /\ MergedRefs(other, request, q) = MergedRefs(docs, request, q)
        /\ q \in Identified(other, request) <=> q \in Identified(docs, request)
  BY <1>1 DEF MergedRel, MergedSup, MergedRefs, Identified, Existing
<1>4. WrittenIdentities(other, request) = WrittenIdentities(docs, request)
  BY <1>1, <1>2, <1>3 DEF WrittenIdentities
<1>5. Incoming(other, request) = Incoming(docs, request)
  <2>1. \A p \in D : /\ MergedRefs(docs, request, p) = Refs(docs[p])
                     /\ MergedRefs(other, request, p) = Refs(other[p])
    BY <1>2 DEF MergedRefs, MergedRel, MergedSup, Refs
  <2>2. \A p \in D : p \notin Incoming(docs, request) /\ p \notin Incoming(other, request)
    BY <1>4, <2>1 DEF Incoming
  <2>3. Identified(docs, request) \subseteq Path /\ Identified(other, request) \subseteq Path
    BY <1>1 DEF Identified, Existing
  <2>4. \A q \in Path \ D : q \in Incoming(other, request) <=> q \in Incoming(docs, request)
    BY <1>3, <1>4 DEF Incoming
  <2> QED BY <2>2, <2>3, <2>4 DEF Incoming
<1>6. SameIdentity(other, request) = SameIdentity(docs, request)
  <2>1. \A p \in D : p \notin SameIdentity(docs, request) /\ p \notin SameIdentity(other, request)
    BY <1>2, <1>4 DEF SameIdentity, Identified, Existing
  <2>2. Identified(docs, request) \subseteq Path /\ Identified(other, request) \subseteq Path
    BY <1>1 DEF Identified, Existing
  <2> QED BY <1>3, <1>4, <2>1, <2>2 DEF SameIdentity
<1>7. ValidationPaths(other, request) = ValidationPaths(docs, request)
  BY <1>5, <1>6 DEF ValidationPaths
<1> DEFINE frontier(s) == UNION { Supersedes(s, request, q) : q \in ValidationPaths(s, request) }
           closed(s, S) == \A x \in S : SupersededFrom(s, request, x) \subseteq S
<1>8. frontier(other) = frontier(docs)
  <2>1. \A q \in ValidationPaths(docs, request) :
          Supersedes(other, request, q) = Supersedes(docs, request, q)
    BY <1>1, <1>2, <1>3 DEF Supersedes
  <2> QED BY <1>7, <2>1
<1>9. \A S \in SUBSET Path : D \cap S = {} => (closed(docs, S) <=> closed(other, S))
  BY <1>3 DEF SupersededFrom
<1>10. \A s : SupersessionClosure(s, request) =
         { q \in Path : \A S \in SUBSET Path :
                         (frontier(s) \subseteq S /\ closed(s, S)) => q \in S }
  BY DEF SupersessionClosure
<1>11. \A s, S : closed(s, S) <=> \A x \in S : SupersededFrom(s, request, x) \subseteq S
  OBVIOUS
<1>12. frontier(docs) \subseteq Path
  BY DEF Supersedes
<1>13. \A s, x : SupersededFrom(s, request, x) \subseteq Path
  BY DEF SupersededFrom, Locations
<1> HIDE DEF frontier, closed
<1>14. SupersessionClosure(other, request) = SupersessionClosure(docs, request)
  <2> DEFINE C(s) == SupersessionClosure(s, request)
  <2>1. C(docs) \subseteq Path /\ C(other) \subseteq Path
    BY <1>10
  <2>2. \A s : frontier(s) \subseteq Path => frontier(s) \subseteq C(s)
    BY <1>10
  <2>3. \A s : closed(s, C(s))
    <3> SUFFICES ASSUME NEW s, NEW x \in C(s), NEW y \in SupersededFrom(s, request, x)
                 PROVE  y \in C(s)
      BY <1>11
    <3>1. y \in Path
      BY <1>13
    <3>2. ASSUME NEW S \in SUBSET Path, frontier(s) \subseteq S, closed(s, S) PROVE y \in S
      BY <1>10, <1>11, <3>2
    <3> QED BY <1>10, <3>1, <3>2
  <2>4. C(other) \subseteq C(docs)
    <3>1. frontier(other) \subseteq C(docs) /\ closed(other, C(docs))
      BY <1>2, <1>8, <1>9, <1>12, <2>1, <2>2, <2>3
    <3> QED BY <1>10, <2>1, <3>1
  <2>5. C(docs) \subseteq C(other)
    <3>1. frontier(docs) \subseteq C(other) /\ closed(docs, C(other))
      BY <1>2, <1>8, <1>9, <1>12, <2>1, <2>2, <2>3, <2>4
    <3> QED BY <1>10, <2>1, <3>1
  <2> QED BY <2>4, <2>5
<1>15. DependencyPaths(other, request) = DependencyPaths(docs, request)
  <2>1. \A q \in ValidationPaths(docs, request) :
          MergedRefs(other, request, q) = MergedRefs(docs, request, q)
    BY <1>1, <1>2, <1>3
  <2> QED BY <1>7, <1>14, <2>1 DEF DependencyPaths
<1>16. DependencyKeys(other, request) = DependencyKeys(docs, request)
  <2>1. DependencyPaths(docs, request) \cap Identified(other, request)
          = DependencyPaths(docs, request) \cap Identified(docs, request)
    BY <1>3, DependenciesType
  <2> QED BY <1>4, <1>15, <2>1 DEF DependencyKeys
<1> QED BY <1>4, <1>7, <1>16 DEF Locks

\* What an application has confirmed is still what it depends on.
Steady ==
  \A w \in Writer : applying[w] /\ Settled(w) =>
    /\ Confirmed(w)
    /\ checked[w] = ValidationPaths(Docs(files), batch[w])

\* The locks of an application that has read its files cover, for each
\* target, what the old and the new body refer to, and its identity.
Covers(w) ==
  \A p \in DOMAIN batch[w] :
    /\ \A r \in Refs(seen[w][p].doc) \cup Refs(batch[w][p].doc) :
         Locations(r) \subseteq want[w].keys
    /\ seen[w][p].doc # Absent \/ batch[w][p].doc # Absent =>
         IdOf[p] \in want[w].excl \cap want[w].keys

Covered == \A w \in Writer : applying[w] /\ Loaded(w) => Covers(w)

\* A receipt knows what was written, and nothing is lost before a rollback.
Accounted ==
  \A w \in Writer :
    /\ \A i \in DOMAIN receipts[w] : receipts[w][i].written = batch[w][receipts[w][i].path].doc
    /\ pc[w] \notin {"idle", "ready", "rollback"} => affected[w] = {}

\* Steady is what DependenciesStable says while nobody has edited.
LEMMA SteadyIsDependenciesStable == DependenciesStable <=> (Undisturbed => Steady)
BY DEF DependenciesStable, Steady

\* Confirmed locks cover what the targets are before and after the batch.
LEMMA ConfirmedCovers ==
  ASSUME TypeInv, NEW w \in Writer, pc[w] = "capture", applying[w], Confirmed(w),
         NEW p \in DOMAIN batch[w]
  PROVE  /\ p \in want[w].keys /\ p \in Path
         /\ \A r \in Refs(files[p].doc) \cup Refs(batch[w][p].doc) :
              Locations(r) \subseteq want[w].keys
         /\ files[p].doc # Absent \/ batch[w][p].doc # Absent =>
              IdOf[p] \in want[w].excl \cap want[w].keys
<1> DEFINE docs == Docs(files)
           request == batch[w]
<1>1. request \in Request /\ DOMAIN request \subseteq want[w].keys /\ p \in Path
  BY RequestType DEF TypeInv, Targeted, Locked
<1>2. /\ want[w].keys = DependencyKeys(docs, request)
      /\ want[w].excl = DOMAIN request \cup WrittenIdentities(docs, request)
  BY DEF Confirmed, Locks
<1>3. docs[p] = files[p].doc
  BY <1>1 DEF Docs
<1> HIDE DEF docs, request
<1>4. p \in DOMAIN request /\ request = batch[w]
  BY DEF request
<1>5. MergedRefs(docs, request, p) = Refs(docs[p]) \cup Refs(request[p].doc)
  BY <1>4 DEF MergedRefs, MergedRel, MergedSup, Refs
<1>6. \A r \in MergedRefs(docs, request, p) :
        Locations(r) \subseteq DependencyPaths(docs, request)
  BY <1>4 DEF DependencyPaths, ValidationPaths
<1>7. /\ DependencyPaths(docs, request) \subseteq want[w].keys
      /\ WrittenIdentities(docs, request) \subseteq want[w].keys
  BY <1>2 DEF DependencyKeys
<1>8. docs[p] # Absent \/ request[p].doc # Absent => IdOf[p] \in WrittenIdentities(docs, request)
  BY <1>1, <1>4 DEF WrittenIdentities, Identified, Existing
<1> QED BY <1>1, <1>2, <1>3, <1>4, <1>5, <1>6, <1>7, <1>8

\* A path that another application writes, before or after the write.
ForeignTo(w, p, before, after) ==
  \E v \in Writer \ {w} :
    /\ Writing(v) /\ applying[v] /\ Covers(v) /\ p \in DOMAIN batch[v]
    /\ {before, after} \subseteq {seen[v][p].doc, batch[v][p].doc}

\* What other applications write leaves the dependencies of one alone.
LEMMA ForeignWrites ==
  ASSUME TypeInv, LockInv, NEW docs, NEW other,
         NEW w \in Writer, applying[w], batch[w] \in Request, held[w] = want[w].keys,
         Locks(docs, batch[w], applying[w]) = want[w],
         NEW D \in SUBSET Path,
         \A q \in Path \ D : other[q] = docs[q],
         \A p \in D : ForeignTo(w, p, docs[p], other[p])
  PROVE  /\ ValidationPaths(other, batch[w]) = ValidationPaths(docs, batch[w])
         /\ Locks(other, batch[w], applying[w]) = Locks(docs, batch[w], applying[w])
<1> DEFINE request == batch[w]
<1>1. DOMAIN request \subseteq Path /\ applying[w] \in BOOLEAN
  BY RequestType DEF TypeInv, TypeOK
<1>2. /\ want[w].keys = DependencyKeys(docs, request)
      /\ want[w].excl = DOMAIN request \cup WrittenIdentities(docs, request)
  BY DEF Locks
<1>3. /\ DependencyPaths(docs, request) \cup DOMAIN request \subseteq want[w].keys
      /\ WrittenIdentities(docs, request) \subseteq want[w].keys
  BY <1>2 DEF DependencyKeys, DependencyPaths, ValidationPaths
<1> HIDE DEF request
<1>4. ASSUME NEW p \in D
      PROVE  /\ p \notin DependencyPaths(docs, request)
             /\ \A r \in Refs(docs[p]) \cup Refs(other[p]) :
                  r \notin DOMAIN request \cup WrittenIdentities(docs, request)
             /\ docs[p] # Absent \/ other[p] # Absent =>
                  IdOf[p] \notin WrittenIdentities(docs, request)
  <2>1. PICK v \in Writer \ {w} :
          /\ Writing(v) /\ applying[v] /\ Covers(v) /\ p \in DOMAIN batch[v]
          /\ {docs[p], other[p]} \subseteq {seen[v][p].doc, batch[v][p].doc}
    BY DEF ForeignTo
  <2>2. \A k : /\ k \in want[v].keys => k \notin want[w].keys \cap want[w].excl
               /\ k \in want[w].keys => k \notin want[v].keys \cap want[v].excl
    <3>1. held[v] = want[v].keys /\ held[w] = want[w].keys
      BY <2>1 DEF LockInv, Prefix, Locked, Writing
    <3> QED BY <2>1, <3>1 DEF LockInv, LockExclusion
  <2>3. p \in want[v].keys \cap want[v].excl
    BY <2>1 DEF TypeInv, Targeted, Locked, Writing
  <2>4. p \notin DependencyPaths(docs, request)
    BY <1>3, <2>2, <2>3
  <2>5. ASSUME NEW r \in Refs(docs[p]) \cup Refs(other[p])
        PROVE  r \notin DOMAIN request \cup WrittenIdentities(docs, request)
    <3>1. Locations(r) \subseteq want[v].keys
      BY <2>1, <2>5 DEF Covers
    <3>2. \A q \in DOMAIN request : q \notin Locations(r)
      BY <1>2, <1>3, <2>2, <3>1
    <3>3. r \notin DOMAIN request
      BY <1>1, <3>2 DEF Locations
    <3>4. r \notin WrittenIdentities(docs, request)
      BY <1>1, <3>2 DEF Locations, WrittenIdentities
    <3> QED BY <3>3, <3>4
  <2>6. docs[p] # Absent \/ other[p] # Absent => IdOf[p] \notin WrittenIdentities(docs, request)
    <3>1. docs[p] # Absent \/ other[p] # Absent => IdOf[p] \in want[v].keys \cap want[v].excl
      BY <2>1 DEF Covers
    <3> QED BY <1>3, <2>2, <3>1
  <2> QED BY <2>4, <2>5, <2>6
<1>5. request \in Request
  BY DEF request
<1>6. /\ ValidationPaths(other, request) = ValidationPaths(docs, request)
      /\ Locks(other, request, applying[w]) = Locks(docs, request, applying[w])
  BY <1>1, <1>4, <1>5, LocksKept, ZenonT(100)
<1> QED BY <1>6 DEF request

\* A step of one writer that writes no file leaves the others as they are.
LEMMA QuietKeepsSteady ==
  ASSUME TypeOK, Steady, Covered, NEW w \in Writer, UNCHANGED files,
         \A v \in Writer \ {w} :
           /\ pc'[v] = pc[v] /\ applying'[v] = applying[v] /\ batch'[v] = batch[v]
           /\ want'[v] = want[v] /\ checked'[v] = checked[v] /\ seen'[v] = seen[v]
           /\ receipts'[v] = receipts[v],
         Settled(w)' /\ applying'[w] =>
           /\ Confirmed(w)'
           /\ checked'[w] = ValidationPaths(Docs(files), batch'[w]),
         Loaded(w)' /\ applying'[w] => Covers(w)'
  PROVE  Steady' /\ Covered'
<1>1. Docs(files)' = Docs(files)
  BY DEF Docs
<1>2. Steady'
  <2> SUFFICES ASSUME NEW v \in Writer, applying'[v], Settled(v)'
               PROVE  Confirmed(v)' /\ checked'[v] = ValidationPaths(Docs(files)', batch'[v])
    BY DEF Steady
  <2>1. CASE v = w
    BY <1>1, <2>1
  <2>2. CASE v # w
    BY <1>1, <2>2 DEF Steady, Settled, At, Confirmed
  <2> QED BY <2>1, <2>2
<1>3. Covered'
  <2> SUFFICES ASSUME NEW v \in Writer, applying'[v], Loaded(v)' PROVE Covers(v)'
    BY DEF Covered
  <2>1. CASE v # w
    BY <2>1 DEF Covered, Covers, Loaded
  <2> QED BY <2>1
<1> QED BY <1>2, <1>3

\* Neither does one that writes a target of an application's batch.
LEMMA WriteKeepsSteady ==
  ASSUME TypeInv, LockInv, Receipted, Steady, Covered,
         NEW w \in Writer, Writing(w), ~ Settled(w)',
         NEW p \in DOMAIN batch[w] \cap Path,
         UNCHANGED <<pc, batch, applying, want, checked, seen>>,
         \A v \in Writer \ {w} : receipts'[v] = receipts[v],
         \A q \in Path \ {p} : files'[q] = files[q],
         files[p].doc \in {seen[w][p].doc, batch[w][p].doc},
         files'[p].doc \in {seen[w][p].doc, batch[w][p].doc}
  PROVE  Steady' /\ Covered'
<1>1. applying[w] /\ Covers(w)
  BY DEF Receipted, Covered, Writing, Loaded
<1>2. Covered'
  BY DEF Covered, Covers, Loaded
<1> SUFFICES ASSUME NEW v \in Writer, applying'[v], Settled(v)'
             PROVE  Confirmed(v)' /\ checked'[v] = ValidationPaths(Docs(files)', batch'[v])
  BY <1>2 DEF Steady
<1>3. v # w /\ applying[v] /\ Settled(v)
  BY DEF Settled, At
<1>4. Confirmed(v) /\ checked[v] = ValidationPaths(Docs(files), batch[v])
  BY <1>3 DEF Steady
<1>5. PICK other : other = Docs(files)'
  OBVIOUS
<1>6. /\ \A q \in Path \ {p} : other[q] = Docs(files)[q]
      /\ Docs(files)[p] \in {seen[w][p].doc, batch[w][p].doc}
      /\ other[p] \in {seen[w][p].doc, batch[w][p].doc}
  BY <1>5 DEF Docs
<1>7. /\ ValidationPaths(other, batch[v]) = ValidationPaths(Docs(files), batch[v])
      /\ Locks(other, batch[v], applying[v]) = Locks(Docs(files), batch[v], applying[v])
  <2>1. ForeignTo(v, p, Docs(files)[p], other[p])
    BY <1>1, <1>3, <1>6 DEF ForeignTo
  <2>2. batch[v] \in Request /\ held[v] = want[v].keys
    BY <1>3 DEF TypeInv, Targeted, LockInv, Prefix, Locked, Settled, At
  <2>3. PICK D \in SUBSET Path : D = {p}
    OBVIOUS
  <2>4. /\ \A q \in Path \ D : other[q] = Docs(files)[q]
        /\ \A q \in D : ForeignTo(v, q, Docs(files)[q], other[q])
        /\ Locks(Docs(files), batch[v], applying[v]) = want[v]
    BY <1>4, <1>6, <2>1, <2>3 DEF Confirmed
  <2> QED BY <1>3, <2>2, <2>4, ForeignWrites
<1> QED BY <1>4, <1>5, <1>7 DEF Confirmed

\* Nothing is published or lost at the start.
LEMMA AccountedInit == Init => Accounted /\ Steady /\ Covered
BY DEF Init, Accounted, Steady, Covered, Settled, At, Loaded

\* A writer that returns or crashes has no receipts to account for.
LEMMA EmptyKeepsAccounted ==
  ASSUME Accounted, NEW w \in Writer, receipts'[w] = <<>>,
         pc'[w] \notin {"idle", "ready"} => affected'[w] = {},
         \A v \in Writer \ {w} : /\ pc'[v] = pc[v] /\ batch'[v] = batch[v]
                                 /\ receipts'[v] = receipts[v] /\ affected'[v] = affected[v]
  PROVE  Accounted'
BY DEF Accounted

\* Every step keeps receipts accounted for.
LEMMA AccountedNext == TypeInv /\ Receipted /\ Accounted /\ [Next]_vars => Accounted'
<1> SUFFICES ASSUME TypeInv, Receipted, Accounted, [Next]_vars PROVE Accounted'
  OBVIOUS
<1>0. /\ TypeOK
      /\ \A w \in Writer : ~ Writing(w) => receipts[w] = <<>>
      /\ \A w \in Writer : pc[w] \notin {"idle", "ready", "rollback"} => affected[w] = {}
  BY DEF TypeInv, Receipted, Accounted
<1>1. ASSUME NEW w \in Writer, Preview(w) \/ Apply(w) PROVE Accounted'
  BY <1>0, <1>1, EmptyKeepsAccounted, ZenonT(40)
    DEF Preview, Apply, Goto, At, TypeOK, Writing, lockVars
<1>2. ASSUME NEW w \in Writer,
             Discover(w) \/ Acquire(w) \/ Confirm(w) \/ ReadFiles(w) \/ Prepare(w) \/ Verify(w)
      PROVE  Accounted'
  BY <1>0, <1>2, EmptyKeepsAccounted
  DEF Discover, Acquire, Confirm, ReadFiles, Prepare, Verify, Goto, At, TypeOK, Writing, lockVars
<1>3. ASSUME NEW w \in Writer,
             \/ Outdated(w) \/ PrepareStale(w) \/ PrepareInvalid(w) \/ Approve(w)
             \/ VerifyStale(w) \/ Fails(w) \/ Observe(w) \/ FinishRollback(w)
      PROVE  Accounted'
  <2>1. PICK result : Return(w, result)
    BY <1>3
    DEF Outdated, PrepareStale, PrepareInvalid, Approve, VerifyStale, Fails, Observe,
        FinishRollback
  <2>2. /\ receipts'[w] = <<>>
        /\ \A v \in Writer \ {w} : receipts'[v] = receipts[v]
        /\ UNCHANGED <<batch, affected>>
    BY <1>0, <1>3
    DEF Outdated, PrepareStale, PrepareInvalid, Approve, VerifyStale, Fails, Observe,
        FinishRollback,
        At, TypeOK, Writing
  <2> QED BY <1>0, <2>1, <2>2, EmptyKeepsAccounted DEF Return, DropContext, Goto, TypeOK
<1>4. ASSUME NEW w \in Writer, Publish(w) PROVE Accounted'
  <2>1. PICK p, rev :
          receipts' = [receipts EXCEPT ![w] = Append(@,
            [path |-> p, prior |-> seen[w][p].doc, written |-> batch[w][p].doc, rev |-> rev])]
    BY <1>4 DEF Publish
  <2> DEFINE receipt ==
        [path |-> p, prior |-> seen[w][p].doc, written |-> batch[w][p].doc, rev |-> rev]
  <2>2. receipts[w] \in Seq(Receipt) /\ receipts'[w] = Append(receipts[w], receipt)
    BY <1>0, <2>1 DEF TypeOK
  <2>3. receipt.written = batch[w][receipt.path].doc
    OBVIOUS
  <2>4. \A i \in DOMAIN receipts'[w] :
          \/ receipts'[w][i] = receipt
          \/ i \in DOMAIN receipts[w] /\ receipts'[w][i] = receipts[w][i]
    <3> HIDE DEF receipt
    <3> QED BY <2>2
  <2> HIDE DEF receipt
  <2>5. UNCHANGED <<pc, batch, affected>> /\ \A v \in Writer \ {w} : receipts'[v] = receipts[v]
    BY <1>0, <1>4, <2>1 DEF Publish, TypeOK
  <2> QED BY <2>3, <2>4, <2>5 DEF Accounted
<1>5. ASSUME NEW w \in Writer, Restore(w) PROVE Accounted'
  <2>1. /\ receipts' = [receipts EXCEPT ![w] = SubSeq(@, 1, Len(@) - 1)]
        /\ receipts[w] \in Seq(Receipt) /\ receipts[w] # <<>>
        /\ UNCHANGED <<pc, batch>> /\ pc[w] = "rollback"
        /\ \A v \in Writer \ {w} : receipts'[v] = receipts[v] /\ affected'[v] = affected[v]
    BY <1>0, <1>5 DEF Restore, At, TypeOK
  <2>2. receipts'[w] = SubSeq(receipts[w], 1, Len(receipts[w]) - 1)
    BY <1>0, <2>1 DEF TypeOK
  <2>3. \A i \in DOMAIN receipts'[w] :
          i \in DOMAIN receipts[w] /\ receipts'[w][i] = receipts[w][i]
    BY <2>1, <2>2, SubSeqProperties
  <2> QED BY <2>1, <2>3 DEF Accounted
<1>6. ASSUME NEW w \in Writer, PublishFails(w) \/ ObserveFails(w) PROVE Accounted'
  <2>1. PICK cause : StartRollback(w, cause) /\ At(w, "publish")
    BY <1>6 DEF PublishFails, ObserveFails
  <2> QED BY <1>0, <2>1 DEF StartRollback, Goto, At, TypeOK, Accounted
<1>7. ASSUME NEW w \in Writer, Crash(w) PROVE Accounted'
  BY <1>0, <1>7, EmptyKeepsAccounted DEF Crash, DropContext, Goto, TypeOK
<1>8. CASE Edit \/ UNCHANGED vars
  BY <1>8 DEF Edit, vars, lockVars, Accounted
<1> QED BY <1>1, <1>2, <1>3, <1>4, <1>5, <1>6, <1>7, <1>8 DEF Next, Operate, Finished

\* No step but an edit moves the dependencies of a settled application.
LEMMA SteadyNext ==
  ASSUME TypeInv, LockInv, Receipted, Accounted, Current, Steady, Covered, [Next]_vars, ~ Edit
  PROVE  Steady' /\ Covered'
<1>0. TypeOK
  BY DEF TypeInv
<1>1. ASSUME NEW w \in Writer, Preview(w) \/ Apply(w) \/ Discover(w) \/ Acquire(w)
      PROVE  Steady' /\ Covered'
  BY <1>0, <1>1, QuietKeepsSteady
  DEF Preview, Apply, Discover, Acquire, Goto, At, TypeOK, Settled, Loaded, lockVars
<1>2. ASSUME NEW w \in Writer, Confirm(w) PROVE Steady' /\ Covered'
  <2>1. /\ Confirmed(w) /\ checked'[w] = ValidationPaths(Docs(files), batch[w])
        /\ UNCHANGED <<files, batch, applying, want, seen, receipts>>
        /\ pc'[w] = "capture"
        /\ \A v \in Writer \ {w} : pc'[v] = pc[v] /\ checked'[v] = checked[v]
    BY <1>0, <1>2 DEF Confirm, Goto, TypeOK
  <2>2. Confirmed(w)' /\ ~ Loaded(w)'
    BY <2>1 DEF Confirmed, Docs, Loaded
  <2> QED BY <1>0, <2>1, <2>2, QuietKeepsSteady
<1>3. ASSUME NEW w \in Writer, ReadFiles(w) PROVE Steady' /\ Covered'
  <2>1. /\ UNCHANGED <<files, batch, applying, want, checked, receipts>>
        /\ pc[w] = "capture" /\ pc'[w] = "prepare"
        /\ \A v \in Writer \ {w} : pc'[v] = pc[v] /\ seen'[v] = seen[v]
        /\ \A p \in Path : p \in want[w].keys => seen'[w][p] = files[p]
    BY <1>0, <1>3 DEF ReadFiles, Goto, At, TypeOK
  <2>2. ASSUME applying'[w]
        PROVE  /\ Confirmed(w)'
               /\ checked'[w] = ValidationPaths(Docs(files), batch'[w])
               /\ Covers(w)'
    <3>1. Confirmed(w) /\ checked[w] = ValidationPaths(Docs(files), batch[w])
      BY <2>1, <2>2 DEF Steady, Settled
    <3>2. Confirmed(w)'
      BY <2>1, <3>1 DEF Confirmed, Docs
    <3>3. ASSUME NEW p \in DOMAIN batch[w]
          PROVE  /\ \A r \in Refs(seen'[w][p].doc) \cup Refs(batch[w][p].doc) :
                      Locations(r) \subseteq want[w].keys
                 /\ seen'[w][p].doc # Absent \/ batch[w][p].doc # Absent =>
                      IdOf[p] \in want[w].excl \cap want[w].keys
      BY <2>1, <2>2, <3>1, ConfirmedCovers
    <3>4. Covers(w)'
      BY <2>1, <3>3 DEF Covers
    <3> QED BY <2>1, <3>1, <3>2, <3>4
  <2> QED BY <1>0, <2>1, <2>2, QuietKeepsSteady
<1>4. ASSUME NEW w \in Writer, Prepare(w) \/ Verify(w) PROVE Steady' /\ Covered'
  <2>1. /\ UNCHANGED <<files, batch, applying, want, checked, seen, receipts>>
        /\ Settled(w) /\ Loaded(w)
        /\ \A v \in Writer \ {w} : pc'[v] = pc[v]
    BY <1>0, <1>4 DEF Prepare, Verify, Goto, At, TypeOK, Settled, Loaded, lockVars
  <2>2. applying[w] => /\ Confirmed(w)' /\ Covers(w)'
                       /\ checked[w] = ValidationPaths(Docs(files), batch[w])
    BY <2>1 DEF Steady, Covered, Confirmed, Docs, Covers
  <2> QED BY <1>0, <2>1, <2>2, QuietKeepsSteady
<1>5. ASSUME NEW w \in Writer,
             \/ Outdated(w) \/ PrepareStale(w) \/ PrepareInvalid(w) \/ Approve(w)
             \/ VerifyStale(w) \/ Fails(w) \/ Observe(w) \/ FinishRollback(w)
      PROVE  Steady' /\ Covered'
  <2>1. PICK result : Return(w, result)
    BY <1>5
    DEF Outdated, PrepareStale, PrepareInvalid, Approve, VerifyStale, Fails, Observe,
        FinishRollback
  <2>2. /\ UNCHANGED <<files, batch, applying>>
        /\ \A v \in Writer \ {w} : receipts'[v] = receipts[v]
    BY <1>0, <1>5
    DEF Outdated, PrepareStale, PrepareInvalid, Approve, VerifyStale, Fails, Observe,
        FinishRollback, TypeOK
  <2>3. /\ ~ Settled(w)' /\ ~ Loaded(w)'
        /\ \A v \in Writer \ {w} : /\ pc'[v] = pc[v] /\ want'[v] = want[v]
                                   /\ checked'[v] = checked[v] /\ seen'[v] = seen[v]
    BY <1>0, <2>1 DEF Return, DropContext, Goto, TypeOK, Settled, At, Loaded
  <2> QED BY <1>0, <2>2, <2>3, QuietKeepsSteady
<1>6. ASSUME NEW w \in Writer, PublishFails(w) \/ ObserveFails(w) PROVE Steady' /\ Covered'
  <2>1. PICK cause : StartRollback(w, cause) /\ At(w, "publish")
    BY <1>6 DEF PublishFails, ObserveFails
  <2>2. /\ UNCHANGED <<files, batch, applying, want, checked, seen, receipts>>
        /\ ~ Settled(w)' /\ Loaded(w)
        /\ \A v \in Writer \ {w} : pc'[v] = pc[v]
    BY <1>0, <2>1 DEF StartRollback, Goto, At, TypeOK, Settled, Loaded, lockVars
  <2>3. applying[w] => Covers(w)'
    BY <2>2 DEF Covered, Covers
  <2> QED BY <1>0, <2>2, <2>3, QuietKeepsSteady
<1>7. ASSUME NEW w \in Writer, Publish(w) PROVE Steady' /\ Covered'
  <2>1. PICK p \in Unpublished(w) : files' = [files EXCEPT ![p] = Publication(batch[w][p].doc)]
    BY <1>7 DEF Publish
  <2>2. /\ pc[w] = "publish"
        /\ UNCHANGED <<pc, batch, applying, want, checked, seen>>
        /\ \A v \in Writer \ {w} : receipts'[v] = receipts[v]
    BY <1>0, <1>7 DEF Publish, At, TypeOK, lockVars
  <2>3. ~ Settled(w)'
    <3>1. Published(w)' # {}
      BY <1>7, PublishTarget
    <3>2. receipts'[w] # <<>>
      BY <3>1 DEF Published
    <3> QED BY <2>2, <3>2 DEF Settled, At
  <2>4. p \in DOMAIN batch[w] \cap Path /\ p \in want[w].keys
    BY <2>1, <2>2, RequestType DEF Unpublished, TypeInv, Targeted, Locked
  <2>5. p \in Read(w) \ (Published(w) \cup affected[w])
    <3>1. seen[w][p] # Unread
      BY <2>2, <2>4, MutationAssumption DEF TypeInv, AllCaptured, Loaded, Version
    <3> QED BY <2>1, <2>2, <2>4, <3>1 DEF Unpublished, Accounted, Read
  <2>6. files[p].doc = seen[w][p].doc
    BY <2>2, <2>5 DEF Current, Loaded
  <2>7. files'[p].doc = batch[w][p].doc /\ \A q \in Path \ {p} : files'[q] = files[q]
    BY <1>0, <2>1, <2>4 DEF TypeOK, Publication, Missing
  <2> QED BY <2>2, <2>3, <2>4, <2>6, <2>7, WriteKeepsSteady DEF Writing
<1>8. ASSUME NEW w \in Writer, Restore(w) PROVE Steady' /\ Covered'
  <2> DEFINE receipt == receipts[w][Len(receipts[w])]
  <2>1. /\ pc[w] = "rollback"
        /\ UNCHANGED <<pc, batch, applying, want, checked, seen>>
        /\ \A v \in Writer \ {w} : receipts'[v] = receipts[v]
        /\ receipts[w] \in Seq(Receipt) /\ receipts[w] # <<>>
    BY <1>0, <1>8 DEF Restore, At, TypeOK, lockVars
  <2>2. /\ receipt.path \in DOMAIN batch[w] \cap Path
        /\ receipt.prior = seen[w][receipt.path].doc
        /\ receipt.written = batch[w][receipt.path].doc
    <3>1. Len(receipts[w]) \in DOMAIN receipts[w]
      BY <2>1
    <3> QED BY <2>1, <3>1, RequestType DEF Receipted, Accounted, TypeInv, Targeted
  <2>3. \/ /\ Own(receipt)
           /\ files' = [files EXCEPT ![receipt.path] = Publication(receipt.prior)]
        \/ UNCHANGED files
    BY <1>8 DEF Restore
  <2>4. ~ Settled(w)' /\ Writing(w)
    BY <2>1 DEF Settled, At, Writing
  <2> HIDE DEF receipt
  <2>5. CASE UNCHANGED files
    <3>1. Loaded(w) /\ (applying[w] => Covers(w)')
      BY <2>1 DEF Covered, Covers, Loaded
    <3> QED BY <1>0, <2>1, <2>4, <2>5, <3>1, QuietKeepsSteady
  <2>6. CASE /\ Own(receipt)
             /\ files' = [files EXCEPT ![receipt.path] = Publication(receipt.prior)]
    <3> DEFINE p == receipt.path
    <3>1. files[p].doc = batch[w][p].doc
      BY <2>2, <2>6 DEF Own
    <3>2. files'[p].doc = seen[w][p].doc /\ \A q \in Path \ {p} : files'[q] = files[q]
      BY <1>0, <2>2, <2>6 DEF TypeOK, Publication, Missing
    <3> QED BY <2>1, <2>2, <2>4, <3>1, <3>2, WriteKeepsSteady
  <2> QED BY <2>3, <2>5, <2>6
<1>9. ASSUME NEW w \in Writer, Crash(w) PROVE Steady' /\ Covered'
  BY <1>0, <1>9, QuietKeepsSteady DEF Crash, DropContext, Goto, TypeOK, Settled, At, Loaded
<1>10. CASE UNCHANGED vars
  BY <1>10 DEF vars, lockVars, Steady, Covered, Settled, At, Confirmed, Docs, Loaded, Covers
<1> QED
  BY <1>1, <1>2, <1>3, <1>4, <1>5, <1>6, <1>7, <1>8, <1>9, <1>10 DEF Next, Operate, Finished

\* As long as every editor takes the locks, what an application confirmed
\* under its locks stays true of the files until its own first publication:
\* the records that refer to its targets, the references of its records and
\* the supersession edges beyond them are those it has locked and checked,
\* whatever any number of other applications publish and take back.
THEOREM DependenciesStayStable == Spec => []DependenciesStable
<1> DEFINE Before == TypeInv /\ LockInv /\ EditsSpent /\ Receipted /\ CapturesCurrent
           Kept == Undisturbed => Steady /\ Covered
<1>1. Init => Before /\ Accounted /\ Kept
  <2>1. Init => CapturesCurrent
    BY DEF Init, CapturesCurrent
  <2> QED BY <2>1, TypeInit, LockInit, SpentInit, AccountedInit
<1>2. Before /\ [Next]_vars => Before'
  BY TypeNext, LockNext, OnlyEditsSpend, ReceiptedNext, CapturesCurrentNext
<1>3. Before /\ Accounted /\ [Next]_vars => Accounted'
  BY AccountedNext
<1>4. Before /\ Accounted /\ Kept /\ [Next]_vars => Kept'
  <2> SUFFICES ASSUME Before, Accounted, Kept, [Next]_vars, Undisturbed'
               PROVE  Steady' /\ Covered'
    OBVIOUS
  <2>1. ~ Edit /\ Undisturbed
    BY OnlyEditsSpend DEF Undisturbed
  <2>2. Current /\ Steady /\ Covered
    BY <2>1, CurrentIsCapturesCurrent
  <2> QED BY <2>1, <2>2, SteadyNext
<1>5. Kept => DependenciesStable
  BY SteadyIsDependenciesStable
<1> HIDE DEF Before, Kept
<1> QED BY <1>1, <1>2, <1>3, <1>4, <1>5, PTL DEF Spec

(***************************************************************************)
(* Local judgement.  A batch is judged by the diagnostics of the records   *)
(* it depends on.  That is exact: of a written identity every claimant is  *)
(* read, of a checked record every place its references may lead to, and   *)
(* of the supersessions all that the checked records lead to; everything   *)
(* else resolves as it did.  It takes one thing that the code does not see *)
(* to: a record that is related by its path must not at the same time be   *)
(* superseded by its identity alone.                                       *)
(***************************************************************************)

\* No record that a batch leaves or replaces is named, by its path, as a related one where it is
\* superseded by its identity: the flag that makes discovery follow it is not lost.
Unaliased(docs, request) ==
  \A p, q \in Path :
    q \in MergedRel(docs, request, p) /\ IdOf[q] \in MergedSup(docs, request, p) =>
      q \in MergedSup(docs, request, p)

\* What a batch can be judged on: a store, a change of it that its targets allow, and no alias.
Judgeable(docs, request) ==
  /\ docs \in [Path -> Doc \cup {Absent}]
  /\ request \in Batch
  /\ ~ TargetMismatch(docs, request)
  /\ Unaliased(docs, request)

\* The store as far as it is read.
ReadPart(docs, read) == [p \in Path |-> IF p \in read THEN docs[p] ELSE Absent]

\* A batch targets paths, and leaves a body or nothing at each.
LEMMA BatchType ==
  ASSUME NEW request \in Batch
  PROVE  /\ DOMAIN request \subseteq Path /\ DOMAIN request # {}
         /\ \A p \in DOMAIN request : request[p].doc \in Doc \cup {Absent}
<1>1. PICK S \in (SUBSET Path) \ {{}} : request \in [S -> Change]
  BY DEF Batch
<1>2. \A p \in S : request[p].doc \in Doc \cup {Absent}
  BY <1>1 DEF Change
<1> QED BY <1>1, <1>2

\* What a batch depends on is all paths of the store.
LEMMA JudgedPaths ==
  ASSUME NEW docs, NEW request \in Batch
  PROVE  /\ ValidationPaths(docs, request) \subseteq DependencyPaths(docs, request)
         /\ DependencyPaths(docs, request) \subseteq Path
         /\ DOMAIN request \subseteq ValidationPaths(docs, request)
         /\ Identified(docs, request) \subseteq Path
<1>1. DOMAIN request \subseteq Path
  BY BatchType
<1>2. Identified(docs, request) \subseteq Path
  BY <1>1 DEF Identified, Existing
<1>3. ValidationPaths(docs, request) \subseteq Path
  BY <1>1, <1>2 DEF ValidationPaths, Incoming, SameIdentity
<1>4. SupersessionClosure(docs, request) \subseteq Path
  BY DEF SupersessionClosure
<1>5. \A r : Locations(r) \subseteq Path
  BY DEF Locations
<1>6. DependencyPaths(docs, request) \subseteq Path
  BY <1>3, <1>4, <1>5 DEF DependencyPaths
<1> QED BY <1>2, <1>6 DEF DependencyPaths, ValidationPaths

\* A batch leaves what it does not target, and knows what it leaves.
LEMMA Overlaid ==
  ASSUME NEW docs \in [Path -> Doc \cup {Absent}], NEW request \in Batch
  PROVE  /\ Overlay(docs, request) \in [Path -> Doc \cup {Absent}]
         /\ \A p \in Path \ DOMAIN request : Overlay(docs, request)[p] = docs[p]
         /\ \A p \in DOMAIN request : Overlay(docs, request)[p] = request[p].doc
         /\ Existing(Overlay(docs, request)) \cup Existing(docs) \subseteq Path
         /\ Existing(Overlay(docs, request)) \cup Existing(docs) \subseteq Identified(docs, request)
<1>1. /\ DOMAIN request \subseteq Path
      /\ \A p \in DOMAIN request : request[p].doc \in Doc \cup {Absent}
  BY BatchType
<1>2. /\ Overlay(docs, request) \in [Path -> Doc \cup {Absent}]
      /\ \A p \in Path \ DOMAIN request : Overlay(docs, request)[p] = docs[p]
      /\ \A p \in DOMAIN request : Overlay(docs, request)[p] = request[p].doc
  BY <1>1 DEF Overlay
<1>3. \A p \in Existing(Overlay(docs, request)) : p \in Identified(docs, request)
  BY <1>1, <1>2 DEF Existing, Identified
<1> QED BY <1>2, <1>3 DEF Existing, Identified

\* The references of a record, before and after the batch, are merged ones.
LEMMA RefsAreMerged ==
  ASSUME NEW docs \in [Path -> Doc \cup {Absent}], NEW request \in Batch,
         NEW after \in {docs, Overlay(docs, request)}, NEW p \in Path
  PROVE  /\ Refs(after[p]) \subseteq MergedRefs(docs, request, p)
         /\ Sup(after[p]) \subseteq MergedSup(docs, request, p)
<1>1. CASE after = docs
  BY <1>1 DEF Refs, MergedRefs, MergedRel, MergedSup
<1>2. CASE after = Overlay(docs, request) /\ p \in DOMAIN request
  <2>1. after[p] = request[p].doc
    BY <1>2, Overlaid
  <2> QED BY <1>2, <2>1 DEF Refs, MergedRefs, MergedRel, MergedSup
<1>3. CASE after = Overlay(docs, request) /\ p \notin DOMAIN request
  <2>1. after[p] = docs[p]
    BY <1>3, Overlaid
  <2> QED BY <1>3, <2>1 DEF Refs, MergedRefs, MergedRel, MergedSup
<1> QED BY <1>1, <1>2, <1>3

\* Every place where a checked record's references may lead is read.
LEMMA CheckedRefsAreRead ==
  ASSUME NEW docs \in [Path -> Doc \cup {Absent}], NEW request \in Batch,
         NEW after \in {docs, Overlay(docs, request)},
         NEW p \in ValidationPaths(docs, request), NEW r \in Refs(after[p])
  PROVE  Locations(r) \subseteq DependencyPaths(docs, request)
<1>1. p \in Path
  BY JudgedPaths
<1>2. r \in MergedRefs(docs, request, p)
  BY <1>1, RefsAreMerged
<1> QED BY <1>2 DEF DependencyPaths

\* What a record that is not checked refers to is where it was, and so resolves as it did.
LEMMA UncheckedResolvesAsBefore ==
  ASSUME NEW docs \in [Path -> Doc \cup {Absent}], NEW request \in Batch,
         NEW p \in Path \ ValidationPaths(docs, request),
         p \in Existing(docs) \cup Existing(Overlay(docs, request))
  PROVE  /\ p \in Existing(docs) /\ p \in Existing(Overlay(docs, request))
         /\ Overlay(docs, request)[p] = docs[p]
         /\ \A r \in Refs(docs[p]) :
              Resolved(Existing(Overlay(docs, request)), r) = Resolved(Existing(docs), r)
<1>1. p \notin DOMAIN request
  BY JudgedPaths
<1>2. Overlay(docs, request)[p] = docs[p]
  BY <1>1, Overlaid
<1>3. p \in Existing(docs) /\ p \in Existing(Overlay(docs, request))
  BY <1>2 DEF Existing
<1>4. p \in Identified(docs, request)
  BY <1>3 DEF Identified
<1>5. MergedRefs(docs, request, p) = Refs(docs[p])
  BY <1>1 DEF MergedRefs, MergedRel, MergedSup, Refs
<1>6. Refs(docs[p]) \cap (DOMAIN request \cup WrittenIdentities(docs, request)) = {}
  <2>1. p \notin Incoming(docs, request)
    BY DEF ValidationPaths
  <2> QED BY <1>4, <1>5, <2>1 DEF Incoming
<1>7. ASSUME NEW r \in Refs(docs[p]), NEW q \in Locations(r)
      PROVE  q \in Existing(Overlay(docs, request)) <=> q \in Existing(docs)
  <2>1. q \in Path /\ (r = q \/ r = IdOf[q])
    BY <1>7 DEF Locations
  <2>2. CASE q \notin DOMAIN request
    <3>1. Overlay(docs, request)[q] = docs[q]
      BY <2>1, <2>2, Overlaid
    <3> QED BY <3>1 DEF Existing
  <2>3. CASE q \in DOMAIN request
    <3>1. r = IdOf[q]
      BY <1>6, <1>7, <2>1, <2>3
    <3>2. q \notin Identified(docs, request)
      BY <1>6, <1>7, <2>3, <3>1 DEF WrittenIdentities
    <3> QED BY <3>2, Overlaid
  <2> QED BY <2>2, <2>3
<1>8. ASSUME NEW r \in Refs(docs[p])
      PROVE  Resolved(Existing(Overlay(docs, request)), r) = Resolved(Existing(docs), r)
  <2>1. Locations(r) \cap Existing(Overlay(docs, request)) = Locations(r) \cap Existing(docs)
    BY <1>7
  <2> QED BY <2>1 DEF Resolved
<1> QED BY <1>2, <1>3, <1>8

\* What is seen of a store through what is read of it.
LEMMA ReadPartType ==
  ASSUME NEW docs \in [Path -> Doc \cup {Absent}], NEW request \in Batch, NEW read \in SUBSET Path,
         DOMAIN request \subseteq read
  PROVE  /\ Overlay(ReadPart(docs, read), request) = ReadPart(Overlay(docs, request), read)
         /\ Existing(ReadPart(docs, read)) \cap read = Existing(docs) \cap read
         /\ \A p \in read : ReadPart(docs, read)[p] = docs[p]
<1>1. \A p \in read : ReadPart(docs, read)[p] = docs[p]
  BY DEF ReadPart
<1>2. Existing(ReadPart(docs, read)) \cap read = Existing(docs) \cap read
  BY <1>1 DEF Existing
<1>3. ASSUME NEW p \in Path
      PROVE  (IF p \in DOMAIN request THEN request[p].doc ELSE ReadPart(docs, read)[p])
               = (IF p \in read THEN Overlay(docs, request)[p] ELSE Absent)
  BY DEF Overlay, ReadPart
<1>4. Overlay(ReadPart(docs, read), request) = ReadPart(Overlay(docs, request), read)
  BY <1>3, Zenon DEF Overlay, ReadPart
<1> QED BY <1>1, <1>2, <1>4

\* The diagnostics of what is read depend on nothing else.
LEMMA ReadDiagnostics ==
  ASSUME NEW docs \in [Path -> Doc \cup {Absent}], NEW read \in SUBSET Path,
         NEW E \in SUBSET read, NEW judged
  PROVE  Diagnostics(ReadPart(docs, read), E, judged) = Diagnostics(docs, E, judged)
<1>1. \A p \in E : ReadPart(docs, read)[p] = docs[p]
  BY DEF ReadPart
<1>2. Unresolved(ReadPart(docs, read), E, judged) = Unresolved(docs, E, judged)
  BY <1>1 DEF Unresolved
<1>3. [p \in E |-> UNION { Resolved(E, r) : r \in Sup(ReadPart(docs, read)[p]) }]
        = [p \in E |-> UNION { Resolved(E, r) : r \in Sup(docs[p]) }]
  BY <1>1
<1>4. Cycles(ReadPart(docs, read), E, judged) = Cycles(docs, E, judged)
  BY <1>3 DEF Cycles
<1> QED BY <1>2, <1>4 DEF Diagnostics

\* What each diagnostic says.
LEMMA DuplicateMeans ==
  ASSUME NEW E, NEW d
  PROVE  /\ d \in Duplicates(E) <=>
              \E p \in E : \E q \in Claims(E, p) :
                d = <<"duplicate_identity", p, q>> /\ \A y \in Claims(E, p) : y <= q
         /\ d \in Duplicates(E) => d[1] = "duplicate_identity"
BY DEF Duplicates

\* A reference is reported when it leads nowhere, or to the record itself.
LEMMA UnresolvedMeans ==
  ASSUME NEW docs, NEW E, NEW judged, NEW d
  PROVE  /\ d \in Unresolved(docs, E, judged) <=>
              \E p \in E \cap judged : \E o \in Occurrences(docs[p]) :
                d = <<"unresolved_reference", p, o>> /\ Resolved(E, o[1]) \in {{}, {p}}
         /\ d \in Unresolved(docs, E, judged) => d[1] = "unresolved_reference"
BY DEF Unresolved

\* The successors of a record among those of E.
Successors(docs, E) == [p \in E |-> UNION { Resolved(E, r) : r \in Sup(docs[p]) }]

\* A record is reported for a cycle when supersessions lead from it without an end.
LEMMA CycleMeans ==
  ASSUME NEW docs, NEW E, NEW judged, NEW d
  PROVE  /\ d \in Cycles(docs, E, judged) <=>
              \E p \in CycleReachable(E, Successors(docs, E)) \cap judged :
                d = <<"supersession_cycle", p, p>>
         /\ d \in Cycles(docs, E, judged) => d[1] = "supersession_cycle"
<1>1. Cycles(docs, E, judged)
        = { <<"supersession_cycle", p, p>> :
              p \in CycleReachable(E, Successors(docs, E)) \cap judged }
  BY Zenon DEF Cycles, Successors
<1> QED BY <1>1

\* Duplicates of a written identity are seen whole by what is read; others stay as they were.
LEMMA ClaimsAreRead ==
  ASSUME NEW docs \in [Path -> Doc \cup {Absent}], NEW request \in Batch,
         NEW after \in {docs, Overlay(docs, request)}, NEW p \in Path,
         IdOf[p] \in WrittenIdentities(docs, request)
  PROVE  Claims(Existing(after) \cap DependencyPaths(docs, request), p) = Claims(Existing(after), p)
<1>1. ASSUME NEW q \in Claims(Existing(after), p)
      PROVE  q \in DependencyPaths(docs, request)
  <2>1. q \in Identified(docs, request) /\ IdOf[q] = IdOf[p]
    BY <1>1, Overlaid DEF Claims
  <2>2. q \in SameIdentity(docs, request)
    BY <2>1 DEF SameIdentity
  <2> QED BY <2>2, JudgedPaths DEF ValidationPaths
<1> QED BY <1>1 DEF Claims

\* A record the batch does not write is what it was.
LEMMA UnwrittenIsKept ==
  ASSUME NEW docs \in [Path -> Doc \cup {Absent}], NEW request \in Batch, NEW p \in Path,
         IdOf[p] \notin WrittenIdentities(docs, request)
  PROVE  p \in Existing(docs) <=> p \in Existing(Overlay(docs, request))
<1>1. CASE p \in DOMAIN request
  <2>1. p \notin Identified(docs, request)
    BY <1>1 DEF WrittenIdentities
  <2> QED BY <2>1, Overlaid
<1>2. CASE p \notin DOMAIN request
  <2>1. Overlay(docs, request)[p] = docs[p]
    BY <1>2, Overlaid
  <2> QED BY <2>1 DEF Existing
<1> QED BY <1>1, <1>2

\* An identity that is not written has the claimants it had.
LEMMA ClaimsAreKept ==
  ASSUME NEW docs \in [Path -> Doc \cup {Absent}], NEW request \in Batch, NEW p \in Path,
         IdOf[p] \notin WrittenIdentities(docs, request), NEW read
  PROVE  Claims(Existing(docs) \cap read, p) = Claims(Existing(Overlay(docs, request)) \cap read, p)
<1>1. \A q \in Path : IdOf[q] = IdOf[p] =>
        (q \in Existing(docs) <=> q \in Existing(Overlay(docs, request)))
  BY UnwrittenIsKept
<1>2. Existing(Overlay(docs, request)) \cup Existing(docs) \subseteq Path
  BY Overlaid
<1> QED BY <1>1, <1>2 DEF Claims

\* The duplicates a batch brings into what is read are those it brings into the store.
LEMMA DuplicatesExact ==
  ASSUME NEW docs \in [Path -> Doc \cup {Absent}], NEW request \in Batch, NEW d
  PROVE  LET after == Overlay(docs, request)
             read == DependencyPaths(docs, request)
         IN  (/\ d \in Duplicates(Existing(after) \cap read)
              /\ d \notin Duplicates(Existing(docs) \cap read))
               <=> (d \in Duplicates(Existing(after)) /\ d \notin Duplicates(Existing(docs)))
<1> DEFINE after == Overlay(docs, request)
           read == DependencyPaths(docs, request)
<1>1. Existing(after) \subseteq Path /\ Existing(docs) \subseteq Path
  BY Overlaid
<1>2. \A x \in {docs, after} : Existing(x) \subseteq Identified(docs, request)
  BY Overlaid
<1>3. ASSUME NEW x \in {docs, after}, NEW p \in Path, NEW q,
             IdOf[p] \in WrittenIdentities(docs, request), d = <<"duplicate_identity", p, q>>
      PROVE  d \in Duplicates(Existing(x) \cap read) <=> d \in Duplicates(Existing(x))
  <2>1. Claims(Existing(x) \cap read, p) = Claims(Existing(x), p)
    BY <1>3, ClaimsAreRead
  <2>2. p \in Existing(x) => p \in read
    <3>1. p \in Existing(x) => p \in SameIdentity(docs, request)
      BY <1>2, <1>3 DEF SameIdentity
    <3> QED BY <3>1, JudgedPaths DEF ValidationPaths
  <2> QED BY <1>3, <2>1, <2>2, DuplicateMeans
<1>4. ASSUME NEW S, NEW p \in Path, NEW q, S \in {read, Path},
             IdOf[p] \notin WrittenIdentities(docs, request), d = <<"duplicate_identity", p, q>>
      PROVE  d \in Duplicates(Existing(after) \cap S) <=> d \in Duplicates(Existing(docs) \cap S)
  <2>1. Claims(Existing(docs) \cap S, p) = Claims(Existing(after) \cap S, p)
    BY <1>4, ClaimsAreKept
  <2>2. p \in Existing(docs) \cap S <=> p \in Existing(after) \cap S
    BY <1>4, UnwrittenIsKept
  <2> QED BY <1>4, <2>1, <2>2, DuplicateMeans
<1>5. Existing(after) \cap Path = Existing(after) /\ Existing(docs) \cap Path = Existing(docs)
  BY <1>1
<1>6. \A E \in {Existing(after), Existing(docs),
               Existing(after) \cap read, Existing(docs) \cap read} :
        d \in Duplicates(E) => \E p \in Path : \E q : d = <<"duplicate_identity", p, q>>
  BY <1>1, DuplicateMeans
<1>7. CASE \E p \in Path : \E q : d = <<"duplicate_identity", p, q>>
  <2>1. PICK p \in Path : \E q : d = <<"duplicate_identity", p, q>>
    BY <1>7
  <2>2. PICK q : d = <<"duplicate_identity", p, q>>
    BY <2>1
  <2>3. CASE IdOf[p] \in WrittenIdentities(docs, request)
    BY <1>3, <2>2, <2>3
  <2>4. CASE IdOf[p] \notin WrittenIdentities(docs, request)
    BY <1>4, <1>5, <2>2, <2>4
  <2> QED BY <2>3, <2>4
<1> QED BY <1>6, <1>7

\* What a record refers to more than once it refers to.
LEMMA OccurrenceRefers ==
  ASSUME NEW d, NEW o \in Occurrences(d) PROVE o[1] \in Refs(d)
BY DEF Occurrences, Refs

\* So are the unresolved references: a checked record's are seen whole, and others' stay.
LEMMA UnresolvedExact ==
  ASSUME NEW docs \in [Path -> Doc \cup {Absent}], NEW request \in Batch, NEW d
  PROVE  LET after == Overlay(docs, request)
             read == DependencyPaths(docs, request)
             judged == ValidationPaths(docs, request)
         IN  (/\ d \in Unresolved(after, Existing(after) \cap read, judged)
              /\ d \notin Unresolved(docs, Existing(docs) \cap read, judged))
               <=> (/\ d \in Unresolved(after, Existing(after), Path)
                    /\ d \notin Unresolved(docs, Existing(docs), Path))
<1> DEFINE after == Overlay(docs, request)
           read == DependencyPaths(docs, request)
           judged == ValidationPaths(docs, request)
<1>1. /\ Existing(after) \subseteq Path /\ Existing(docs) \subseteq Path
      /\ judged \subseteq read /\ read \subseteq Path
  BY Overlaid, JudgedPaths
<1>2. ASSUME NEW x \in {docs, after}, NEW p \in judged, NEW o, d = <<"unresolved_reference", p, o>>
      PROVE  d \in Unresolved(x, Existing(x) \cap read, judged)
               <=> d \in Unresolved(x, Existing(x), Path)
  <2>1. ASSUME o \in Occurrences(x[p])
        PROVE  Resolved(Existing(x) \cap read, o[1]) = Resolved(Existing(x), o[1])
    <3>1. Locations(o[1]) \subseteq read
      BY <2>1, OccurrenceRefers, CheckedRefsAreRead
    <3>2. Locations(o[1]) \cap (Existing(x) \cap read) = Locations(o[1]) \cap Existing(x)
      BY <3>1
    <3> QED BY <3>2 DEF Resolved
  <2> QED BY <1>1, <1>2, <2>1, UnresolvedMeans
<1>3. ASSUME NEW p \in Path \ judged, NEW o, d = <<"unresolved_reference", p, o>>
      PROVE  /\ d \notin Unresolved(after, Existing(after) \cap read, judged)
             /\ d \in Unresolved(after, Existing(after), Path)
                  => d \in Unresolved(docs, Existing(docs), Path)
  <2>1. d \notin Unresolved(after, Existing(after) \cap read, judged)
    BY <1>3, UnresolvedMeans
  <2>2. ASSUME p \in Existing(after), o \in Occurrences(after[p]),
               Resolved(Existing(after), o[1]) \in {{}, {p}}
        PROVE  /\ p \in Existing(docs) /\ o \in Occurrences(docs[p])
               /\ Resolved(Existing(docs), o[1]) \in {{}, {p}}
    <3>1. /\ p \in Existing(docs) /\ after[p] = docs[p]
          /\ \A s \in Refs(docs[p]) : Resolved(Existing(after), s) = Resolved(Existing(docs), s)
      BY <2>2, UncheckedResolvesAsBefore
    <3> QED BY <2>2, <3>1, OccurrenceRefers
  <2>3. d \in Unresolved(after, Existing(after), Path)
          => /\ p \in Existing(after) /\ o \in Occurrences(after[p])
             /\ Resolved(Existing(after), o[1]) \in {{}, {p}}
    BY <1>3, UnresolvedMeans
  <2>4. p \in Existing(docs) /\ o \in Occurrences(docs[p])
          /\ Resolved(Existing(docs), o[1]) \in {{}, {p}}
          => d \in Unresolved(docs, Existing(docs), Path)
    BY <1>3, UnresolvedMeans
  <2> QED BY <2>1, <2>2, <2>3, <2>4
<1>4. ASSUME NEW x, NEW E \in SUBSET Path, NEW S, d \in Unresolved(x, E, S)
      PROVE  \E p \in Path : \E o : d = <<"unresolved_reference", p, o>>
  BY <1>4, UnresolvedMeans
<1>5. CASE \E p \in Path : \E o : d = <<"unresolved_reference", p, o>>
  <2>1. PICK p \in Path : \E o : d = <<"unresolved_reference", p, o>>
    BY <1>5
  <2>2. PICK o : d = <<"unresolved_reference", p, o>>
    BY <2>1
  <2>3. CASE p \in judged
    BY <1>2, <2>2, <2>3
  <2>4. CASE p \notin judged
    BY <1>3, <2>2, <2>4
  <2> QED BY <2>3, <2>4
<1>6. CASE ~ \E p \in Path : \E o : d = <<"unresolved_reference", p, o>>
  <2>1. d \notin Unresolved(after, Existing(after) \cap read, judged)
    BY <1>1, <1>4, <1>6
  <2>2. d \notin Unresolved(after, Existing(after), Path)
    BY <1>1, <1>4, <1>6
  <2> QED BY <2>1, <2>2
<1> QED BY <1>5, <1>6

\* What the supersessions of a batch are judged on: the checked records and all that they lead to.
Followed(docs, request) == ValidationPaths(docs, request) \cup SupersessionClosure(docs, request)

\* The closure of the frontier is closed and holds the frontier.
LEMMA ClosureIsClosed ==
  ASSUME NEW docs, NEW request
  PROVE  /\ \A p \in ValidationPaths(docs, request) :
              Supersedes(docs, request, p) \subseteq SupersessionClosure(docs, request)
         /\ \A p \in SupersessionClosure(docs, request) :
              SupersededFrom(docs, request, p) \subseteq SupersessionClosure(docs, request)
<1> DEFINE Frontier == UNION { Supersedes(docs, request, p) : p \in ValidationPaths(docs, request) }
           Closed(S) ==
             /\ Frontier \subseteq S
             /\ \A x \in S : SupersededFrom(docs, request, x) \subseteq S
<1>1. SupersessionClosure(docs, request)
        = { q \in Path : \A S \in SUBSET Path : Closed(S) => q \in S }
  BY Zenon DEF SupersessionClosure
<1>2. Frontier \subseteq Path
  BY DEF Supersedes
<1>3. \A x : SupersededFrom(docs, request, x) \subseteq Path
  BY DEF SupersededFrom, Locations
<1> HIDE DEF Frontier
<1>4. Frontier \subseteq SupersessionClosure(docs, request)
  BY <1>1, <1>2
<1>5. ASSUME NEW p \in SupersessionClosure(docs, request),
             NEW q \in SupersededFrom(docs, request, p)
      PROVE  q \in SupersessionClosure(docs, request)
  BY <1>1, <1>3, <1>5
<1> QED BY <1>4, <1>5 DEF Frontier

\* A supersession of a followed record leads to followed records, all of them read.
LEMMA FollowedIsClosed ==
  ASSUME NEW docs, NEW request, Judgeable(docs, request),
         NEW after \in {docs, Overlay(docs, request)},
         NEW p \in Followed(docs, request), NEW r \in Sup(after[p])
  PROVE  Locations(r) \subseteq Followed(docs, request) \cap DependencyPaths(docs, request)
<1>1. docs \in [Path -> Doc \cup {Absent}] /\ request \in Batch /\ Unaliased(docs, request)
  BY DEF Judgeable
<1>2. p \in Path
  BY <1>1, JudgedPaths DEF Followed, SupersessionClosure
<1>3. r \in MergedSup(docs, request, p)
  BY <1>1, <1>2, RefsAreMerged
<1>4. SupersessionClosure(docs, request)
        \subseteq Followed(docs, request) \cap DependencyPaths(docs, request)
  BY DEF Followed, DependencyPaths
<1>5. CASE p \in SupersessionClosure(docs, request)
  <2>1. Locations(r) \subseteq SupersededFrom(docs, request, p)
    BY <1>3 DEF SupersededFrom
  <2> QED BY <1>4, <1>5, <2>1, ClosureIsClosed
<1>6. CASE p \in ValidationPaths(docs, request)
  <2>1. ASSUME NEW q \in Locations(r)
        PROVE  q \in Supersedes(docs, request, p)
    <3> DEFINE naming == { s \in MergedRefs(docs, request, p) : q \in Locations(s) }
    <3>1. q \in Path /\ (r = q \/ r = IdOf[q])
      BY <2>1 DEF Locations
    <3>2. IdOf[q] < q /\ q \in Nat /\ IdOf[q] \in Nat
      BY <3>1, KeysAssumption
    <3>3. \A s \in naming : s = q \/ s = IdOf[q]
      BY DEF Locations
    <3>4. r \in naming
      BY <1>3, <2>1 DEF MergedRefs
    <3>5. q \in naming => q \in MergedSup(docs, request, p)
      <4>1. q \in naming => q \in MergedRel(docs, request, p) \/ q \in MergedSup(docs, request, p)
        BY DEF MergedRefs
      <4>2. r = IdOf[q] /\ q \in MergedRel(docs, request, p) => q \in MergedSup(docs, request, p)
        BY <1>1, <1>2, <1>3, <3>1 DEF Unaliased
      <4> QED BY <1>3, <3>1, <4>1, <4>2
    <3>6. \E s \in naming : s \in MergedSup(docs, request, p) /\ \A t \in naming : t <= s
      <4>1. CASE q \in naming
        <5>1. \A t \in naming : t <= q
          BY <3>2, <3>3
        <5> QED BY <3>5, <4>1, <5>1
      <4>2. CASE q \notin naming
        <5>1. r = IdOf[q] /\ \A t \in naming : t = IdOf[q]
          BY <3>1, <3>3, <3>4, <4>2
        <5>2. \A t \in naming : t <= r
          BY <3>2, <5>1
        <5> QED BY <1>3, <3>4, <5>2
      <4> QED BY <4>1, <4>2
    <3> QED BY <3>1, <3>6, Zenon DEF Supersedes
  <2> QED BY <1>4, <1>6, <2>1, ClosureIsClosed
<1> QED BY <1>5, <1>6 DEF Followed

\* A set of records each of which supersedes another of the set, and the union of all.
LEMMA CycleReachableMeans ==
  ASSUME NEW E, NEW next, NEW p
  PROVE  p \in CycleReachable(E, next) <=>
           \E S \in SUBSET E : p \in S /\ \A q \in S : next[q] \cap S # {}
BY DEF CycleReachable

\* Every set of records that all have a successor in it is on or before a cycle.
LEMMA CycleOf ==
  ASSUME NEW E, NEW next, NEW S \in SUBSET E, \A q \in S : next[q] \cap S # {}
  PROVE  S \subseteq CycleReachable(E, next)
BY DEF CycleReachable

\* A cycle that a followed record leads to is made of followed records.
LEMMA CyclesAreFollowed ==
  ASSUME NEW docs, NEW request, Judgeable(docs, request),
         NEW after \in {docs, Overlay(docs, request)}, NEW p \in Followed(docs, request),
         NEW E, NEW F,
         E \cap DependencyPaths(docs, request) = F \cap DependencyPaths(docs, request),
         p \in CycleReachable(E, Successors(after, E))
  PROVE  p \in CycleReachable(F, Successors(after, F))
<1> DEFINE read == DependencyPaths(docs, request)
<1>1. PICK S \in SUBSET E : p \in S /\ \A q \in S : Successors(after, E)[q] \cap S # {}
  BY CycleReachableMeans
<1>2. Followed(docs, request) \subseteq read
  BY DEF Followed, DependencyPaths
<1> DEFINE T == S \cap Followed(docs, request)
<1>3. T \subseteq F
  BY <1>2
<1>4. ASSUME NEW q \in T
      PROVE  Successors(after, F)[q] \cap T # {}
  <2>1. PICK t \in S : t \in UNION { Resolved(E, r) : r \in Sup(after[q]) }
    BY <1>1 DEF Successors
  <2>2. PICK r \in Sup(after[q]) : t \in Resolved(E, r)
    BY <2>1
  <2>3. Locations(r) \subseteq Followed(docs, request) \cap read
    BY FollowedIsClosed
  <2>4. Locations(r) \cap E = Locations(r) \cap F
    BY <2>3
  <2>5. Resolved(E, r) = Resolved(F, r)
    BY <2>4 DEF Resolved
  <2>6. t \in Locations(r)
    BY <2>2 DEF Resolved
  <2>7. t \in T
    BY <2>3, <2>6
  <2>8. t \in Successors(after, F)[q]
    BY <1>3, <2>2, <2>5 DEF Successors
  <2> QED BY <2>7, <2>8
<1>5. p \in T
  BY <1>1
<1> HIDE DEF T
<1>6. T \subseteq CycleReachable(F, Successors(after, F))
  BY <1>3, <1>4, CycleOf
<1> QED BY <1>5, <1>6

\* A checked record is seen to lead to a cycle by what is read when it does so in the store.
LEMMA CheckedCyclesExact ==
  ASSUME NEW docs, NEW request, Judgeable(docs, request),
         NEW after \in {docs, Overlay(docs, request)}, NEW p \in ValidationPaths(docs, request)
  PROVE  LET E == Existing(after)
             F == Existing(after) \cap DependencyPaths(docs, request)
         IN  p \in CycleReachable(E, Successors(after, E))
               <=> p \in CycleReachable(F, Successors(after, F))
<1> DEFINE E == Existing(after)
           F == Existing(after) \cap DependencyPaths(docs, request)
<1>1. E \cap DependencyPaths(docs, request) = F \cap DependencyPaths(docs, request)
  OBVIOUS
<1>2. p \in Followed(docs, request)
  BY DEF Followed
<1> HIDE DEF E, F
<1>3. p \in CycleReachable(E, Successors(after, E)) => p \in CycleReachable(F, Successors(after, F))
  BY <1>1, <1>2, CyclesAreFollowed
<1>4. p \in CycleReachable(F, Successors(after, F)) => p \in CycleReachable(E, Successors(after, E))
  BY <1>1, <1>2, CyclesAreFollowed
<1> QED BY <1>3, <1>4 DEF E, F

\* A batch that makes no checked record lead to a cycle makes none at all do so.
LEMMA CyclesComeFromChecked ==
  ASSUME NEW docs \in [Path -> Doc \cup {Absent}], NEW request \in Batch,
         \A p \in ValidationPaths(docs, request) :
           p \in CycleReachable(Existing(Overlay(docs, request)),
                                Successors(Overlay(docs, request),
                                           Existing(Overlay(docs, request))))
             => p \in CycleReachable(Existing(docs), Successors(docs, Existing(docs)))
  PROVE  CycleReachable(Existing(Overlay(docs, request)),
                        Successors(Overlay(docs, request), Existing(Overlay(docs, request))))
           \subseteq CycleReachable(Existing(docs), Successors(docs, Existing(docs)))
<1> DEFINE after == Overlay(docs, request)
           judged == ValidationPaths(docs, request)
           A == Existing(after)
           B == Existing(docs)
           T == CycleReachable(B, Successors(docs, B))
<1> SUFFICES ASSUME NEW p \in CycleReachable(A, Successors(after, A)) PROVE p \in T
  OBVIOUS
<1>1. PICK S \in SUBSET A : p \in S /\ \A q \in S : Successors(after, A)[q] \cap S # {}
  BY CycleReachableMeans
<1> DEFINE R == (S \ judged) \cup T
<1>2. S \cap judged \subseteq T
  <2>1. S \subseteq CycleReachable(A, Successors(after, A))
    BY <1>1, CycleReachableMeans
  <2> QED BY <2>1
<1>3. A \subseteq Path /\ B \subseteq Path
  BY Overlaid
<1>4. ASSUME NEW q \in S \ judged
      PROVE  q \in B /\ Successors(docs, B)[q] = Successors(after, A)[q]
  <2>1. q \in Path \ judged /\ q \in A
    BY <1>3
  <2>2. /\ q \in B /\ after[q] = docs[q]
        /\ \A r \in Refs(docs[q]) : Resolved(A, r) = Resolved(B, r)
    BY <2>1, UncheckedResolvesAsBefore
  <2>3. { Resolved(A, r) : r \in Sup(after[q]) } = { Resolved(B, r) : r \in Sup(docs[q]) }
    BY <2>2 DEF Refs
  <2> QED BY <2>1, <2>2, <2>3, Zenon DEF Successors
<1>5. T \subseteq B
  BY CycleReachableMeans
<1>6. R \subseteq B
  BY <1>4, <1>5
<1> HIDE DEF A, B, judged, after
<1>7. ASSUME NEW q \in R
      PROVE  Successors(docs, B)[q] \cap R # {}
  <2>1. CASE q \in S \ judged
    BY <1>1, <1>2, <1>4, <2>1
  <2>2. CASE q \in T
    <3>1. PICK U \in SUBSET B : q \in U /\ \A x \in U : Successors(docs, B)[x] \cap U # {}
      BY <2>2, CycleReachableMeans
    <3>2. U \subseteq T
      BY <3>1, CycleReachableMeans
    <3> QED BY <3>1, <3>2
  <2> QED BY <2>1, <2>2
<1>8. p \in R
  BY <1>1, <1>2
<1> HIDE DEF R
<1>9. R \subseteq T
  BY <1>6, <1>7, CycleOf DEF T
<1> QED BY <1>8, <1>9

\* What a batch is found to introduce: the diagnostics of what is read, new with the batch.
LEMMA IntroducedLocally ==
  ASSUME NEW docs \in [Path -> Doc \cup {Absent}], NEW request \in Batch
  PROVE  LET after == Overlay(docs, request)
             read == DependencyPaths(docs, request)
             judged == ValidationPaths(docs, request)
         IN  Introduced(ReadPart(docs, read), request, read, judged)
               = Diagnostics(after, Existing(after) \cap read, judged)
                   \ Diagnostics(docs, Existing(docs) \cap read, judged)
<1> DEFINE after == Overlay(docs, request)
           read == DependencyPaths(docs, request)
           judged == ValidationPaths(docs, request)
<1>1. DOMAIN request \subseteq read /\ read \in SUBSET Path
  BY JudgedPaths
<1>2. after \in [Path -> Doc \cup {Absent}]
  BY Overlaid
<1>3. /\ Overlay(ReadPart(docs, read), request) = ReadPart(after, read)
      /\ Existing(ReadPart(docs, read)) \cap read = Existing(docs) \cap read
  BY <1>1, ReadPartType
<1>4. Existing(ReadPart(after, read)) \cap read = Existing(after) \cap read
  BY <1>1, <1>2 DEF ReadPart, Existing
<1> HIDE DEF after, read, judged
<1>5. Diagnostics(ReadPart(after, read), Existing(after) \cap read, judged)
        = Diagnostics(after, Existing(after) \cap read, judged)
  BY <1>1, <1>2, ReadDiagnostics
<1>6. Diagnostics(ReadPart(docs, read), Existing(docs) \cap read, judged)
        = Diagnostics(docs, Existing(docs) \cap read, judged)
  BY <1>1, ReadDiagnostics
<1>7. Introduced(ReadPart(docs, read), request, read, judged)
        = Diagnostics(after, Existing(after) \cap read, judged)
            \ Diagnostics(docs, Existing(docs) \cap read, judged)
  BY <1>3, <1>4, <1>5, <1>6 DEF Introduced
<1> QED BY <1>7 DEF after, read, judged

\* A diagnostic is of one of three kinds.
LEMMA DiagnosticMeans ==
  ASSUME NEW docs, NEW E, NEW judged, NEW d
  PROVE  /\ d \in Diagnostics(docs, E, judged) <=>
              \/ d \in Duplicates(E)
              \/ d \in Unresolved(docs, E, judged)
              \/ d \in Cycles(docs, E, judged)
         /\ d \in Duplicates(E) => d[1] = "duplicate_identity"
         /\ d \in Unresolved(docs, E, judged) => d[1] = "unresolved_reference"
         /\ d \in Cycles(docs, E, judged) => d[1] = "supersession_cycle"
BY DuplicateMeans, UnresolvedMeans, CycleMeans DEF Diagnostics

\* Whatever a batch is found to introduce is new in the whole store.
LEMMA IntroducedIsReal ==
  ASSUME NEW docs, NEW request, Judgeable(docs, request)
  PROVE  Introduced(ReadPart(docs, DependencyPaths(docs, request)), request,
                    DependencyPaths(docs, request), ValidationPaths(docs, request))
           \subseteq StoreDiagnostics(Overlay(docs, request)) \ StoreDiagnostics(docs)
<1> DEFINE after == Overlay(docs, request)
           read == DependencyPaths(docs, request)
           judged == ValidationPaths(docs, request)
<1>1. docs \in [Path -> Doc \cup {Absent}] /\ request \in Batch
  BY DEF Judgeable
<1>2. judged \subseteq Path
  BY <1>1, JudgedPaths
<1>3. SUFFICES ASSUME NEW d,
                      d \in Diagnostics(after, Existing(after) \cap read, judged),
                      d \notin Diagnostics(docs, Existing(docs) \cap read, judged)
               PROVE  /\ d \in Diagnostics(after, Existing(after), Path)
                      /\ d \notin Diagnostics(docs, Existing(docs), Path)
  BY <1>1, IntroducedLocally DEF StoreDiagnostics
<1>4. CASE d \in Duplicates(Existing(after) \cap read)
  <2>1. d \in Duplicates(Existing(after)) /\ d \notin Duplicates(Existing(docs))
    BY <1>1, <1>3, <1>4, DuplicatesExact, DiagnosticMeans
  <2>2. d[1] = "duplicate_identity"
    BY <1>4, DiagnosticMeans
  <2> QED BY <2>1, <2>2, DiagnosticMeans
<1>5. CASE d \in Unresolved(after, Existing(after) \cap read, judged)
  <2>1. /\ d \in Unresolved(after, Existing(after), Path)
        /\ d \notin Unresolved(docs, Existing(docs), Path)
    BY <1>1, <1>3, <1>5, UnresolvedExact, DiagnosticMeans
  <2>2. d[1] = "unresolved_reference"
    BY <1>5, DiagnosticMeans
  <2> QED BY <2>1, <2>2, DiagnosticMeans
<1>6. CASE d \in Cycles(after, Existing(after) \cap read, judged)
  <2> DEFINE A == Existing(after)
             B == Existing(docs)
  <2>1. PICK p \in CycleReachable(A \cap read, Successors(after, A \cap read)) \cap judged :
          d = <<"supersession_cycle", p, p>>
    BY <1>6, CycleMeans
  <2>2. d \notin Cycles(docs, B \cap read, judged)
    BY <1>3, DiagnosticMeans
  <2>3. p \notin CycleReachable(B \cap read, Successors(docs, B \cap read))
    BY <2>1, <2>2, CycleMeans
  <2>4. p \in CycleReachable(A, Successors(after, A))
    BY <2>1, CheckedCyclesExact
  <2>5. p \notin CycleReachable(B, Successors(docs, B))
    BY <2>1, <2>3, CheckedCyclesExact
  <2>6. d \in Cycles(after, A, Path)
    BY <1>2, <2>1, <2>4, CycleMeans
  <2>7. d \notin Cycles(docs, B, Path)
    <3>1. \A q : d = <<"supersession_cycle", q, q>> => q = p
      BY <2>1
    <3> QED BY <2>5, <3>1, CycleMeans
  <2>8. d[1] = "supersession_cycle"
    BY <1>6, DiagnosticMeans
  <2> QED BY <2>6, <2>7, <2>8, DiagnosticMeans
<1> QED BY <1>3, <1>4, <1>5, <1>6, DiagnosticMeans

\* A batch that is found to introduce nothing introduces nothing anywhere in the store.
LEMMA NothingElseIntroduced ==
  ASSUME NEW docs, NEW request, Judgeable(docs, request),
         Introduced(ReadPart(docs, DependencyPaths(docs, request)), request,
                    DependencyPaths(docs, request), ValidationPaths(docs, request)) = {}
  PROVE  StoreDiagnostics(Overlay(docs, request)) \subseteq StoreDiagnostics(docs)
<1> DEFINE after == Overlay(docs, request)
           read == DependencyPaths(docs, request)
           judged == ValidationPaths(docs, request)
           A == Existing(after)
           B == Existing(docs)
<1>1. docs \in [Path -> Doc \cup {Absent}] /\ request \in Batch
  BY DEF Judgeable
<1>2. \A d : d \in Diagnostics(after, A \cap read, judged)
               => d \in Diagnostics(docs, B \cap read, judged)
  BY <1>1, IntroducedLocally
<1>3. \A p \in judged :
        p \in CycleReachable(A, Successors(after, A))
          => p \in CycleReachable(B, Successors(docs, B))
  <2>1. SUFFICES ASSUME NEW p \in judged, p \in CycleReachable(A, Successors(after, A))
                 PROVE  p \in CycleReachable(B, Successors(docs, B))
    OBVIOUS
  <2>2. p \in CycleReachable(A \cap read, Successors(after, A \cap read))
    BY <2>1, CheckedCyclesExact
  <2> DEFINE d == <<"supersession_cycle", p, p>>
  <2>3. d \in Cycles(after, A \cap read, judged)
    BY <2>1, <2>2, CycleMeans
  <2>4. d \in Cycles(docs, B \cap read, judged)
    <3>1. d \in Diagnostics(docs, B \cap read, judged)
      BY <1>2, <2>3, DiagnosticMeans
    <3>2. d[1] = "supersession_cycle"
      OBVIOUS
    <3> QED BY <3>1, <3>2, DiagnosticMeans
  <2>5. PICK q \in CycleReachable(B \cap read, Successors(docs, B \cap read)) \cap judged :
          d = <<"supersession_cycle", q, q>>
    BY <2>4, CycleMeans
  <2>6. q = p
    BY <2>5
  <2>7. p \in CycleReachable(B \cap read, Successors(docs, B \cap read))
    BY <2>5, <2>6
  <2> QED BY <2>1, <2>7, CheckedCyclesExact
<1>4. CycleReachable(A, Successors(after, A)) \subseteq CycleReachable(B, Successors(docs, B))
  BY <1>1, <1>3, CyclesComeFromChecked
<1>5. ASSUME NEW d, d \in Diagnostics(after, A, Path)
      PROVE  d \in Diagnostics(docs, B, Path)
  <2>1. CASE d \in Duplicates(A)
    <3>1. SUFFICES ASSUME d \notin Duplicates(B) PROVE FALSE
      BY DiagnosticMeans
    <3>2. d \in Duplicates(A \cap read) /\ d \notin Duplicates(B \cap read)
      BY <1>1, <2>1, <3>1, DuplicatesExact
    <3>3. d[1] = "duplicate_identity" /\ d \in Diagnostics(docs, B \cap read, judged)
      BY <1>2, <3>2, DiagnosticMeans
    <3> QED BY <3>2, <3>3, DiagnosticMeans
  <2>2. CASE d \in Unresolved(after, A, Path)
    <3>1. SUFFICES ASSUME d \notin Unresolved(docs, B, Path) PROVE FALSE
      BY DiagnosticMeans
    <3>2. /\ d \in Unresolved(after, A \cap read, judged)
          /\ d \notin Unresolved(docs, B \cap read, judged)
      BY <1>1, <2>2, <3>1, UnresolvedExact
    <3>3. d[1] = "unresolved_reference" /\ d \in Diagnostics(docs, B \cap read, judged)
      BY <1>2, <3>2, DiagnosticMeans
    <3> QED BY <3>2, <3>3, DiagnosticMeans
  <2>3. CASE d \in Cycles(after, A, Path)
    <3>1. d \in Cycles(docs, B, Path)
      BY <1>4, <2>3, CycleMeans
    <3> QED BY <3>1, DiagnosticMeans
  <2> QED BY <1>5, <2>1, <2>2, <2>3, DiagnosticMeans
<1> QED BY <1>5 DEF StoreDiagnostics

\* What is judged at a store that is found.
LEMMA DiscoveredType ==
  ASSUME store \in [Path -> Doc \cup {Absent}], NEW request \in Request
  PROVE  /\ request \in Batch
         /\ Overlay(store, request) \in [Path -> Doc \cup {Absent}]
         /\ Captured(request) = ReadPart(store, DependencyPaths(store, request))
<1>1. request \in Batch
  <2>1. DOMAIN request \in (SUBSET Path) \ {{}} /\ request \in [DOMAIN request -> Change]
    BY DiscoveryAssumption
  <2> QED BY <2>1 DEF Batch
<1> QED BY <1>1, Overlaid DEF Captured, ReadPart

\* Acceptance looks at whether the targets are what the batch takes them for.
LEMMA AcceptedMatches ==
  ASSUME store \in [Path -> Doc \cup {Absent}], NEW request \in Request, ~ Refused(request)
  PROVE  /\ ~ TargetMismatch(store, request)
         /\ Introduced(ReadPart(store, DependencyPaths(store, request)), request,
                       DependencyPaths(store, request), ValidationPaths(store, request)) = {}
<1>1. /\ request \in Batch
      /\ Captured(request) = ReadPart(store, DependencyPaths(store, request))
  BY DiscoveredType
<1>2. DOMAIN request \subseteq DependencyPaths(store, request) /\ DOMAIN request \subseteq Path
  BY <1>1, JudgedPaths
<1>3. \A p \in DOMAIN request : Captured(request)[p] = store[p]
  BY <1>1, <1>2 DEF ReadPart
<1>4. ~ TargetMismatch(Captured(request), request)
  BY DEF Refused, Rejected
<1> QED BY <1>1, <1>3, <1>4 DEF Refused, Rejected, TargetMismatch

\* Every judged store is made of bodies.
LEMMA FoundType == Judgements => [](store \in [Path -> Doc \cup {Absent}])
<1> DEFINE Typed == store \in [Path -> Doc \cup {Absent}]
<1>1. Found => Typed
  BY DiscoveryAssumption DEF Found
<1>2. Typed /\ [Judge]_store => Typed'
  BY DiscoveredType DEF Judge, Accept, Refuse
<1> HIDE DEF Typed
<1>3. Judgements => []Typed
  BY <1>1, <1>2, PTL DEF Judgements
<1> QED BY <1>3 DEF Typed

\* Every diagnostic a batch is refused for is one a scan would report after it and not before.
LEMMA RefusalsAreReal ==
  ASSUME store \in [Path -> Doc \cup {Absent}],
         \A request \in Request : Unaliased(store, request)
  PROVE  NothingInvented
<1> SUFFICES ASSUME NEW request \in Request, ~ TargetMismatch(store, request)
             PROVE  Introduced(Captured(request), request, DependencyPaths(store, request),
                               ValidationPaths(store, request))
                      \subseteq StoreDiagnostics(Overlay(store, request)) \ StoreDiagnostics(store)
  BY DEF NothingInvented
<1>1. /\ Captured(request) = ReadPart(store, DependencyPaths(store, request))
      /\ Judgeable(store, request)
  BY DiscoveredType DEF Judgeable
<1> QED BY <1>1, IntroducedIsReal

\* At any store, and for any set of requests that name no superseded record in two ways: the
\* few files that discovery selects decide what a scan of the whole store would.
THEOREM LocalJudgementIsExact ==
  Judgements =>
    [][(\A request \in Request : Unaliased(store, request)) =>
         /\ StoreDiagnostics(store') \subseteq StoreDiagnostics(store)
         /\ NothingInvented]_store
<1> DEFINE Typed == store \in [Path -> Doc \cup {Absent}]
<1>1. ASSUME Typed, [Judge]_store, \A request \in Request : Unaliased(store, request)
      PROVE  StoreDiagnostics(store') \subseteq StoreDiagnostics(store)
  <2>1. CASE Accept
    <3>1. PICK request \in Request : ~ Refused(request) /\ store' = Overlay(store, request)
      BY <2>1 DEF Accept
    <3>2. Judgeable(store, request)
      BY <1>1, <3>1, AcceptedMatches, DiscoveredType DEF Judgeable
    <3> QED BY <1>1, <3>1, <3>2, AcceptedMatches, NothingElseIntroduced
  <2>2. CASE UNCHANGED store
    BY <2>2 DEF StoreDiagnostics
  <2> QED BY <1>1, <2>1, <2>2 DEF Judge, Refuse
<1>2. Typed /\ (\A request \in Request : Unaliased(store, request)) => NothingInvented
  BY RefusalsAreReal
<1>3. Judgements => []Typed
  BY FoundType
<1> QED BY <1>1, <1>2, <1>3, PTL DEF Judgements

\* No body names a record by its path as a related one that another body supersedes by its
\* identity alone.
NoAlias ==
  \A d, e \in Doc, q \in Path : q \in d.rel /\ IdOf[q] \in e.sup => q \in e.sup

\* Then no batch makes a record an alias either.
LEMMA NoAliasMeans ==
  ASSUME NoAlias, NEW docs \in [Path -> Doc \cup {Absent}], NEW request \in Batch
  PROVE  Unaliased(docs, request)
<1>1. \A d \in Doc \cup {Absent}, e \in Doc \cup {Absent}, q \in Path :
        q \in Rel(d) /\ IdOf[q] \in Sup(e) => q \in Sup(e)
  BY DEF NoAlias, Rel, Sup
<1>2. /\ \A p \in Path : docs[p] \in Doc \cup {Absent}
      /\ \A p \in DOMAIN request : request[p].doc \in Doc \cup {Absent}
  BY BatchType
<1>3. SUFFICES ASSUME NEW p \in Path, NEW q \in Path, q \in MergedRel(docs, request, p),
                      IdOf[q] \in MergedSup(docs, request, p)
               PROVE  q \in MergedSup(docs, request, p)
  BY DEF Unaliased
<1>4. PICK d \in Doc \cup {Absent} : q \in Rel(d)
  BY <1>2, <1>3 DEF MergedRel
<1> QED BY <1>1, <1>2, <1>3, <1>4 DEF MergedSup

\* Where no body aliases what another supersedes, an accepted batch brings no diagnostic into
\* the store.
THEOREM JudgementIntroducesNothing ==
  ASSUME NoAlias PROVE Judgements => NothingIntroduced
<1> DEFINE Typed == store \in [Path -> Doc \cup {Absent}]
<1>1. Typed => \A request \in Request : Unaliased(store, request)
  BY DiscoveredType, NoAliasMeans
<1>2. Judgements => []Typed
  BY FoundType
<1> HIDE DEF Typed
<1> QED BY <1>1, <1>2, LocalJudgementIsExact, PTL DEF NothingIntroduced

\* And it is refused for no diagnostic that a scan would not report after it, or did before.
THEOREM JudgementInventsNothing ==
  ASSUME NoAlias PROVE Judgements => []NoReferenceInvented
<1>1. store \in [Path -> Doc \cup {Absent}] => NoReferenceInvented
  <2>1. store \in [Path -> Doc \cup {Absent}] => \A request \in Request : Unaliased(store, request)
    BY DiscoveredType, NoAliasMeans
  <2> QED BY <2>1, RefusalsAreReal DEF NoReferenceInvented
<1> QED BY <1>1, FoundType, PTL

(***************************************************************************)
(* The committed store.                                                    *)
(***************************************************************************)

\* A path that somebody publishes counts as what its one publisher captured, any other as its file.
CommittedMeans ==
  \A p \in Path :
    /\ \A w \in Writer : p \in Published(w) => CommittedStore[p] = seen[w][p].doc
    /\ (\A w \in Writer : p \notin Published(w)) => CommittedStore[p] = files[p].doc

\* What one writer has published no other has.
Exclusive ==
  \A v, w \in Writer : v # w => Published(v) \cap Published(w) = {}

\* No two writers that publish or roll back have a target in common.
LEMMA WritesExclude ==
  ASSUME TypeInv, LockInv, Receipted,
         NEW v \in Writer, NEW w \in Writer, v # w, Writing(v), Writing(w)
  PROVE  DOMAIN batch[v] \cap DOMAIN batch[w] = {}
<1>1. /\ DOMAIN batch[v] \subseteq held[v] \cap want[v].excl
      /\ DOMAIN batch[w] \subseteq held[w]
  BY DEF TypeInv, Targeted, LockInv, Prefix, Receipted, Writing, Locked
<1> QED BY <1>1 DEF LockInv, LockExclusion

\* A published path is a target of the batch under way, and its receipt knows what was captured.
LEMMA PublishedMeans ==
  ASSUME TypeInv, Receipted, NEW w \in Writer, NEW p \in Published(w)
  PROVE  /\ p \in DOMAIN batch[w] /\ p \in Path /\ Writing(w) /\ applying[w]
         /\ seen[w][p].doc \in Doc \cup {Absent}
         /\ \E i \in DOMAIN receipts[w] : receipts[w][i].path = p
         /\ \A i \in DOMAIN receipts[w] :
              receipts[w][i].path = p => receipts[w][i].prior = seen[w][p].doc
<1>1. PICK i \in DOMAIN receipts[w] : receipts[w][i].path = p
  BY DEF Published
<1>2. receipts[w] \in Seq(Receipt)
  BY DEF TypeInv, TypeOK
<1>3. receipts[w][i] \in Receipt
  BY <1>1, <1>2
<1>4. receipts[w] # <<>>
  BY <1>1
<1> QED BY <1>1, <1>3, <1>4 DEF Receipted, Receipt

\* The locks and the receipts see to it.
LEMMA CommittedMeant == TypeInv /\ LockInv /\ Receipted => CommittedMeans /\ Exclusive
<1> SUFFICES ASSUME TypeInv, LockInv, Receipted PROVE CommittedMeans /\ Exclusive
  OBVIOUS
<1>1. Exclusive
  BY PublishedMeans, WritesExclude DEF Exclusive
<1>2. ASSUME NEW p \in Path, NEW w \in Writer, p \in Published(w)
      PROVE  CommittedStore[p] = seen[w][p].doc
  <2>1. Publishing(p) = {w}
    BY <1>1, <1>2 DEF Publishing, Exclusive
  <2>2. PriorOf(w, p) = seen[w][p].doc
    BY <1>2, PublishedMeans DEF PriorOf
  <2>3. CommittedStore[p] = PriorOf(CHOOSE v \in Publishing(p) : TRUE, p)
    BY <2>1 DEF CommittedStore
  <2> QED BY <2>1, <2>2, <2>3
<1>3. ASSUME NEW p \in Path, \A w \in Writer : p \notin Published(w)
      PROVE  CommittedStore[p] = files[p].doc
  BY <1>3 DEF CommittedStore, Publishing
<1> QED BY <1>1, <1>2, <1>3 DEF CommittedMeans

\* So it is a store.
LEMMA CommittedType ==
  TypeInv /\ LockInv /\ Receipted => CommittedStore \in [Path -> Doc \cup {Absent}]
<1> SUFFICES ASSUME TypeInv, LockInv, Receipted, NEW p \in Path
             PROVE  CommittedStore[p] \in Doc \cup {Absent}
  BY DEF CommittedStore
<1>1. files[p].doc \in Doc \cup {Absent}
  BY DEF TypeInv, TypeOK, Version
<1> QED BY <1>1, CommittedMeant, PublishedMeans DEF CommittedMeans

\* Every target is published once, and as long as nobody edits it stays as it was published.
Once ==
  \A w \in Writer : \A i, j \in DOMAIN receipts[w] :
    receipts[w][i].path = receipts[w][j].path => i = j

Standing == \A w \in Writer : \A p \in Published(w) : files[p].doc = batch[w][p].doc

(***************************************************************************)
(* What a step of one writer does to published files.                      *)
(***************************************************************************)
Handled(w) ==
  /\ \A v \in Writer \ {w} :
       receipts'[v] = receipts[v] /\ seen'[v] = seen[v] /\ batch'[v] = batch[v]
  /\ \A p \in Published(w)' :
       seen'[w][p] = seen[w][p] /\ batch'[w] = batch[w] /\ Writing(w) /\ p \in DOMAIN batch[w]
  /\ \A p \in Published(w) \ Published(w)' :
       files'[p].doc = seen[w][p].doc \/ files'[p] = files[p]
  /\ \A p \in Published(w)' \ Published(w) :
       files[p].doc = seen[w][p].doc /\ files'[p].doc = batch[w][p].doc
  /\ \A p \in Published(w) \cap Published(w)' : files'[p] = files[p]
  /\ \A p \in Path :
       p \in Published(w) \cup Published(w)' \/ files'[p] = files[p]
  /\ \A p \in Published(w)' \ Published(w) :
       p \in Path /\ \A v \in Writer \ {w} : p \notin Published(v)

\* A step that writes nothing and publishes nothing.
LEMMA QuietHandles ==
  ASSUME TypeInv, Receipted, NEW w \in Writer, UNCHANGED files,
         \A v \in Writer \ {w} :
           receipts'[v] = receipts[v] /\ seen'[v] = seen[v] /\ batch'[v] = batch[v],
         receipts'[w] = <<>> \/ receipts'[w] = receipts[w],
         receipts[w] = <<>> \/ (seen'[w] = seen[w] /\ batch'[w] = batch[w])
           \/ receipts'[w] = <<>>
  PROVE  Handled(w)
<1>1. Published(w)' \subseteq Published(w)
  BY DEF Published
<1>2. \A p \in Published(w)' : seen'[w][p] = seen[w][p] /\ batch'[w] = batch[w]
  BY DEF Published
<1> QED BY <1>1, <1>2, PublishedMeans DEF Handled

\* A step of one writer moves the committed store only where it stops answering for what it
\* published, there from what it captured to what it wrote.
LEMMA CommittedMoves ==
  ASSUME TypeInv, LockInv, Receipted, CommittedMeans', Standing, NEW w \in Writer, Handled(w),
         NEW p \in Path
  PROVE  \/ CommittedStore'[p] = CommittedStore[p]
         \/ /\ p \in Published(w) \ Published(w)' /\ files'[p] = files[p]
            /\ CommittedStore'[p] = batch[w][p].doc /\ CommittedStore[p] = seen[w][p].doc
<1>0. CommittedMeans /\ Exclusive
  BY CommittedMeant
<1>1. \A v \in Writer \ {w} : Published(v)' = Published(v)
  BY DEF Handled, Published
<1>2. CASE \E v \in Writer \ {w} : p \in Published(v)
  <2>1. PICK v \in Writer \ {w} : p \in Published(v)
    BY <1>2
  <2>2. CommittedStore[p] = seen[v][p].doc
    BY <1>0, <2>1 DEF CommittedMeans
  <2>3. CommittedStore'[p] = seen'[v][p].doc
    BY <1>1, <2>1 DEF CommittedMeans
  <2> QED BY <2>1, <2>2, <2>3 DEF Handled
<1>3. CASE p \in Published(w) /\ p \in Published(w)'
  <2>1. CommittedStore[p] = seen[w][p].doc /\ CommittedStore'[p] = seen'[w][p].doc
    BY <1>0, <1>3 DEF CommittedMeans
  <2> QED BY <1>3, <2>1 DEF Handled
<1>4. CASE p \in Published(w) /\ p \notin Published(w)'
  <2>1. CommittedStore[p] = seen[w][p].doc
    BY <1>0, <1>4 DEF CommittedMeans
  <2>2. \A v \in Writer : p \notin Published(v)'
    BY <1>0, <1>1, <1>4 DEF Exclusive
  <2>3. CommittedStore'[p] = files'[p].doc
    BY <2>2 DEF CommittedMeans
  <2>4. files[p].doc = batch[w][p].doc
    BY <1>4 DEF Standing
  <2> QED BY <1>4, <2>1, <2>3, <2>4 DEF Handled
<1>5. CASE p \notin Published(w) /\ p \in Published(w)'
  <2>1. CommittedStore'[p] = seen'[w][p].doc
    BY <1>5 DEF CommittedMeans
  <2>2. \A v \in Writer : p \notin Published(v)
    BY <1>5 DEF Handled
  <2>3. CommittedStore[p] = files[p].doc
    BY <1>0, <2>2 DEF CommittedMeans
  <2> QED BY <1>5, <2>1, <2>3 DEF Handled
<1>6. CASE /\ \A v \in Writer \ {w} : p \notin Published(v)
           /\ p \notin Published(w) /\ p \notin Published(w)'
  <2>1. CommittedStore[p] = files[p].doc
    BY <1>0, <1>6 DEF CommittedMeans
  <2>2. \A v \in Writer : p \notin Published(v)'
    BY <1>1, <1>6
  <2>3. CommittedStore'[p] = files'[p].doc
    BY <2>2 DEF CommittedMeans
  <2> QED BY <1>6, <2>1, <2>3 DEF Handled
<1> QED BY <1>2, <1>3, <1>4, <1>5, <1>6

\* What stands published, stands.
LEMMA HandledKeepsStanding ==
  ASSUME TypeInv, LockInv, Receipted, Standing, NEW w \in Writer, Handled(w)
  PROVE  Standing'
<1>0. \A v \in Writer \ {w} : \A p \in Published(v) : p \notin Published(w) \cup Published(w)'
  BY CommittedMeant DEF Exclusive, Handled
<1> SUFFICES ASSUME NEW v \in Writer, NEW p \in Published(v)'
             PROVE  files'[p].doc = batch'[v][p].doc
  BY DEF Standing
<1>1. CASE v # w
  <2>1. p \in Published(v) /\ batch'[v] = batch[v]
    BY <1>1 DEF Handled, Published
  <2>2. p \in Path
    BY <2>1, PublishedMeans
  <2>3. files'[p] = files[p]
    BY <1>0, <1>1, <2>1, <2>2 DEF Handled
  <2> QED BY <2>1, <2>3 DEF Standing
<1>2. CASE v = w
  BY <1>2 DEF Handled, Standing
<1> QED BY <1>1, <1>2

\* A publication writes a target that is not published yet.
LEMMA PublishStep ==
  ASSUME TypeInv, Receipted, Once, NEW w \in Writer, Publish(w)
  PROVE  /\ \E p \in Unpublished(w) \cap Path :
              /\ files' = [files EXCEPT ![p] = Publication(batch[w][p].doc)]
              /\ Published(w)' = Published(w) \cup {p}
         /\ Once'
<1>0. PICK p \in Unpublished(w) :
        /\ files' = [files EXCEPT ![p] = Publication(batch[w][p].doc)]
        /\ \E rev : receipts' = [receipts EXCEPT ![w] = Append(@,
             [path |-> p, prior |-> seen[w][p].doc, written |-> batch[w][p].doc, rev |-> rev])]
  BY DEF Publish
<1>1. PICK rev :
        receipts' = [receipts EXCEPT ![w] = Append(@,
          [path |-> p, prior |-> seen[w][p].doc, written |-> batch[w][p].doc, rev |-> rev])]
  BY <1>0
<1> DEFINE receipt ==
  [path |-> p, prior |-> seen[w][p].doc, written |-> batch[w][p].doc, rev |-> rev]
<1>2. p \in Path /\ p \notin Published(w)
  BY <1>0, RequestType DEF Publish, At, Unpublished, TypeInv, Targeted
<1>3. receipts[w] \in Seq(Receipt) /\ receipts'[w] = Append(receipts[w], receipt)
  BY <1>1 DEF TypeInv, TypeOK
<1>4. receipt.path = p
  OBVIOUS
<1>5. /\ DOMAIN receipts'[w] = DOMAIN receipts[w] \cup {Len(receipts[w]) + 1}
      /\ \A i \in DOMAIN receipts[w] : receipts'[w][i] = receipts[w][i]
      /\ receipts'[w][Len(receipts[w]) + 1] = receipt
  <2> HIDE DEF receipt
  <2> QED BY <1>3
<1> HIDE DEF receipt
<1>6. Published(w)' = Published(w) \cup {p}
  BY <1>4, <1>5 DEF Published
<1>7. \A v \in Writer \ {w} : receipts'[v] = receipts[v]
  BY <1>1 DEF TypeInv, TypeOK
<1>8. \A i \in DOMAIN receipts[w] : receipts[w][i].path # p
  BY <1>2 DEF Published
<1>9. Once'
  BY <1>4, <1>5, <1>7, <1>8 DEF Once
<1> QED BY <1>0, <1>2, <1>6, <1>9

\* A rollback stops answering for one published file, and puts back what was captured or nothing.
LEMMA RestoreStep ==
  ASSUME TypeInv, Receipted, Once, NEW w \in Writer, Restore(w)
  PROVE  /\ \E p \in Published(w) :
              /\ Published(w)' = Published(w) \ {p}
              /\ \/ files' = [files EXCEPT ![p] = Publication(seen[w][p].doc)]
                 \/ UNCHANGED <<files, clock>>
         /\ Once'
<1> DEFINE last == Len(receipts[w])
           receipt == receipts[w][last]
           p == receipt.path
<1>1. receipts[w] \in Seq(Receipt) /\ receipts[w] # <<>>
  BY DEF Restore, TypeInv, TypeOK
<1>2. last \in Nat \ {0} /\ DOMAIN receipts[w] = 1 .. last
  BY <1>1
<1>3. receipt.prior = seen[w][p].doc /\ last \in DOMAIN receipts[w]
  BY <1>1, <1>2 DEF Receipted
<1>4. receipts'[w] = SubSeq(receipts[w], 1, last - 1)
  BY DEF Restore, TypeInv, TypeOK
<1>5. /\ DOMAIN receipts'[w] = 1 .. (last - 1)
      /\ \A i \in 1 .. (last - 1) : receipts'[w][i] = receipts[w][i]
  BY <1>1, <1>2, <1>4, SubSeqProperties
<1>6. \/ files' = [files EXCEPT ![p] = Publication(receipt.prior)]
      \/ UNCHANGED <<files, clock>>
  BY DEF Restore
<1>7. \A v \in Writer \ {w} : receipts'[v] = receipts[v]
  BY DEF Restore, TypeInv, TypeOK
<1> HIDE DEF last
<1>8. p \in Published(w)
  BY <1>3 DEF Published
<1>9. /\ \A i \in DOMAIN receipts'[w] :
           i \in DOMAIN receipts[w] /\ i # last /\ receipts'[w][i] = receipts[w][i]
      /\ \A i \in DOMAIN receipts[w] :
           i = last \/ (i \in DOMAIN receipts'[w] /\ receipts'[w][i] = receipts[w][i])
  BY <1>2, <1>5
<1>10. \A i \in DOMAIN receipts[w] : receipts[w][i].path = p => i = last
  BY <1>3 DEF Once
<1> HIDE DEF receipt, p
<1>11. Published(w)' = Published(w) \ {p}
  <2>1. \A i \in DOMAIN receipts'[w] : receipts'[w][i].path \in Published(w) \ {p}
    BY <1>9, <1>10 DEF Published
  <2>2. \A i \in DOMAIN receipts[w] :
          receipts[w][i].path # p =>
            i \in DOMAIN receipts'[w] /\ receipts'[w][i].path = receipts[w][i].path
    BY <1>9 DEF p, receipt
  <2> QED BY <2>1, <2>2 DEF Published
<1>12. Once'
  BY <1>7, <1>9 DEF Once
<1> QED BY <1>3, <1>6, <1>8, <1>11, <1>12

\* Every step of a writer handles what is published.
LEMMA StepHandles ==
  ASSUME TypeInv, LockInv, Receipted, Once, Accounted, Current, NEW w \in Writer,
         Preview(w) \/ Apply(w) \/ Operate(w) \/ Crash(w)
  PROVE  Handled(w) /\ Once'
<1>0. /\ TypeOK
      /\ \A v \in Writer : ~ Writing(v) => receipts[v] = <<>>
  BY DEF TypeInv, Receipted
<1>1. ASSUME UNCHANGED files, receipts'[w] = <<>> \/ receipts'[w] = receipts[w],
             \A v \in Writer \ {w} :
               receipts'[v] = receipts[v] /\ seen'[v] = seen[v] /\ batch'[v] = batch[v],
             receipts[w] = <<>> \/ (seen'[w] = seen[w] /\ batch'[w] = batch[w])
               \/ receipts'[w] = <<>>
      PROVE  Handled(w) /\ Once'
  <2>1. Handled(w)
    BY <1>1, QuietHandles
  <2>2. Once'
    BY <1>1 DEF Once
  <2> QED BY <2>1, <2>2
<1>2. CASE Preview(w) \/ Apply(w)
  BY <1>0, <1>1, <1>2 DEF Preview, Apply, TypeOK, Writing, At, lockVars
<1>3. CASE Discover(w) \/ Acquire(w) \/ Confirm(w) \/ Prepare(w) \/ Verify(w)
  BY <1>0, <1>1, <1>3 DEF Discover, Acquire, Confirm, Prepare, Verify, lockVars
<1>4. CASE ReadFiles(w)
  <2>1. receipts[w] = <<>> /\ \A v \in Writer \ {w} : seen'[v] = seen[v]
    BY <1>0, <1>4 DEF ReadFiles, At, TypeOK, Writing
  <2> QED BY <1>1, <1>4, <2>1 DEF ReadFiles
<1>5. CASE \/ Outdated(w) \/ PrepareStale(w) \/ PrepareInvalid(w) \/ Approve(w)
           \/ VerifyStale(w) \/ Fails(w) \/ Observe(w) \/ FinishRollback(w)
  <2>1. PICK result : Return(w, result)
    BY <1>5
    DEF Outdated, PrepareStale, PrepareInvalid, Approve, VerifyStale, Fails, Observe,
        FinishRollback
  <2>2. /\ receipts'[w] = <<>> /\ UNCHANGED <<files, batch>>
        /\ \A v \in Writer \ {w} : receipts'[v] = receipts[v]
    BY <1>0, <1>5
    DEF Outdated, PrepareStale, PrepareInvalid, Approve, VerifyStale, Fails, Observe,
        FinishRollback, At, TypeOK, Writing
  <2>3. \A v \in Writer \ {w} : seen'[v] = seen[v]
    BY <1>0, <2>1 DEF Return, DropContext, TypeOK
  <2> QED BY <1>1, <2>2, <2>3
<1>6. CASE PublishFails(w) \/ ObserveFails(w)
  BY <1>1, <1>6 DEF PublishFails, ObserveFails, StartRollback, lockVars
<1>7. CASE Crash(w)
  BY <1>0, <1>1, <1>7 DEF Crash, DropContext, TypeOK
<1>8. CASE Publish(w)
  <2>1. PICK p \in Unpublished(w) \cap Path :
          /\ files' = [files EXCEPT ![p] = Publication(batch[w][p].doc)]
          /\ Published(w)' = Published(w) \cup {p}
    BY <1>8, PublishStep
  <2>2. /\ pc[w] = "publish" /\ UNCHANGED <<batch, seen>>
        /\ \A v \in Writer \ {w} : receipts'[v] = receipts[v]
    BY <1>0, <1>8 DEF Publish, At, TypeOK, lockVars
  <2>3. p \in DOMAIN batch[w] /\ p \in want[w].keys /\ p \notin Published(w) /\ Writing(w)
    BY <2>1, <2>2 DEF Unpublished, TypeInv, Targeted, Locked, Writing
  <2>4. p \in Read(w) \ (Published(w) \cup affected[w])
    <3>1. seen[w][p] # Unread
      BY <2>1, <2>2, <2>3, MutationAssumption DEF TypeInv, AllCaptured, Loaded, Version
    <3> QED BY <2>1, <2>2, <2>3, <3>1 DEF Accounted, Read
  <2>5. files[p].doc = seen[w][p].doc
    BY <2>2, <2>4 DEF Current, Loaded
  <2>6. files'[p].doc = batch[w][p].doc /\ \A q \in Path \ {p} : files'[q] = files[q]
    BY <1>0, <2>1 DEF TypeOK, Publication, Missing
  <2>7. \A v \in Writer \ {w} : p \notin Published(v)
    BY <2>3, PublishedMeans, WritesExclude
  <2>8. Published(w) \subseteq Path
    BY PublishedMeans
  <2>9. \A q \in Published(w)' : q \in DOMAIN batch[w]
    BY <2>1, <2>3, PublishedMeans
  <2>10. \A q \in Path : q \in Published(w) \cup Published(w)' \/ files'[q] = files[q]
    BY <2>1, <2>6
  <2>11. Published(w)' \ Published(w) = {p} /\ Published(w) \ Published(w)' = {}
    BY <2>1, <2>3
  <2>12. \A q \in Published(w) \cap Published(w)' : files'[q] = files[q]
    BY <2>3, <2>6, <2>8
  <2>13. Handled(w)
    BY <2>1, <2>2, <2>3, <2>5, <2>6, <2>7, <2>9, <2>10, <2>11, <2>12 DEF Handled
  <2> QED BY <1>8, <2>13, PublishStep
<1>9. CASE Restore(w)
  <2>1. PICK p \in Published(w) :
          /\ Published(w)' = Published(w) \ {p}
          /\ \/ files' = [files EXCEPT ![p] = Publication(seen[w][p].doc)]
             \/ UNCHANGED files
    BY <1>9, RestoreStep
  <2>2. /\ pc[w] = "rollback" /\ UNCHANGED <<batch, seen>>
        /\ \A v \in Writer \ {w} : receipts'[v] = receipts[v]
    BY <1>0, <1>9 DEF Restore, At, TypeOK, lockVars
  <2>3. /\ files'[p].doc = seen[w][p].doc \/ files'[p] = files[p]
        /\ \A q \in Path \ {p} : files'[q] = files[q]
    <3>1. p \in Path
      BY <2>1, PublishedMeans
    <3> QED BY <1>0, <2>1, <3>1 DEF TypeOK, Publication, Missing
  <2>4. \A q \in Published(w) : q \in DOMAIN batch[w] /\ q \in Path
    BY PublishedMeans
  <2>5. Published(w)' \ Published(w) = {} /\ Published(w) \ Published(w)' = {p}
    BY <2>1
  <2>6. \A q \in Published(w) \cap Published(w)' : files'[q] = files[q]
    BY <2>1, <2>3, <2>4
  <2>7. Handled(w)
    BY <2>1, <2>2, <2>3, <2>4, <2>5, <2>6 DEF Handled, Writing
  <2> QED BY <1>9, <2>7, RestoreStep
<1> QED BY <1>2, <1>3, <1>4, <1>5, <1>6, <1>7, <1>8, <1>9 DEF Operate

(***************************************************************************)
(* What an application has confirmed stays true of the committed store.    *)
(***************************************************************************)
Sure(w) == applying[w] /\ pc[w] \in {"capture", "prepare", "verify", "publish"}

Steadfast ==
  \A w \in Writer : Sure(w) =>
    /\ Locks(CommittedStore, batch[w], applying[w]) = want[w]
    /\ checked[w] = ValidationPaths(CommittedStore, batch[w])

\* Where a file differs from the committed store another application is publishing it.
LEMMA DifferenceIsForeign ==
  ASSUME TypeInv, LockInv, Receipted, Covered, Standing, NEW w \in Writer, receipts[w] = <<>>,
         NEW p \in Path, CommittedStore[p] # files[p].doc
  PROVE  ForeignTo(w, p, files[p].doc, CommittedStore[p])
<1>1. PICK v \in Writer : p \in Published(v)
  BY CommittedMeant DEF CommittedMeans
<1>2. v # w
  BY <1>1 DEF Published
<1>3. /\ p \in DOMAIN batch[v] /\ Writing(v) /\ applying[v]
      /\ CommittedStore[p] = seen[v][p].doc /\ files[p].doc = batch[v][p].doc
  BY <1>1, PublishedMeans, CommittedMeant DEF CommittedMeans, Standing
<1>4. Covers(v)
  BY <1>3 DEF Covered, Loaded, Writing
<1> QED BY <1>2, <1>3, <1>4 DEF ForeignTo

\* A step of one writer that confirms what it wants itself leaves the others what they confirmed.
LEMMA MoveKeepsSteadfast ==
  ASSUME TypeInv, LockInv, Receipted, Covered, Standing, CommittedMeans', Steadfast,
         NEW w \in Writer, Handled(w),
         \A v \in Writer \ {w} :
           /\ pc'[v] = pc[v] /\ applying'[v] = applying[v] /\ batch'[v] = batch[v]
           /\ want'[v] = want[v] /\ checked'[v] = checked[v],
         Sure(w)' =>
           /\ Published(w) \subseteq Published(w)'
           /\ Locks(CommittedStore, batch'[w], applying'[w]) = want'[w]
           /\ checked'[w] = ValidationPaths(CommittedStore, batch'[w])
  PROVE  Steadfast'
<1> SUFFICES ASSUME NEW v \in Writer, Sure(v)'
             PROVE  /\ Locks(CommittedStore', batch'[v], applying'[v]) = want'[v]
                    /\ checked'[v] = ValidationPaths(CommittedStore', batch'[v])
  BY DEF Steadfast
<1>1. CASE v = w
  <2>1. \A p \in Path : CommittedStore'[p] = CommittedStore[p]
    BY <1>1, CommittedMoves
  <2>2. CommittedStore' = CommittedStore
    BY <2>1 DEF CommittedStore
  <2> QED BY <1>1, <2>2
<1>2. CASE v # w
  <2>1. Sure(v) /\ want'[v] = want[v] /\ batch'[v] = batch[v] /\ applying'[v] = applying[v]
    BY <1>2 DEF Sure
  <2>2. /\ Locks(CommittedStore, batch[v], applying[v]) = want[v]
        /\ checked[v] = ValidationPaths(CommittedStore, batch[v])
    BY <2>1 DEF Steadfast
  <2>3. PICK docs : docs = CommittedStore
    OBVIOUS
  <2>4. PICK other : other = CommittedStore'
    OBVIOUS
  <2> DEFINE D == { p \in Path : other[p] # docs[p] }
  <2>5. ASSUME NEW p \in D
        PROVE  ForeignTo(v, p, docs[p], other[p])
    <3>1. p \in Published(w) /\ docs[p] = seen[w][p].doc /\ other[p] = batch[w][p].doc
      BY <2>3, <2>4, <2>5, CommittedMoves
    <3>2. p \in DOMAIN batch[w] /\ Writing(w) /\ applying[w]
      BY <3>1, PublishedMeans
    <3>3. Covers(w)
      BY <3>2 DEF Covered, Loaded, Writing
    <3> QED BY <1>2, <3>1, <3>2, <3>3 DEF ForeignTo
  <2>6. held[v] = want[v].keys /\ batch[v] \in Request
    BY <2>1 DEF Sure, TypeInv, Targeted, LockInv, Prefix, Locked
  <2>7. \A q \in Path \ D : other[q] = docs[q]
    OBVIOUS
  <2>8. Locks(docs, batch[v], applying[v]) = want[v]
    BY <2>2, <2>3
  <2> HIDE DEF D
  <2>9. D \in SUBSET Path
    BY DEF D
  <2>10. /\ ValidationPaths(other, batch[v]) = ValidationPaths(docs, batch[v])
         /\ Locks(other, batch[v], applying[v]) = Locks(docs, batch[v], applying[v])
    BY <2>1, <2>5, <2>6, <2>7, <2>8, <2>9, ForeignWrites DEF Sure
  <2>11. checked'[v] = checked[v]
    BY <1>2
  <2> QED BY <2>1, <2>2, <2>3, <2>4, <2>10, <2>11
<1> QED BY <1>1, <1>2

\* Every step keeps it.
LEMMA SteadfastNext ==
  ASSUME TypeInv, LockInv, Receipted, Once, Accounted, Current, Covered, Standing,
         CommittedMeans', Steadfast, [Next]_vars, ~ Edit
  PROVE  Steadfast'
<1>0. TypeOK /\ \A v \in Writer : ~ Writing(v) => receipts[v] = <<>>
  BY DEF TypeInv, Receipted
<1>1. ASSUME NEW w \in Writer, Preview(w) \/ Apply(w) \/ Discover(w) \/ Acquire(w)
      PROVE  Steadfast'
  <2>1. Handled(w)
    BY <1>1, StepHandles DEF Operate
  <2> QED BY <1>0, <1>1, <2>1, MoveKeepsSteadfast
      DEF Preview, Apply, Discover, Acquire, Goto, At, TypeOK, Sure, lockVars
<1>2. ASSUME NEW w \in Writer, Confirm(w) PROVE Steadfast'
  <2>1. Handled(w)
    BY <1>2, StepHandles DEF Operate
  <2>2. /\ Confirmed(w) /\ checked'[w] = ValidationPaths(Docs(files), batch[w])
        /\ UNCHANGED <<files, batch, applying, want, receipts>>
        /\ \A v \in Writer \ {w} : pc'[v] = pc[v] /\ checked'[v] = checked[v]
        /\ receipts[w] = <<>> /\ Published(w) \subseteq Published(w)'
    BY <1>0, <1>2 DEF Confirm, Goto, At, TypeOK, Writing, Published
  <2>3. ASSUME applying[w]
        PROVE  /\ Locks(CommittedStore, batch[w], applying[w]) = want[w]
               /\ checked'[w] = ValidationPaths(CommittedStore, batch[w])
    <3>1. PICK docs : docs = Docs(files)
      OBVIOUS
    <3>2. PICK other : other = CommittedStore
      OBVIOUS
    <3> DEFINE D == { p \in Path : other[p] # docs[p] }
    <3>3. ASSUME NEW p \in D
          PROVE  ForeignTo(w, p, docs[p], other[p])
      <4>1. docs[p] = files[p].doc /\ CommittedStore[p] # files[p].doc
        BY <3>1, <3>2 DEF Docs
      <4> QED BY <2>2, <3>2, <4>1, DifferenceIsForeign
    <3>4. held[w] = want[w].keys /\ batch[w] \in Request
      <4>1. held[w] = want[w].keys
        BY <1>2 DEF Confirm, Missed, LockInv, Prefix
      <4>2. batch[w] \in Request
        BY <1>2 DEF Confirm, At, TypeInv, Targeted
      <4> QED BY <4>1, <4>2
    <3>5. \A q \in Path \ D : other[q] = docs[q]
      OBVIOUS
    <3>6. Locks(docs, batch[w], applying[w]) = want[w]
      BY <2>2, <3>1 DEF Confirmed
    <3> HIDE DEF D
    <3>7. D \in SUBSET Path
      BY DEF D
    <3>8. /\ ValidationPaths(other, batch[w]) = ValidationPaths(docs, batch[w])
          /\ Locks(other, batch[w], applying[w]) = Locks(docs, batch[w], applying[w])
      BY <2>3, <3>3, <3>4, <3>5, <3>6, <3>7, ForeignWrites
    <3> QED BY <2>2, <3>1, <3>2, <3>6, <3>8
  <2> QED BY <2>1, <2>2, <2>3, MoveKeepsSteadfast DEF Sure
<1>3. ASSUME NEW w \in Writer,
             ReadFiles(w) \/ Prepare(w) \/ Verify(w) \/ Publish(w)
      PROVE  Steadfast'
  <2>1. Handled(w)
    BY <1>3, StepHandles DEF Operate
  <2>2. /\ UNCHANGED <<batch, applying, want, checked>>
        /\ Sure(w)' => Sure(w)
        /\ \A v \in Writer \ {w} : pc'[v] = pc[v]
    BY <1>0, <1>3 DEF ReadFiles, Prepare, Verify, Publish, Goto, At, TypeOK, Sure, lockVars
  <2>3. Published(w) \subseteq Published(w)'
    <3>1. CASE ReadFiles(w) \/ Prepare(w) \/ Verify(w)
      BY <3>1 DEF ReadFiles, Prepare, Verify, Published
    <3>2. CASE Publish(w)
      BY <3>2, PublishStep
    <3> QED BY <1>3, <3>1, <3>2
  <2> QED BY <2>1, <2>2, <2>3, MoveKeepsSteadfast DEF Steadfast
<1>4. ASSUME NEW w \in Writer,
             \/ Outdated(w) \/ PrepareStale(w) \/ PrepareInvalid(w) \/ Approve(w)
             \/ VerifyStale(w) \/ Fails(w) \/ Observe(w) \/ FinishRollback(w)
      PROVE  Steadfast'
  <2>1. Handled(w)
    BY <1>4, StepHandles DEF Operate
  <2>2. PICK result : Return(w, result)
    BY <1>4
    DEF Outdated, PrepareStale, PrepareInvalid, Approve, VerifyStale, Fails, Observe,
        FinishRollback
  <2>3. UNCHANGED <<batch, applying>>
    BY <1>4
    DEF Outdated, PrepareStale, PrepareInvalid, Approve, VerifyStale, Fails, Observe,
        FinishRollback
  <2>4. /\ ~ Sure(w)'
        /\ \A v \in Writer \ {w} : pc'[v] = pc[v] /\ want'[v] = want[v] /\ checked'[v] = checked[v]
    BY <1>0, <2>2 DEF Return, DropContext, Goto, TypeOK, Sure
  <2> QED BY <2>1, <2>3, <2>4, MoveKeepsSteadfast
<1>5. ASSUME NEW w \in Writer, PublishFails(w) \/ ObserveFails(w) \/ Restore(w)
      PROVE  Steadfast'
  <2>1. Handled(w)
    BY <1>5, StepHandles DEF Operate
  <2>2. /\ UNCHANGED <<batch, applying, want, checked>> /\ ~ Sure(w)'
        /\ \A v \in Writer \ {w} : pc'[v] = pc[v]
    BY <1>0, <1>5
    DEF PublishFails, ObserveFails, StartRollback, Restore, Goto, At, TypeOK, Sure, lockVars
  <2> QED BY <2>1, <2>2, MoveKeepsSteadfast
<1>6. ASSUME NEW w \in Writer, Crash(w) PROVE Steadfast'
  <2>1. Handled(w)
    BY <1>6, StepHandles
  <2>2. /\ ~ Sure(w)'
        /\ \A v \in Writer \ {w} :
             /\ pc'[v] = pc[v] /\ applying'[v] = applying[v] /\ batch'[v] = batch[v]
             /\ want'[v] = want[v] /\ checked'[v] = checked[v]
    BY <1>0, <1>6 DEF Crash, DropContext, Goto, TypeOK, Sure
  <2> QED BY <2>1, <2>2, MoveKeepsSteadfast
<1>7. CASE UNCHANGED vars
  <2>1. CommittedStore' = CommittedStore
    BY <1>7 DEF vars, lockVars, CommittedStore, Publishing, Published, PriorOf
  <2> QED BY <1>7, <2>1 DEF vars, lockVars, Steadfast, Sure
<1> QED BY <1>1, <1>2, <1>3, <1>4, <1>5, <1>6, <1>7 DEF Next, Operate, Finished

(***************************************************************************)
(* Consent: what an application publishes was found valid, and its targets *)
(* were captured by its preview as they were captured again.               *)
(***************************************************************************)
Valid == \A w \in Writer : pc[w] \in {"verify", "publish"} => ~ Invalid(w)

Consented ==
  \A w \in Writer :
    /\ applying[w] \/ pc[w] = "ready" => \A p \in DOMAIN batch[w] : approved[w][p] # Unread
    /\ pc[w] = "publish" => \A p \in DOMAIN batch[w] : approved[w][p].doc = seen[w][p].doc

\* Nobody starts with a preview.
LEMMA ConsentInit == Init => Valid /\ Consented
BY DEF Init, Valid, Consented

\* A step of one writer leaves the consent of the others.
LEMMA MoveKeepsConsent ==
  ASSUME Valid, Consented, NEW w \in Writer,
         \A v \in Writer \ {w} :
           /\ pc'[v] = pc[v] /\ applying'[v] = applying[v] /\ batch'[v] = batch[v]
           /\ checked'[v] = checked[v] /\ seen'[v] = seen[v] /\ approved'[v] = approved[v],
         pc'[w] \in {"verify", "publish"} => ~ Invalid(w)',
         applying'[w] \/ pc'[w] = "ready" => \A p \in DOMAIN batch'[w] : approved'[w][p] # Unread,
         pc'[w] = "publish" => \A p \in DOMAIN batch'[w] : approved'[w][p].doc = seen'[w][p].doc
  PROVE  Valid' /\ Consented'
<1>1. Valid'
  <2> SUFFICES ASSUME NEW v \in Writer, pc'[v] \in {"verify", "publish"} PROVE ~ Invalid(v)'
    BY DEF Valid
  <2>1. CASE v = w
    BY <2>1
  <2>2. CASE v # w
    <3>1. ~ Invalid(v) /\ batch'[v] = batch[v] /\ checked'[v] = checked[v] /\ seen'[v] = seen[v]
      BY <2>2 DEF Valid
    <3> QED BY <3>1 DEF Invalid, CapturedDocs, Read
  <2> QED BY <2>1, <2>2
<1>2. Consented'
  BY DEF Consented
<1> QED BY <1>1, <1>2

\* Every step keeps consent.
LEMMA ConsentNext ==
  ASSUME TypeInv, Receipted, Stamped, Compared, Valid, Consented, [Next]_vars
  PROVE  Valid' /\ Consented'
<1>0. TypeOK
  BY DEF TypeInv
<1>1. ASSUME NEW w \in Writer, Preview(w) \/ Crash(w) PROVE Valid' /\ Consented'
  BY <1>0, <1>1, MoveKeepsConsent DEF Preview, Crash, DropContext, Goto, TypeOK, lockVars
<1>2. ASSUME NEW w \in Writer,
             Apply(w) \/ Discover(w) \/ Acquire(w) \/ Confirm(w) \/ ReadFiles(w)
      PROVE  Valid' /\ Consented'
  <2>1. /\ UNCHANGED <<batch, approved>>
        /\ \A v \in Writer \ {w} :
             /\ pc'[v] = pc[v] /\ applying'[v] = applying[v]
             /\ checked'[v] = checked[v] /\ seen'[v] = seen[v]
        /\ pc'[w] \in {"discover", "lock", "capture", "prepare"}
        /\ applying'[w] => applying[w] \/ pc[w] = "ready"
    BY <1>0, <1>2 DEF Apply, Discover, Acquire, Confirm, ReadFiles, Goto, At, TypeOK, lockVars
  <2> QED BY <2>1, MoveKeepsConsent DEF Consented
<1>3. ASSUME NEW w \in Writer,
             \/ Outdated(w) \/ PrepareStale(w) \/ PrepareInvalid(w)
             \/ VerifyStale(w) \/ Fails(w) \/ Observe(w) \/ FinishRollback(w)
      PROVE  Valid' /\ Consented'
  <2>1. PICK result : Return(w, result) /\ (result # "approved" \/ applying[w])
    BY <1>3
    DEF Outdated, PrepareStale, PrepareInvalid, VerifyStale, Fails, Observe, FinishRollback,
        At, Receipted, Writing
  <2>2. UNCHANGED <<batch, applying, approved>>
    BY <1>3 DEF Outdated, PrepareStale, PrepareInvalid, VerifyStale, Fails, Observe, FinishRollback
  <2>3. /\ pc'[w] \in {"idle", "ready"} /\ (pc'[w] = "ready" => applying[w])
        /\ \A v \in Writer \ {w} :
             pc'[v] = pc[v] /\ checked'[v] = checked[v] /\ seen'[v] = seen[v]
    BY <1>0, <2>1 DEF Return, DropContext, Goto, TypeOK
  <2> QED BY <2>2, <2>3, MoveKeepsConsent DEF Consented
<1>4. ASSUME NEW w \in Writer, Approve(w) PROVE Valid' /\ Consented'
  <2>1. /\ UNCHANGED <<batch, applying>> /\ approved'[w] = seen[w]
        /\ pc'[w] = "ready" /\ pc[w] = "prepare"
        /\ \A v \in Writer \ {w} :
             /\ pc'[v] = pc[v] /\ checked'[v] = checked[v] /\ seen'[v] = seen[v]
             /\ approved'[v] = approved[v]
    BY <1>0, <1>4 DEF Approve, Return, DropContext, Goto, At, TypeOK
  <2>2. \A p \in DOMAIN batch[w] : seen[w][p] # Unread
    BY <2>1, RequestType, UnreadIsNoVersion DEF TypeInv, Targeted, AllCaptured, Loaded, Locked
  <2> QED BY <2>1, <2>2, MoveKeepsConsent
<1>5. ASSUME NEW w \in Writer, Prepare(w) PROVE Valid' /\ Consented'
  <2>1. /\ UNCHANGED <<batch, applying, checked, seen, approved>> /\ applying[w]
        /\ pc'[w] = "verify" /\ ~ Invalid(w)
        /\ \A v \in Writer \ {w} : pc'[v] = pc[v]
    BY <1>0, <1>5 DEF Prepare, Goto, At, TypeOK, lockVars
  <2>2. ~ Invalid(w)'
    BY <2>1 DEF Invalid, CapturedDocs, Read
  <2> QED BY <2>1, <2>2, MoveKeepsConsent DEF Consented
<1>6. ASSUME NEW w \in Writer, Verify(w) PROVE Valid' /\ Consented'
  <2>1. /\ UNCHANGED <<batch, applying, checked, seen, approved>>
        /\ pc[w] = "verify" /\ pc'[w] = "publish" /\ Unchanged(w)
        /\ \A v \in Writer \ {w} : pc'[v] = pc[v]
    BY <1>0, <1>6 DEF Verify, Goto, At, TypeOK, lockVars
  <2>2. ~ Invalid(w)'
    BY <2>1 DEF Invalid, CapturedDocs, Read, Valid
  <2>3. ASSUME NEW p \in DOMAIN batch[w]
        PROVE  approved[w][p] # Unread /\ approved[w][p].doc = seen[w][p].doc
    <3>1. p \in Path /\ approved[w][p] # Unread
      BY <2>1, RequestType DEF TypeInv, Targeted, Receipted, Consented
    <3>2. seen[w][p] # Unread
      BY <2>1, <3>1, UnreadIsNoVersion DEF TypeInv, Targeted, AllCaptured, Loaded, Locked
    <3>3. p \in Read(w)
      BY <3>1, <3>2 DEF Read
    <3>4. files[p] = approved[w][p]
      BY <2>1, <3>1, <3>3, LastLook DEF At
    <3>5. files[p] = seen[w][p]
      BY <2>1, <3>1, <3>2, <3>3 DEF Unchanged, Stamped, Known
    <3> QED BY <3>1, <3>4, <3>5
  <2> QED BY <2>1, <2>2, <2>3, MoveKeepsConsent
<1>7. ASSUME NEW w \in Writer, Publish(w) \/ PublishFails(w) \/ ObserveFails(w) \/ Restore(w)
      PROVE  Valid' /\ Consented'
  <2>1. /\ UNCHANGED <<batch, applying, checked, seen, approved>>
        /\ pc'[w] = pc[w] \/ pc'[w] = "rollback"
        /\ pc[w] \in {"publish", "rollback"} /\ applying[w]
        /\ \A v \in Writer \ {w} : pc'[v] = pc[v]
    BY <1>0, <1>7
    DEF Publish, PublishFails, ObserveFails, StartRollback, Restore, Goto, At, TypeOK, lockVars,
        Receipted, Writing
  <2>2. pc'[w] \in {"verify", "publish"} => ~ Invalid(w)'
    BY <2>1 DEF Invalid, CapturedDocs, Read, Valid
  <2> QED BY <2>1, <2>2, MoveKeepsConsent DEF Consented
<1>8. CASE Edit \/ UNCHANGED vars
  BY <1>8 DEF Edit, vars, lockVars, Valid, Consented, Invalid, CapturedDocs, Read
<1> QED
  BY <1>1, <1>2, <1>3, <1>4, <1>5, <1>6, <1>7, <1>8 DEF Next, Operate, Finished

(***************************************************************************)
(* The engine implements RecordStore.                                      *)
(***************************************************************************)

\* What a writer has captured is what is committed, until its batch is over.
LEMMA CapturedIsCommitted ==
  ASSUME TypeInv, LockInv, Receipted, Accounted, Current,
         NEW w \in Writer, pc[w] \in {"prepare", "verify", "publish"}
  PROVE  \A p \in Read(w) : seen[w][p].doc = CommittedStore[p]
<1> SUFFICES ASSUME NEW p \in Read(w) PROVE seen[w][p].doc = CommittedStore[p]
  OBVIOUS
<1>0. CommittedMeans /\ p \in Path /\ Loaded(w) /\ affected[w] = {}
  BY CommittedMeant DEF Read, Loaded, Accounted
<1>1. CASE p \in Published(w)
  BY <1>0, <1>1 DEF CommittedMeans
<1>2. CASE p \notin Published(w)
  <2>1. files[p].doc = seen[w][p].doc
    BY <1>0, <1>2 DEF Current
  <2>2. \A v \in Writer : p \notin Published(v)
    <3>1. ASSUME NEW v \in Writer, v # w, p \in Published(v) PROVE FALSE
      BY <1>0, <3>1, PublishedMeans, KeptOut
    <3> QED BY <1>2, <3>1
  <2> QED BY <1>0, <2>1, <2>2 DEF CommittedMeans
<1> QED BY <1>1, <1>2

\* The paths among the keys of a batch are its dependencies: no path is an identity.
LEMMA PathsOfKeys ==
  ASSUME NEW docs, NEW request \in Request
  PROVE  DependencyKeys(docs, request) \cap Path = DependencyPaths(docs, request)
<1>1. DOMAIN request \subseteq Path /\ DependencyPaths(docs, request) \subseteq Path
  BY RequestType, DependenciesType
<1>2. WrittenIdentities(docs, request) \subseteq Identity
  BY <1>1, KeysAssumption DEF WrittenIdentities, Identified, Existing
<1>3. { IdOf[p] : p \in DependencyPaths(docs, request) \cap Identified(docs, request) }
        \subseteq Identity
  BY <1>1, KeysAssumption
<1>4. Identity \cap Path = {}
  BY KeysAssumption
<1> QED BY <1>1, <1>2, <1>3, <1>4 DEF DependencyKeys

\* So a batch that is published was judged on the committed store, and introduces nothing there.
LEMMA CommitIsHarmless ==
  ASSUME NoAlias, TypeInv, LockInv, Receipted, Accounted, Current, Steadfast, Valid,
         NEW w \in Writer, pc[w] = "publish"
  PROVE  StoreDiagnostics(Overlay(CommittedStore, batch[w]))
           \subseteq StoreDiagnostics(CommittedStore)
<1>1. applying[w] /\ batch[w] \in Request /\ batch[w] \in Batch
  BY MutationAssumption DEF Receipted, Writing, TypeInv, Targeted
<1>2. /\ Locks(CommittedStore, batch[w], applying[w]) = want[w]
      /\ checked[w] = ValidationPaths(CommittedStore, batch[w])
  BY <1>1 DEF Steadfast, Sure
<1>3. want[w].keys = DependencyKeys(CommittedStore, batch[w])
  BY <1>2 DEF Locks
<1>4. Read(w) = DependencyPaths(CommittedStore, batch[w])
  <2>1. Read(w) = want[w].keys \cap Path
    BY UnreadIsNoVersion DEF TypeInv, AllCaptured, Loaded, Read
  <2> QED BY <1>1, <1>3, <2>1, PathsOfKeys
<1>5. CapturedDocs(w) = ReadPart(CommittedStore, Read(w))
  <2>1. \A p \in Path : seen[w][p] # Unread => seen[w][p].doc = CommittedStore[p]
    BY CapturedIsCommitted DEF Read
  <2>2. \A p \in Path : p \in Read(w) <=> seen[w][p] # Unread
    BY DEF Read
  <2>3. \A p \in Path :
          (IF seen[w][p] = Unread THEN Absent ELSE seen[w][p].doc)
            = (IF p \in Read(w) THEN CommittedStore[p] ELSE Absent)
    BY <2>1, <2>2
  <2> QED BY <2>3, Zenon DEF CapturedDocs, ReadPart
<1>6. ~ Rejected(ReadPart(CommittedStore, Read(w)), batch[w], Read(w), checked[w])
  BY <1>5 DEF Valid, Invalid
<1>7. PICK docs : docs = CommittedStore
  OBVIOUS
<1>8. PICK request : request = batch[w]
  OBVIOUS
<1>9. docs \in [Path -> Doc \cup {Absent}]
  BY <1>7, CommittedType
<1>10. /\ ~ TargetMismatch(ReadPart(docs, DependencyPaths(docs, request)), request)
       /\ Introduced(ReadPart(docs, DependencyPaths(docs, request)), request,
                     DependencyPaths(docs, request), ValidationPaths(docs, request)) = {}
  BY <1>2, <1>4, <1>6, <1>7, <1>8 DEF Rejected
<1>11. ~ TargetMismatch(docs, request)
  <2>1. DOMAIN request \subseteq DependencyPaths(docs, request) /\ DOMAIN request \subseteq Path
    BY <1>1, <1>8, JudgedPaths
  <2>2. \A p \in DOMAIN request : ReadPart(docs, DependencyPaths(docs, request))[p] = docs[p]
    BY <2>1 DEF ReadPart
  <2> QED BY <1>10, <2>2 DEF TargetMismatch
<1>12. Judgeable(docs, request)
  BY <1>1, <1>8, <1>9, <1>11, NoAliasMeans DEF Judgeable
<1>13. StoreDiagnostics(Overlay(docs, request)) \subseteq StoreDiagnostics(docs)
  BY <1>10, <1>12, NothingElseIntroduced
<1> QED BY <1>7, <1>8, <1>13

\* The abstract store judges as the engine does.
LEMMA SameJudgement ==
  ASSUME NEW docs, NEW request
  PROVE  /\ Abstract!StoreDiagnostics(docs) = StoreDiagnostics(docs)
         /\ Abstract!Overlay(docs, request) = Overlay(docs, request)
<1>1. \A E, p : Abstract!Claims(E, p) = Claims(E, p)
  BY DEF Abstract!Claims, Claims
<1>2. \A E : Abstract!Duplicates(E) = Duplicates(E)
  BY <1>1 DEF Abstract!Duplicates, Duplicates
<1>3. \A E, r : Abstract!Resolved(E, r) = Resolved(E, r)
  <2>1. \A S : Abstract!Cardinality(S) = Cardinality(S)
    BY Zenon DEF Abstract!Cardinality, Cardinality
  <2> QED BY <2>1 DEF Abstract!Resolved, Resolved, Abstract!Locations, Locations
<1>4. \A d : Abstract!Refs(d) = Refs(d) /\ Abstract!Sup(d) = Sup(d)
  BY DEF Abstract!Refs, Refs, Abstract!Rel, Rel, Abstract!Sup, Sup
<1>12. \A d : Abstract!Occurrences(d) = Occurrences(d)
  BY <1>4 DEF Abstract!Occurrences, Occurrences, Abstract!Rel, Rel, Abstract!Sup, Sup
<1>5. \A s, E, c : Abstract!Unresolved(s, E, c) = Unresolved(s, E, c)
  BY <1>3, <1>12 DEF Abstract!Unresolved, Unresolved
<1>6. \A E, n : Abstract!CycleReachable(E, n) = CycleReachable(E, n)
  BY DEF Abstract!CycleReachable, CycleReachable
<1>7. \A s, E, c : Abstract!Cycles(s, E, c) = Cycles(s, E, c)
  BY <1>3, <1>4, <1>6 DEF Abstract!Cycles, Cycles
<1>8. \A s, E, c : Abstract!Diagnostics(s, E, c) = Diagnostics(s, E, c)
  BY <1>2, <1>5, <1>7 DEF Abstract!Diagnostics, Diagnostics
<1>9. \A s : Abstract!Existing(s) = Existing(s)
  BY DEF Abstract!Existing, Existing
<1>10. Abstract!StoreDiagnostics(docs) = StoreDiagnostics(docs)
  BY <1>8, <1>9 DEF Abstract!StoreDiagnostics, StoreDiagnostics
<1>11. Abstract!Overlay(docs, request) = Overlay(docs, request)
  BY DEF Abstract!Overlay, Overlay
<1> QED BY <1>10, <1>11

\* A writer dies amid a publication, or a rollback gives a file up.
Abandons ==
  \E w \in Writer : receipts[w] # <<>> /\ (Crash(w) \/ (Restore(w) /\ UNCHANGED clock))

\* Short of that, nothing moves the committed store but the end of an application.
LEMMA OnlyCommitsMove ==
  ASSUME TypeInv, LockInv, Receipted, Once, Accounted, Current, CommittedMeans', Standing,
         NEW w \in Writer, Preview(w) \/ Apply(w) \/ Operate(w) \/ Crash(w),
         ~ Observe(w), ~ Abandons
  PROVE  CommittedStore' = CommittedStore
<1>0. /\ TypeOK /\ Handled(w)
      /\ \A v \in Writer : ~ Writing(v) => receipts[v] = <<>>
  BY StepHandles DEF TypeInv, Receipted
<1>1. CommittedStore' = CommittedStore <=> \A p \in Path : CommittedStore'[p] = CommittedStore[p]
  BY DEF CommittedStore
<1>2. ASSUME Published(w) \subseteq Published(w)' PROVE CommittedStore' = CommittedStore
  BY <1>0, <1>1, <1>2, CommittedMoves
<1>3. ASSUME receipts'[w] = receipts[w] \/ receipts[w] = <<>>
      PROVE  CommittedStore' = CommittedStore
  BY <1>2, <1>3 DEF Published
<1>4. CASE Preview(w) \/ Apply(w) \/ Discover(w) \/ Acquire(w) \/ Confirm(w)
  BY <1>3, <1>4 DEF Preview, Apply, Discover, Acquire, Confirm
<1>5. CASE ReadFiles(w) \/ Prepare(w) \/ Verify(w)
  BY <1>3, <1>5 DEF ReadFiles, Prepare, Verify
<1>6. CASE \/ Outdated(w) \/ PrepareStale(w) \/ PrepareInvalid(w) \/ Approve(w)
           \/ VerifyStale(w) \/ Fails(w) \/ FinishRollback(w)
  BY <1>3, <1>6
  DEF Outdated, PrepareStale, PrepareInvalid, Approve, VerifyStale, Fails, FinishRollback
<1>7. CASE PublishFails(w) \/ ObserveFails(w)
  BY <1>3, <1>7 DEF PublishFails, ObserveFails, StartRollback
<1>8. CASE Crash(w)
  BY <1>3, <1>8 DEF Abandons
<1>9. CASE Publish(w)
  BY <1>2, <1>9, PublishStep
<1>10. CASE Restore(w)
  <2>1. PICK p \in Published(w) :
          /\ Published(w)' = Published(w) \ {p}
          /\ \/ files' = [files EXCEPT ![p] = Publication(seen[w][p].doc)]
             \/ UNCHANGED <<files, clock>>
    BY <1>10, RestoreStep
  <2>2. receipts[w] # <<>> /\ p \in Path
    BY <1>10, <2>1, PublishedMeans DEF Restore
  <2>3. files' = [files EXCEPT ![p] = Publication(seen[w][p].doc)]
    BY <1>10, <2>1, <2>2 DEF Abandons
  <2>4. files'[p].doc = seen[w][p].doc
    BY <1>0, <2>2, <2>3 DEF TypeOK, Publication, Missing
  <2>5. files[p].doc = batch[w][p].doc
    BY <2>1 DEF Standing
  <2> QED BY <1>0, <1>1, <2>1, <2>4, <2>5, CommittedMoves
<1> QED BY <1>4, <1>5, <1>6, <1>7, <1>8, <1>9, <1>10 DEF Operate

\* An approval is what one writer has in hand.
LEMMA ApprovalMoves ==
  ASSUME NEW w \in Writer,
         \A v \in Writer \ {w} : batch'[v] = batch[v] /\ approved'[v] = approved[v]
  PROVE  /\ Approvals' = [Approvals EXCEPT ![w] = Approvals'[w]]
         /\ batch'[w] = batch[w] /\ approved'[w] = approved[w] => UNCHANGED Approvals
BY DEF Approvals

\* An approval that was captured is held.
LEMMA ApprovalHeld ==
  ASSUME TypeInv, NEW w \in Writer, batch[w] \in Request,
         \A p \in DOMAIN batch[w] : approved[w][p] # Unread
  PROVE  /\ Approvals[w]
              = [batch |-> batch[w], seen |-> [p \in DOMAIN batch[w] |-> approved[w][p].doc]]
         /\ Approvals[w] # None
<1>1. PICK target \in DOMAIN batch[w] : target \in Path
  <2>1. batch[w] \in Batch
    BY MutationAssumption
  <2>2. PICK S \in (SUBSET Path) \ {{}} : batch[w] \in [S -> Change]
    BY <2>1 DEF Batch
  <2> QED BY <2>2
<1>2. approved[w] # Nothing
  BY <1>1 DEF Nothing
<1>3. Approvals[w]
         = [batch |-> batch[w], seen |-> [p \in DOMAIN batch[w] |-> approved[w][p].doc]]
  BY <1>2 DEF Approvals
<1>4. [p \in DOMAIN batch[w] |-> approved[w][p].doc] \in [DOMAIN batch[w] -> Doc \cup {Absent}]
  BY RequestType DEF TypeInv, TypeOK, Capture, Version
<1>5. Approvals[w] \in
        [batch : Request, seen : UNION { [S -> Doc \cup {Absent}] : S \in SUBSET Path }]
  BY <1>3, <1>4, RequestType
<1> QED BY <1>3, <1>5, MutationAssumption

\* The end of an application is a commit.
LEMMA ObserveCommits ==
  ASSUME NoAlias, TypeInv, LockInv, Receipted, Once, Accounted, Current, Standing, CommittedMeans',
         Steadfast, Valid, Consented, NEW w \in Writer, Observe(w)
  PROVE  Abstract!Commit(w)
<1>1. /\ pc[w] = "publish" /\ Unpublished(w) = {} /\ UNCHANGED <<files, batch, approved>>
      /\ receipts'[w] = <<>> /\ \A v \in Writer \ {w} : receipts'[v] = receipts[v]
  BY DEF Observe, At, TypeInv, TypeOK
<1>2. /\ applying[w] /\ batch[w] \in Request /\ DOMAIN batch[w] \subseteq Path
      /\ \A p \in DOMAIN batch[w] :
           approved[w][p] # Unread /\ approved[w][p].doc = seen[w][p].doc
  BY <1>1, RequestType DEF Receipted, Writing, TypeInv, Targeted, Consented
<1>3. /\ Approvals[w]
           = [batch |-> batch[w], seen |-> [p \in DOMAIN batch[w] |-> approved[w][p].doc]]
      /\ Approvals[w] # None
  BY <1>2, ApprovalHeld
<1>4. \A p \in DOMAIN batch[w] : seen[w][p].doc = CommittedStore[p]
  <2>1. DOMAIN batch[w] \subseteq Read(w)
    BY <1>1, <1>2, UnreadIsNoVersion DEF TypeInv, Targeted, AllCaptured, Loaded, Locked, Read
  <2> QED BY <1>1, <2>1, CapturedIsCommitted
<1>5. CommittedStore' = Overlay(CommittedStore, batch[w])
  <2>1. Handled(w)
    BY StepHandles DEF Operate
  <2>2. ASSUME NEW p \in Published(w) PROVE CommittedStore'[p] = batch[w][p].doc
    <3>1. p \in Path /\ files'[p].doc = batch[w][p].doc
      BY <1>1, PublishedMeans DEF Standing
    <3>2. \A v \in Writer \ {w} : p \notin Published(v)
      BY CommittedMeant DEF Exclusive
    <3>3. Published(w)' = {} /\ \A v \in Writer \ {w} : Published(v)' = Published(v)
      BY <1>1 DEF Published
    <3> QED BY <3>1, <3>2, <3>3 DEF CommittedMeans
  <2>3. ASSUME NEW p \in DOMAIN batch[w], p \notin Published(w)
        PROVE  CommittedStore'[p] = batch[w][p].doc
    <3>1. batch[w][p].doc = seen[w][p].doc
      BY <1>1, <2>3 DEF Unpublished
    <3>2. CommittedStore'[p] = CommittedStore[p]
      BY <1>2, <2>1, <2>3, CommittedMoves
    <3> QED BY <1>4, <3>1, <3>2
  <2>4. ASSUME NEW p \in Path, p \notin DOMAIN batch[w]
        PROVE  CommittedStore'[p] = CommittedStore[p]
    <3>1. p \notin Published(w)
      BY <2>4, PublishedMeans
    <3> QED BY <2>1, <3>1, CommittedMoves
  <2>5. \A p \in Path : CommittedStore'[p] = Overlay(CommittedStore, batch[w])[p]
    BY <2>2, <2>3, <2>4 DEF Overlay
  <2> QED BY <2>5 DEF CommittedStore, Overlay
<1>6. Abstract!Harmless(batch[w])
  BY <1>1, SameJudgement, CommitIsHarmless DEF Abstract!Harmless
<1>7. CommittedStore' = Abstract!Overlay(CommittedStore, batch[w])
  BY <1>5, SameJudgement
<1>8. UNCHANGED Approvals
  BY <1>1 DEF Approvals
<1> QED BY <1>2, <1>3, <1>4, <1>6, <1>7, <1>8 DEF Abstract!Commit

\* What the engine keeps at all times, and what it keeps while nobody edits.
Engine ==
  /\ TypeInv /\ LockInv /\ EditsSpent /\ Receipted /\ Accounted /\ Stamped /\ Compared
  /\ Valid /\ Consented

Cooperation == Current /\ Steady /\ Covered /\ Once /\ Standing /\ Steadfast

\* Both hold at the start.
LEMMA EngineInit == Init => Engine /\ Cooperation
<1>1. Init => Once /\ Standing /\ Steadfast
  BY DEF Init, Once, Standing, Published, Steadfast, Sure
<1>2. Init => Current
  BY DEF Init, Current, Loaded
<1> QED
  BY <1>1, <1>2, TypeInit, LockInit, SpentInit, AccountedInit, StampedInit, ConsentInit
  DEF Engine, Cooperation

\* Every step keeps the first,
LEMMA EngineNext == Engine /\ [Next]_vars => Engine'
BY TypeNext, LockNext, OnlyEditsSpend, ReceiptedNext, AccountedNext, StampedNext, ComparedNext,
   ConsentNext
DEF Engine

\* and every step that is no edit the second.
LEMMA CooperationNext ==
  ASSUME Engine, Undisturbed => Cooperation, [Next]_vars, Undisturbed'
  PROVE  Cooperation /\ Cooperation' /\ ~ Edit /\ CommittedMeans'
<1>1. ~ Edit /\ Undisturbed
  BY OnlyEditsSpend DEF Engine, Undisturbed
<1>2. Cooperation
  BY <1>1
<1>3. CommittedMeans'
  <2>1. TypeInv' /\ LockInv' /\ Receipted'
    BY EngineNext DEF Engine
  <2>2. (TypeInv /\ LockInv /\ Receipted)' => CommittedMeans'
    BY CommittedMeant, PTL
  <2> QED BY <2>1, <2>2
<1>4. Current' /\ Steady' /\ Covered' /\ Steadfast'
  BY <1>1, <1>2, <1>3, CurrentNext, SteadyNext, SteadfastNext DEF Engine, Cooperation
<1>5. Once' /\ Standing'
  <2>1. ASSUME NEW w \in Writer, Preview(w) \/ Apply(w) \/ Operate(w) \/ Crash(w)
        PROVE  Once' /\ Standing'
    BY <1>2, <2>1, StepHandles, HandledKeepsStanding DEF Engine, Cooperation
  <2>2. CASE UNCHANGED vars
    BY <1>2, <2>2 DEF vars, lockVars, Cooperation, Once, Standing, Published
  <2> QED BY <1>1, <2>1, <2>2 DEF Next, Finished
<1> QED BY <1>1, <1>2, <1>3, <1>4, <1>5 DEF Cooperation

\* Every step that abandons nothing is a step of the record store.
LEMMA StepRefines ==
  ASSUME NoAlias, Engine, Undisturbed => Cooperation, [Next]_vars, Undisturbed', ~ Abandons
  PROVE  [Abstract!Next]_Abstract!vars
<1>0. /\ Cooperation /\ ~ Edit /\ CommittedMeans' /\ TypeOK
  BY CooperationNext DEF Engine, TypeInv
<1>1. ASSUME NEW w \in Writer, Preview(w) \/ Apply(w) \/ Operate(w) \/ Crash(w), ~ Observe(w)
      PROVE  CommittedStore' = CommittedStore
  BY <1>0, <1>1, OnlyCommitsMove DEF Engine, Cooperation
<1>2. ASSUME NEW w \in Writer, Preview(w) \/ Crash(w) PROVE Abstract!Forget(w)
  <2>1. ~ Observe(w)
    BY <1>0, <1>2 DEF Preview, Crash, DropContext, Observe, Return, Goto, At, TypeOK
  <2>2. /\ approved'[w] = Nothing
        /\ \A v \in Writer \ {w} : batch'[v] = batch[v] /\ approved'[v] = approved[v]
    BY <1>0, <1>2 DEF Preview, Crash, TypeOK
  <2>3. Approvals'[w] = None
    BY <2>2 DEF Approvals
  <2> QED BY <1>1, <1>2, <2>1, <2>2, <2>3, ApprovalMoves DEF Abstract!Forget
<1>3. ASSUME NEW w \in Writer, Approve(w) PROVE Abstract!Approve(w)
  <2>1. ~ Observe(w)
    BY <1>3 DEF Approve, Observe, At
  <2>2. /\ pc[w] = "prepare" /\ UNCHANGED batch /\ approved'[w] = seen[w]
        /\ \A v \in Writer \ {w} : approved'[v] = approved[v]
    BY <1>0, <1>3 DEF Approve, At, TypeOK
  <2>3. /\ batch[w] \in Request /\ DOMAIN batch[w] \subseteq Read(w)
        /\ DOMAIN batch[w] # {}
    <3>1. batch[w] \in Request /\ DOMAIN batch[w] \subseteq want[w].keys
      BY <2>2 DEF Engine, TypeInv, Targeted, Locked
    <3>2. DOMAIN batch[w] \subseteq Read(w)
      BY <2>2, <3>1, RequestType, UnreadIsNoVersion DEF Engine, TypeInv, AllCaptured, Loaded, Read
    <3> QED BY <3>1, <3>2, DiscoveryAssumption
  <2>4. \A p \in DOMAIN batch[w] : seen[w][p].doc = CommittedStore[p]
    BY <1>0, <2>2, <2>3, CapturedIsCommitted DEF Engine, Cooperation
  <2>5. approved'[w] # Nothing
    BY <2>2, <2>3 DEF Read, Nothing
  <2>6. Approvals'[w] = [batch |-> batch[w], seen |-> [p \in DOMAIN batch[w] |-> seen[w][p].doc]]
    BY <2>2, <2>5 DEF Approvals
  <2>7. [p \in DOMAIN batch[w] |-> seen[w][p].doc] = [p \in DOMAIN batch[w] |-> CommittedStore[p]]
    BY <2>4
  <2>8. Approvals' = [Approvals EXCEPT ![w] =
          [batch |-> batch[w], seen |-> [p \in DOMAIN batch[w] |-> CommittedStore[p]]]]
    BY <2>2, <2>6, <2>7, ApprovalMoves
  <2>9. UNCHANGED CommittedStore
    BY <1>1, <1>3, <2>1 DEF Operate
  <2> QED BY <2>3, <2>8, <2>9 DEF Abstract!Approve
<1>4. ASSUME NEW w \in Writer, Observe(w) PROVE Abstract!Commit(w)
  BY <1>0, <1>4, ObserveCommits DEF Engine, Cooperation
<1>5. ASSUME NEW w \in Writer, Apply(w) \/ Operate(w), ~ Observe(w), ~ Approve(w)
      PROVE  UNCHANGED Abstract!vars
  <2>1. UNCHANGED <<batch, approved>>
    <3>1. CASE Apply(w) \/ Discover(w) \/ Acquire(w) \/ Confirm(w) \/ Outdated(w) \/ ReadFiles(w)
      BY <3>1 DEF Apply, Discover, Acquire, Confirm, Outdated, ReadFiles
    <3>2. CASE \/ PrepareStale(w) \/ PrepareInvalid(w) \/ Prepare(w) \/ Verify(w)
               \/ VerifyStale(w) \/ Fails(w)
      BY <3>2 DEF PrepareStale, PrepareInvalid, Prepare, Verify, VerifyStale, Fails
    <3>3. CASE \/ Publish(w) \/ PublishFails(w) \/ ObserveFails(w) \/ Restore(w)
               \/ FinishRollback(w)
      BY <3>3 DEF Publish, PublishFails, ObserveFails, StartRollback, Restore, FinishRollback
    <3> QED BY <1>5, <3>1, <3>2, <3>3 DEF Operate
  <2>2. UNCHANGED Approvals
    BY <2>1 DEF Approvals
  <2> QED BY <1>1, <1>5, <2>2 DEF Abstract!vars
<1>6. CASE UNCHANGED vars
  <2>1. UNCHANGED <<CommittedStore, Approvals>>
    BY <1>6 DEF vars, lockVars, CommittedStore, Publishing, Published, PriorOf, Approvals
  <2> QED BY <2>1 DEF Abstract!vars
<1>7. CASE \E w \in Writer : Preview(w) \/ Apply(w) \/ Operate(w) \/ Crash(w)
  <2>1. PICK w \in Writer : Preview(w) \/ Apply(w) \/ Operate(w) \/ Crash(w)
    BY <1>7
  <2>2. Abstract!Forget(w) \/ Abstract!Approve(w) \/ Abstract!Commit(w) \/ UNCHANGED Abstract!vars
    BY <1>2, <1>3, <1>4, <1>5, <2>1
  <2> QED BY <2>2 DEF Abstract!Next
<1> QED BY <1>0, <1>6, <1>7 DEF Next, Finished

\* The engine starts as a record store.
LEMMA InitRefines == Init => Abstract!Init
<1> SUFFICES ASSUME Init PROVE Abstract!Init
  OBVIOUS
<1>1. PICK found \in Start :
        files = [p \in Path |->
                   IF found[p] = Absent THEN Missing ELSE [doc |-> found[p], rev |-> 1]]
  BY DEF Init
<1>2. \A p \in Path : files[p].doc = found[p]
  BY <1>1 DEF Missing
<1>3. \A p \in Path : Publishing(p) = {}
  BY DEF Init, Publishing, Published
<1>4. found \in [Path -> Doc \cup {Absent}]
  BY MutationAssumption
<1>5. CommittedStore = found
  BY <1>2, <1>3, <1>4 DEF CommittedStore
<1>6. Approvals = [w \in Writer |-> None]
  BY DEF Init, Approvals
<1> QED BY <1>5, <1>6 DEF Abstract!Init

\* While every editor takes the locks and no publication is abandoned half way, the engine
\* implements RecordStore.
THEOREM EngineImplementsRecordStore ==
  ASSUME NoAlias PROVE Spec /\ []Undisturbed /\ [][~ Abandons]_vars => Atomic
<1> DEFINE Kept == Undisturbed => Cooperation
<1>1. Init => Engine /\ Kept /\ Abstract!Init
  BY EngineInit, InitRefines
<1>2. Engine /\ [Next]_vars => Engine'
  BY EngineNext
<1>3. Engine /\ Kept /\ [Next]_vars => Kept'
  <2> SUFFICES ASSUME Engine, Kept, [Next]_vars, Undisturbed' PROVE Cooperation'
    OBVIOUS
  <2> QED BY CooperationNext
<1>4. Engine /\ Kept /\ [Next]_vars /\ Undisturbed' /\ [~ Abandons]_vars
        => [Abstract!Next]_Abstract!vars
  <2> SUFFICES ASSUME Engine, Kept, [Next]_vars, Undisturbed', [~ Abandons]_vars
               PROVE  [Abstract!Next]_Abstract!vars
    OBVIOUS
  <2>1. CASE ~ Abandons
    BY <2>1, StepRefines
  <2>2. CASE UNCHANGED vars
    BY <2>2 DEF vars, lockVars, CommittedStore, Publishing, Published, PriorOf, Approvals,
                Abstract!vars
  <2> QED BY <2>1, <2>2
<1> HIDE DEF Kept
<1> QED BY <1>1, <1>2, <1>3, <1>4, PTL DEF Spec, Atomic, Abstract!Spec

(***************************************************************************)
(* One fault abandons nothing: a writer that has to roll back has had the  *)
(* only fault there is, and recognises every file it published as its own. *)
(***************************************************************************)
Sparing ==
  /\ budget.faults <= 1 /\ budget.crashes = 0
  /\ \A w \in Writer : At(w, "rollback") => budget.faults = 0
  /\ \A w \in Writer : budget.faults > 0 \/ At(w, "rollback") =>
       \A i \in DOMAIN receipts[w] : Own(receipts[w][i])

\* Nothing is published or spent at the start.
LEMMA SparingInit == MaxFaults <= 1 /\ MaxCrashes = 0 /\ Init => Sparing
BY DEF Init, Sparing, At

\* A step of one writer leaves every receipt that is not its newest as good as it was.
LEMMA MoveKeepsSparing ==
  ASSUME TypeInv, LockInv, Receipted, Sparing, NEW w \in Writer, Handled(w),
         \A v \in Writer \ {w} : pc'[v] = pc[v],
         budget.faults \in Nat, budget'.faults \in Nat,
         budget'.faults <= budget.faults, budget'.crashes = 0,
         pc'[w] = "rollback" =>
           budget'.faults = 0 /\ (pc[w] = "rollback" \/ budget.faults > 0),
         budget'.faults > 0 \/ pc'[w] = "rollback" =>
           \A i \in DOMAIN receipts'[w] :
             \/ i \in DOMAIN receipts[w] /\ receipts'[w][i] = receipts[w][i]
             \/ Own(receipts[w][i])'
  PROVE  Sparing'
<1>1. budget'.faults <= 1 /\ budget'.crashes = 0
  BY DEF Sparing
<1>2. \A v \in Writer : At(v, "rollback")' => budget'.faults = 0
  BY DEF Sparing, At
<1>3. ASSUME NEW v \in Writer, budget'.faults > 0 \/ At(v, "rollback")',
             NEW i \in DOMAIN receipts'[v]
      PROVE  Own(receipts[v][i])'
  <2>1. ASSUME i \in DOMAIN receipts[v], receipts'[v][i] = receipts[v][i],
               budget.faults > 0 \/ At(v, "rollback")
        PROVE  Own(receipts[v][i])'
    <3>1. Own(receipts[v][i])
      BY <2>1 DEF Sparing
    <3>2. PICK p : p = receipts[v][i].path
      OBVIOUS
    <3>3. p \in Published(v) /\ p \in Published(v)'
      BY <1>3, <2>1, <3>2 DEF Published
    <3>4. p \in Path
      BY <3>3, PublishedMeans
    <3>5. files'[p] = files[p]
      <4>1. CASE v = w
        BY <3>3, <4>1 DEF Handled
      <4>2. CASE v # w
        <5>1. p \notin Published(w) /\ p \notin Published(w)' \ Published(w)
          BY <3>3, <4>2, CommittedMeant DEF Exclusive, Handled
        <5> QED BY <3>4, <5>1 DEF Handled
      <4> QED BY <4>1, <4>2
    <3> QED BY <2>1, <3>1, <3>2, <3>5 DEF Own
  <2>2. CASE v = w
    <3>1. budget'.faults > 0 \/ pc'[w] = "rollback"
      BY <1>3, <2>2 DEF At
    <3>2. budget.faults > 0 \/ At(w, "rollback")
      BY <3>1 DEF At
    <3> QED BY <1>3, <2>1, <2>2, <3>1, <3>2
  <2>3. CASE v # w
    <3>1. receipts'[v] = receipts[v] /\ (budget.faults > 0 \/ At(v, "rollback"))
      BY <1>3, <2>3 DEF Handled, At
    <3> QED BY <1>3, <2>1, <3>1
  <2> QED BY <2>2, <2>3
<1> QED BY <1>1, <1>2, <1>3 DEF Sparing

\* A turn costs no fault, and a fault nothing else.
LEMMA CostOfSteps ==
  ASSUME budget \in Bounds
  PROVE  /\ \A w \in Writer : SpendTurn(w) =>
              budget'.faults = budget.faults /\ budget'.crashes = budget.crashes
         /\ Spend("faults") =>
              /\ budget.faults > 0 /\ budget'.faults = budget.faults - 1
              /\ budget'.crashes = budget.crashes
BY DEF Bounds, SpendTurn, Spend

\* Nothing but a fault sends an application back.
LEMMA CannotFailUndisturbed ==
  ASSUME TypeInv, Receipted, Accounted, Current, NEW w \in Writer, At(w, "publish"),
         NEW p \in Unpublished(w)
  PROVE  CanPublish(w, p)
<1>1. p \in DOMAIN batch[w] /\ p \in Path /\ p \notin Published(w)
  BY RequestType DEF At, Unpublished, TypeInv, Targeted
<1>2. seen[w][p] # Unread
  BY <1>1, UnreadIsNoVersion DEF At, TypeInv, Targeted, Locked, AllCaptured, Loaded
<1>3. p \in Read(w) \ (Published(w) \cup affected[w])
  BY <1>1, <1>2 DEF At, Accounted, Read
<1>4. files[p].doc = seen[w][p].doc
  BY <1>3 DEF At, Current, Loaded
<1> QED BY <1>1, <1>4 DEF Unpublished, CanPublish

\* With one fault and no crash every rollback puts everything back.
LEMMA SparingNext ==
  ASSUME Engine, Cooperation, Sparing, [Next]_vars, ~ Edit
  PROVE  Sparing' /\ ~ Abandons
<1>0. /\ TypeInv /\ LockInv /\ Receipted /\ Accounted /\ Once /\ Current
      /\ TypeOK /\ \A v \in Writer : ~ Writing(v) => receipts[v] = <<>>
  BY DEF Engine, Cooperation, TypeInv, Receipted
<1>1. budget \in Bounds /\ budget.faults \in Nat /\ budget.crashes = 0 /\ budget.faults <= 1
  BY <1>0 DEF TypeOK, Bounds, Sparing
<1>2. ASSUME NEW w \in Writer, Preview(w) \/ Apply(w) \/ Operate(w) \/ Crash(w)
      PROVE  Handled(w)
  BY <1>0, <1>2, StepHandles
<1>3. ASSUME NEW w \in Writer, Preview(w) \/ Apply(w) PROVE Sparing'
  <2>1. /\ Handled(w) /\ budget'.faults = budget.faults /\ budget'.crashes = 0
    BY <1>1, <1>2, <1>3, CostOfSteps DEF Preview, Apply
  <2>2. UNCHANGED receipts /\ pc'[w] # "rollback" /\ \A v \in Writer \ {w} : pc'[v] = pc[v]
    BY <1>0, <1>3 DEF Preview, Apply, Goto, TypeOK
  <2> QED BY <1>0, <1>1, <2>1, <2>2, MoveKeepsSparing
<1>4. ASSUME NEW w \in Writer,
             Discover(w) \/ Acquire(w) \/ Confirm(w) \/ ReadFiles(w) \/ Prepare(w) \/ Verify(w)
      PROVE  Sparing'
  <2>1. Handled(w)
    BY <1>2, <1>4 DEF Operate
  <2>2. /\ UNCHANGED <<budget, receipts>> /\ pc'[w] # "rollback"
        /\ \A v \in Writer \ {w} : pc'[v] = pc[v]
    BY <1>0, <1>4 DEF Discover, Acquire, Confirm, ReadFiles, Prepare, Verify, Goto, At, TypeOK
  <2> QED BY <1>0, <1>1, <2>1, <2>2, MoveKeepsSparing
<1>5. ASSUME NEW w \in Writer,
             \/ Outdated(w) \/ PrepareStale(w) \/ PrepareInvalid(w) \/ Approve(w)
             \/ VerifyStale(w) \/ Fails(w) \/ Observe(w) \/ FinishRollback(w)
      PROVE  Sparing'
  <2>1. Handled(w)
    BY <1>2, <1>5 DEF Operate
  <2>2. PICK result : Return(w, result)
    BY <1>5
    DEF Outdated, PrepareStale, PrepareInvalid, Approve, VerifyStale, Fails, Observe,
        FinishRollback
  <2>3. pc'[w] # "rollback" /\ \A v \in Writer \ {w} : pc'[v] = pc[v]
    BY <1>0, <2>2 DEF Return, Goto, TypeOK
  <2>4. receipts'[w] = <<>>
    BY <1>0, <1>5
    DEF Outdated, PrepareStale, PrepareInvalid, Approve, VerifyStale, Fails, Observe,
        FinishRollback, At, TypeOK, Writing
  <2>5. /\ budget'.faults \in Nat /\ budget'.faults <= budget.faults /\ budget'.crashes = 0
    <3>1. CASE Fails(w)
      BY <1>1, <3>1, CostOfSteps DEF Fails
    <3>2. CASE UNCHANGED budget
      BY <1>1, <3>2
    <3> QED
      BY <1>5, <3>1, <3>2
      DEF Outdated, PrepareStale, PrepareInvalid, Approve, VerifyStale, Observe, FinishRollback
  <2> QED BY <1>0, <1>1, <2>1, <2>3, <2>4, <2>5, MoveKeepsSparing
<1>6. ASSUME NEW w \in Writer, PublishFails(w) \/ ObserveFails(w) PROVE Sparing'
  <2>1. Handled(w)
    BY <1>2, <1>6 DEF Operate
  <2>2. Spend("faults") /\ \E cause : StartRollback(w, cause)
    BY <1>0, <1>6, CannotFailUndisturbed DEF PublishFails, ObserveFails
  <2>3. UNCHANGED receipts /\ \A v \in Writer \ {w} : pc'[v] = pc[v]
    BY <1>0, <2>2 DEF StartRollback, Goto, TypeOK
  <2>4. /\ budget.faults > 0 /\ budget'.faults = 0 /\ budget'.crashes = 0
    BY <1>1, <2>2, CostOfSteps
  <2> QED BY <1>0, <1>1, <2>1, <2>3, <2>4, MoveKeepsSparing
<1>7. ASSUME NEW w \in Writer, Publish(w) PROVE Sparing'
  <2>1. Handled(w)
    BY <1>2, <1>7 DEF Operate
  <2>2. UNCHANGED pc /\ pc[w] = "publish"
    BY <1>7 DEF Publish, At
  <2>3. PICK p \in Unpublished(w), known \in BOOLEAN :
          /\ files' = [files EXCEPT ![p] = Publication(batch[w][p].doc)]
          /\ receipts' = [receipts EXCEPT ![w] = Append(@,
               [path |-> p, prior |-> seen[w][p].doc, written |-> batch[w][p].doc,
                rev |-> IF known THEN Publication(batch[w][p].doc).rev ELSE 0])]
          /\ IF known THEN UNCHANGED budget ELSE Spend("faults")
    BY <1>7 DEF Publish
  <2>4. /\ budget'.faults \in Nat /\ budget'.faults <= budget.faults /\ budget'.crashes = 0
        /\ ~ known => budget'.faults = 0
    BY <1>1, <2>3, CostOfSteps
  <2>5. p \in Path
    BY <1>0, <2>2, <2>3, RequestType DEF Unpublished, TypeInv, Targeted
  <2>6. ASSUME known, NEW i \in DOMAIN receipts'[w]
        PROVE  \/ i \in DOMAIN receipts[w] /\ receipts'[w][i] = receipts[w][i]
               \/ Own(receipts[w][i])'
    <3> DEFINE receipt == [path |-> p, prior |-> seen[w][p].doc, written |-> batch[w][p].doc,
                           rev |-> Publication(batch[w][p].doc).rev]
    <3>1. receipts[w] \in Seq(Receipt) /\ receipts'[w] = Append(receipts[w], receipt)
      BY <1>0, <2>3, <2>6 DEF TypeOK
    <3>2. \/ i \in DOMAIN receipts[w] /\ receipts'[w][i] = receipts[w][i]
          \/ receipts'[w][i] = receipt
      <4> HIDE DEF receipt
      <4> QED BY <2>6, <3>1
    <3>3. ASSUME receipts'[w][i] = receipt PROVE Own(receipts[w][i])'
      <4>1. files'[p] = Publication(batch[w][p].doc)
        BY <1>0, <2>3, <2>5 DEF TypeOK
      <4>2. files'[p].doc = batch[w][p].doc
        BY <4>1 DEF Publication, Missing
      <4>3. receipt.path = p /\ receipt.written = batch[w][p].doc /\ receipt.rev = files'[p].rev
        BY <4>1
      <4> HIDE DEF receipt
      <4> QED BY <3>3, <4>2, <4>3 DEF Own
    <3> QED BY <3>2, <3>3
  <2> QED BY <1>0, <1>1, <2>1, <2>2, <2>4, <2>6, MoveKeepsSparing
<1>8. ASSUME NEW w \in Writer, Restore(w)
      PROVE  /\ UNCHANGED budget /\ clock' = clock + 1
             /\ \A i \in DOMAIN receipts'[w] :
                  i \in DOMAIN receipts[w] /\ receipts'[w][i] = receipts[w][i]
  <2> DEFINE last == Len(receipts[w])
  <2>1. /\ receipts[w] \in Seq(Receipt) /\ receipts[w] # <<>> /\ pc[w] = "rollback"
        /\ receipts'[w] = SubSeq(receipts[w], 1, last - 1)
    BY <1>0, <1>8 DEF Restore, At, TypeOK
  <2>2. last \in DOMAIN receipts[w]
    BY <2>1
  <2>3. Own(receipts[w][last]) /\ budget.faults = 0
    BY <2>1, <2>2 DEF Sparing, At
  <2>4. ~ Spend("faults")
    BY <1>1, <2>3, CostOfSteps
  <2>5. UNCHANGED budget /\ clock' = clock + 1
    BY <1>8, <2>3, <2>4 DEF Restore
  <2>6. \A i \in DOMAIN receipts'[w] :
          i \in DOMAIN receipts[w] /\ receipts'[w][i] = receipts[w][i]
    BY <2>1, SubSeqProperties
  <2> QED BY <2>5, <2>6
<1>9. ASSUME NEW w \in Writer, Restore(w) PROVE Sparing'
  <2>1. Handled(w)
    BY <1>2, <1>9 DEF Operate
  <2>2. UNCHANGED pc /\ pc[w] = "rollback" /\ budget.faults = 0
    BY <1>9 DEF Restore, At, Sparing
  <2>3. /\ UNCHANGED budget
        /\ \A i \in DOMAIN receipts'[w] :
             i \in DOMAIN receipts[w] /\ receipts'[w][i] = receipts[w][i]
    BY <1>8, <1>9
  <2> QED BY <1>0, <1>1, <2>1, <2>2, <2>3, MoveKeepsSparing
<1>10. \A w \in Writer : ~ Crash(w)
  BY <1>1 DEF Crash, Spend
<1>11. ~ Abandons
  <2>1. clock \in Nat
    BY <1>0 DEF TypeOK
  <2> QED BY <1>8, <1>10, <2>1 DEF Abandons
<1>12. ASSUME UNCHANGED vars PROVE Sparing'
  BY <1>12 DEF vars, Sparing, At, Own
<1>13. Sparing'
  BY <1>3, <1>4, <1>5, <1>6, <1>7, <1>9, <1>10, <1>12 DEF Next, Operate, Finished
<1> QED BY <1>11, <1>13

\* Without edits and crashes, and with no second fault, the engine implements RecordStore.
THEOREM EngineIsAtomic ==
  ASSUME NoAlias, MaxEdits = 0, MaxCrashes = 0, MaxFaults <= 1
  PROVE  Spec => Atomic
<1>1. Init => Engine /\ Cooperation /\ Sparing
  BY EngineInit, SparingInit
<1>2. Engine => Undisturbed
  BY DEF Engine, TypeInv, TypeOK, Bounds, EditsSpent, Undisturbed
<1>3. Engine /\ [Next]_vars => Engine'
  BY EngineNext
<1>4. Engine /\ Engine' /\ Cooperation /\ [Next]_vars => Cooperation' /\ ~ Edit
  <2>1. Engine' => Undisturbed'
    BY <1>2, PTL
  <2> QED BY <2>1, CooperationNext
<1>5. Engine /\ Cooperation /\ Sparing /\ [Next]_vars /\ ~ Edit => Sparing' /\ [~ Abandons]_vars
  BY SparingNext
<1> QED BY <1>1, <1>2, <1>3, <1>4, <1>5, EngineImplementsRecordStore, PTL DEF Spec
=============================================================================
