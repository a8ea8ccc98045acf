---------------------------- MODULE RollbackProofs ----------------------------
(***************************************************************************)
(* Proofs about the publication and the rollback of one transaction, for   *)
(* any number of targets, bodies, edits and failing system calls.          *)
(***************************************************************************)
EXTENDS Rollback, TLAPS, SequenceTheorems

-----------------------------------------------------------------------------
(* What holds between the files, the receipts and the rollback. *)

Forward == {"stage", "publish", "stamp"}

Received(t) == \E i \in 1..Len(receipts) : receipts[i].path = t

\* A target that was published and not taken back.
Out(t) == Received(t) \/ (pc = "stamp" /\ t = Here)

\* A file that does not exist has no node, and every revision is older than the clock.
FilesInv ==
  \A t \in Target :
    /\ file[t].rev < clock /\ looked[t] <= clock /\ identified[t] <= clock
    /\ file[t].body = Gone <=> file[t].node = NoNode

\* Each target that changes is received once, and while the transaction goes forward those that
\* are received are the ones before the present step.
ReceiptsInv ==
  /\ \A i \in 1..Len(receipts) :
       /\ receipts[i].path \in Changed
       /\ txn.written[receipts[i].path] = Gone => receipts[i].node = NoNode
  /\ \A i, j \in 1..Len(receipts) : receipts[i].path = receipts[j].path => i = j
  /\ pc \in Forward =>
       /\ \A i \in 1..Len(receipts) : \E k \in 1..(step - 1) : receipts[i].path = txn.order[k]
       /\ \A k \in 1..(step - 1) : txn.order[k] \in Changed => Received(txn.order[k])
       /\ step <= Len(txn.order) + 1

\* What is staged belongs to a target that changes.
StagedInv ==
  pc \in {"publish", "stamp"} =>
    /\ step <= Len(txn.order)
    /\ Here \in Changed
    /\ IF txn.written[Here] = Gone THEN temporary = NoNode ELSE temporary \in Node

\* Who made the file at a target, and what it says.
AuthorsInv ==
  /\ \A t \in Target :
       /\ file[t].by = "store" => file[t].body = txn.prior[t]
       /\ file[t].by = "engine" => t \in Changed
       /\ pc \in Forward /\ file[t].by = "engine" => Out(t) /\ file[t].body = txn.written[t]
       /\ pc \in Forward /\ Out(t) => file[t].by # "store"
       /\ pc \notin Forward /\ outcome # "applied" /\ file[t].by = "engine" =>
            Received(t) \/ t \in affected \/ file[t].body = txn.prior[t]
       /\ outcome = "applied" /\ file[t].by # "editor" => file[t].body = txn.written[t]
  /\ affected \subseteq Changed

\* Where the transaction is.
CourseInv ==
  /\ pc \in Forward => outcome = "none" /\ affected = {}
  /\ pc \in Forward => \A t \in Target : looked[t] = 0 /\ identified[t] = 0
  /\ pc \notin Forward => outcome # "none"
  /\ outcome = "applied" => pc = "done" /\ affected = {}
  /\ pc = "done" /\ outcome # "applied" => receipts = <<>>
  /\ pc \in {"identify", "put"} => receipts # <<>> /\ current \in Version

\* What the rollback saw is what is there, unless it was changed since.
LookInv ==
  /\ pc \in {"identify", "put"} => (file[Back].rev < looked[Back] => file[Back] = current)
  /\ pc = "put" =>
       /\ Mine
       /\ current.body # Gone /\ file[Back].rev < identified[Back] => file[Back].node = Last.node

\* A receipt without a revision.
Blind == \E i \in 1..Len(receipts) : receipts[i].rev = Unknown

\* Without editors everything published is in place, and every report takes a system call that
\* failed besides the one that started the rollback.
QuietInv ==
  budget.edits = MaxEdits =>
    /\ \A t \in Target : file[t].by # "editor"
    /\ pc \in Forward => \A t \in Target : ~ Out(t) => file[t].by = "store"
    /\ \A i \in 1..Len(receipts) :
         LET t == receipts[i].path
         IN  /\ file[t].body = txn.written[t]
             /\ file[t].body # Gone =>
                  file[t].node = receipts[i].node /\ receipts[i].rev \in {file[t].rev, Unknown}
    /\ pc = "stamp" => /\ file[Here].body = txn.written[Here]
                       /\ file[Here].body # Gone => file[Here].node = temporary
    /\ pc \in {"identify", "put"} => current = file[Back]
    /\ pc \in Forward /\ Blind => budget.faults < MaxFaults
    /\ pc \notin Forward /\ outcome # "applied" => budget.faults < MaxFaults
    /\ pc \notin Forward /\ outcome # "applied" /\ (Blind \/ affected # {}) =>
         budget.faults < MaxFaults - 1

BoundInv == budget.edits <= MaxEdits /\ budget.faults <= MaxFaults

RollbackInv ==
  /\ TypeOK /\ FilesInv /\ ReceiptsInv /\ StagedInv /\ AuthorsInv /\ CourseInv /\ LookInv
  /\ QuietInv /\ BoundInv

-----------------------------------------------------------------------------
(* Sequences, and what the state is made of. *)

\* A sequence and one more element.
LEMMA AppendFacts ==
  ASSUME NEW S, NEW s \in Seq(S), NEW e \in S
  PROVE  /\ Append(s, e) \in Seq(S) /\ Append(s, e) # <<>>
         /\ Len(s) \in Nat /\ Len(Append(s, e)) = Len(s) + 1
         /\ \A i \in 1..Len(s) : Append(s, e)[i] = s[i]
         /\ Append(s, e)[Len(s) + 1] = e
BY AppendProperties, LenProperties

\* A sequence without its last element.
LEMMA DropFacts ==
  ASSUME NEW S, NEW s \in Seq(S), s # <<>>
  PROVE  /\ SubSeq(s, 1, Len(s) - 1) \in Seq(S)
         /\ Len(s) \in Nat \ {0} /\ Len(SubSeq(s, 1, Len(s) - 1)) = Len(s) - 1
         /\ \A i \in 1..(Len(s) - 1) : SubSeq(s, 1, Len(s) - 1)[i] = s[i]
<1>1. Len(s) \in Nat \ {0}
  BY EmptySeq, LenProperties
<1>2. PICK n \in Int : n = Len(s) - 1
  BY <1>1
<1>3. n \in 0..Len(s) /\ 1 \in 1..(Len(s) + 1)
  BY <1>1, <1>2
<1>4. \A i \in 1..n : s[i] \in S
  BY <1>1, <1>3, ElementOfSeq
<1>5. /\ SubSeq(s, 1, n) \in Seq(S)
      /\ Len(SubSeq(s, 1, n)) = IF 1 <= n THEN n - 1 + 1 ELSE 0
      /\ \A i \in 1..(n - 1 + 1) : SubSeq(s, 1, n)[i] = s[1 + i - 1]
  BY <1>1, <1>3, <1>4, SubSeqProperties
<1> QED BY <1>1, <1>2, <1>3, <1>5

\* A transaction orders its targets, and each of them once.
LEMMA OrderFacts ==
  ASSUME TypeOK
  PROVE  /\ txn.order \in Seq(Target) /\ Len(txn.order) \in Nat
         /\ \A i \in 1..Len(txn.order) : txn.order[i] \in Target
         /\ \A i, j \in 1..Len(txn.order) : txn.order[i] = txn.order[j] => i = j
         /\ \A t \in Target : \E i \in 1..Len(txn.order) : txn.order[i] = t
         /\ txn.prior \in [Target -> Content] /\ txn.written \in [Target -> Content]
<1>1. txn \in Transaction
  BY DEF TypeOK
<1>2. /\ txn.order \in Seq(Target)
      /\ txn.prior \in [Target -> Content] /\ txn.written \in [Target -> Content]
  BY <1>1, RollbackAssumption
<1>3. Len(txn.order) \in Nat
  BY <1>2, LenProperties
<1>4. \A i \in 1..Len(txn.order) : txn.order[i] \in Target
  BY <1>2, <1>3, ElementOfSeq
<1> QED BY <1>1, <1>2, <1>3, <1>4, RollbackAssumption

\* The target of the present step.
LEMMA HereFacts ==
  ASSUME TypeOK, step <= Len(txn.order)
  PROVE  Here \in Target /\ txn.prior[Here] \in Content /\ txn.written[Here] \in Content
<1>1. step \in 1..Len(txn.order)
  BY OrderFacts DEF TypeOK
<1>2. Here \in Target
  BY <1>1, OrderFacts DEF Here
<1> QED BY <1>2, OrderFacts

\* What was received, and what was received last.
LEMMA ReceiptFacts ==
  ASSUME TypeOK
  PROVE  /\ Len(receipts) \in Nat
         /\ \A i \in 1..Len(receipts) : receipts[i] \in Receipt /\ receipts[i].path \in Target
         /\ receipts # <<>> =>
              /\ Len(receipts) \in 1..Len(receipts)
              /\ Last \in Receipt /\ Back \in Target
              /\ txn.prior[Back] \in Content /\ txn.written[Back] \in Content
<1>1. receipts \in Seq(Receipt)
  BY DEF TypeOK
<1>2. Len(receipts) \in Nat
  BY <1>1, LenProperties
<1>3. \A i \in 1..Len(receipts) : receipts[i] \in Receipt
  BY <1>1, <1>2, ElementOfSeq
<1>4. \A r \in Receipt : r.path \in Target
  BY DEF Receipt
<1>5. ASSUME receipts # <<>>
      PROVE  Len(receipts) \in 1..Len(receipts)
  BY <1>1, <1>2, <1>5, EmptySeq
<1>6. ASSUME receipts # <<>>
      PROVE  Last \in Receipt /\ Back \in Target
  BY <1>3, <1>4, <1>5, <1>6 DEF Last, Back
<1> QED BY <1>2, <1>3, <1>4, <1>5, <1>6, OrderFacts

\* What a file may be.
LEMMA VersionFacts ==
  ASSUME TypeOK, NEW t \in Target
  PROVE  /\ file[t] \in Version
         /\ file[t].body \in Content /\ file[t].node \in Node \cup {NoNode}
         /\ file[t].rev \in Nat /\ file[t].by \in {"store", "engine", "editor"}
<1>1. file[t] \in Version
  BY DEF TypeOK
<1> QED BY <1>1 DEF Version

\* What a system call that writes one file leaves.
LEMMA PlaceFacts ==
  ASSUME TypeOK, NEW t \in Target, NEW body \in Content, NEW node \in Node \cup {NoNode},
         NEW who \in {"store", "engine", "editor"}, Place(t, body, node, who)
  PROVE  /\ file' \in [Target -> Version] /\ clock' \in Nat \ {0} /\ clock' = clock + 1
         /\ file'[t].body = body /\ file'[t].rev = clock /\ file'[t].by = who
         /\ file'[t].node = IF body = Gone THEN NoNode ELSE node
         /\ \A u \in Target \ {t} : file'[u] = file[u]
<1>1. clock' = clock + 1 /\ clock \in Nat \ {0}
  BY DEF Place, TypeOK
<1> DEFINE v == [body |-> body, node |-> IF body = Gone THEN NoNode ELSE node, rev |-> clock,
                 by |-> who]
<1>2. v \in Version
  BY <1>1 DEF Version
<1>3. file' = [file EXCEPT ![t] = v] /\ file \in [Target -> Version]
  BY DEF Place, TypeOK
<1>4. file' \in [Target -> Version] /\ file'[t] = v /\ \A u \in Target \ {t} : file'[u] = file[u]
  BY <1>2, <1>3
<1> QED BY <1>1, <1>4

-----------------------------------------------------------------------------
(* The steps of the transaction that write. *)

\* The initial states.
LEMMA InitInv == Init => RollbackInv
<1> SUFFICES ASSUME Init PROVE RollbackInv
  OBVIOUS
<1>1. PICK node \in [Target -> Node \cup {NoNode}] :
        /\ \A t \in Target : node[t] = NoNode <=> txn.prior[t] = Gone
        /\ file = [t \in Target |->
                    [body |-> txn.prior[t], node |-> node[t], rev |-> 0, by |-> "store"]]
  BY DEF Init
<1>2. txn \in Transaction /\ txn.prior \in [Target -> Content] /\ txn.order \in Seq(Target)
  BY RollbackAssumption DEF Init
<1>3. file \in [Target -> Version]
  BY <1>1, <1>2 DEF Version
<1>4. receipts = <<>> /\ receipts \in Seq(Receipt) /\ Len(receipts) = 0
  BY DEF Init
<1>5. TypeOK
  BY <1>2, <1>3, <1>4, RollbackAssumption DEF Init, TypeOK
<1>6. FilesInv
  BY <1>1 DEF Init, FilesInv
<1>7. step = 1 /\ pc = "stage" /\ outcome = "none" /\ affected = {} /\ Len(txn.order) \in Nat
  BY <1>5, OrderFacts DEF Init
<1>8. \A t \in Target : ~ Out(t) /\ file[t].by = "store" /\ file[t].body = txn.prior[t]
  BY <1>1, <1>4, <1>7 DEF Out, Received
<1>9. ReceiptsInv /\ StagedInv
  BY <1>4, <1>7 DEF ReceiptsInv, StagedInv
<1>10. AuthorsInv
  BY <1>7, <1>8 DEF AuthorsInv
<1>11. CourseInv /\ LookInv
  BY <1>7 DEF Init, CourseInv, LookInv, Forward
<1>12. QuietInv
  <2>1. ~ Blind /\ \A i \in 1..Len(receipts) : FALSE
    BY <1>4 DEF Blind
  <2>2. \A t \in Target : file[t].by # "editor"
    BY <1>8
  <2> QED BY <1>7, <1>8, <2>1, <2>2 DEF QuietInv, Forward
<1>13. BoundInv
  BY RollbackAssumption DEF Init, BoundInv
<1> QED BY <1>5, <1>6, <1>9, <1>10, <1>11, <1>12, <1>13 DEF RollbackInv

\* A target that does not change is passed over.
LEMMA PassStep ==
  ASSUME RollbackInv, Pass
  PROVE  RollbackInv'
<1>1. /\ pc = "stage" /\ step <= Len(txn.order) /\ txn.written[Here] = txn.prior[Here]
      /\ step' = step + 1 /\ pc' = "stage"
      /\ UNCHANGED <<file, clock, txn, temporary, receipts, current, affected, outcome, looked,
                     identified, budget>>
  BY DEF Pass
<1>2. TypeOK /\ Len(txn.order) \in Nat /\ step \in Nat \ {0} /\ Len(receipts) \in Nat
  BY OrderFacts, ReceiptFacts DEF RollbackInv, TypeOK
<1>3. TypeOK'
  BY <1>1, <1>2 DEF TypeOK
<1>4. Here \notin Changed
  BY <1>1 DEF Changed
<1>5. Changed' = Changed /\ \A t : (Received(t)' <=> Received(t)) /\ (Out(t)' <=> Received(t))
  BY <1>1 DEF Changed, Received, Out
<1>6. \A t : Out(t) <=> Received(t)
  BY <1>1 DEF Out
<1>7. FilesInv'
  BY <1>1 DEF RollbackInv, FilesInv
<1>8. ReceiptsInv'
  <2>1. ReceiptsInv /\ "stage" \in Forward
    BY DEF RollbackInv, Forward
  <2>2. \A k \in 1..step : k \in 1..(step - 1) \/ k = step
    BY <1>2
  <2>3. \A k \in 1..step : txn.order[k] \in Changed => Received(txn.order[k])
    BY <1>1, <1>4, <2>1, <2>2 DEF ReceiptsInv, Here
  <2>4. \A i \in 1..Len(receipts) : \E k \in 1..step : receipts[i].path = txn.order[k]
    BY <1>1, <1>2, <2>1 DEF ReceiptsInv
  <2>5. step' - 1 = step /\ step' <= Len(txn.order) + 1
    BY <1>1, <1>2
  <2>6. /\ \A i \in 1..Len(receipts) : receipts[i].path \in Changed
               /\ (txn.written[receipts[i].path] = Gone => receipts[i].node = NoNode)
        /\ \A i, j \in 1..Len(receipts) : receipts[i].path = receipts[j].path => i = j
    BY <2>1 DEF ReceiptsInv
  <2>7. \A k \in 1..(step' - 1) : (txn.order[k] \in Changed => Received(txn.order[k]))'
    BY <1>1, <1>5, <2>3, <2>5
  <2> QED BY <1>1, <1>5, <2>3, <2>4, <2>5, <2>6 DEF ReceiptsInv, Received
<1>9. StagedInv' /\ LookInv'
  BY <1>1 DEF StagedInv, LookInv
<1>10. AuthorsInv'
  BY <1>1, <1>5, <1>6 DEF RollbackInv, AuthorsInv
<1>11. CourseInv'
  BY <1>1 DEF RollbackInv, CourseInv
<1>12. QuietInv'
  BY <1>1, <1>5, <1>6 DEF RollbackInv, QuietInv, Blind
<1>13. BoundInv'
  BY <1>1 DEF RollbackInv, BoundInv
<1> QED BY <1>3, <1>7, <1>8, <1>9, <1>10, <1>11, <1>12, <1>13 DEF RollbackInv

\* The body of a target that changes is staged.
LEMMA StageStep ==
  ASSUME RollbackInv, Stage
  PROVE  RollbackInv'
<1>1. /\ pc = "stage" /\ step <= Len(txn.order) /\ txn.written[Here] # txn.prior[Here]
      /\ pc' = "publish"
      /\ UNCHANGED <<file, clock, txn, step, receipts, current, affected, outcome, looked,
                     identified, budget>>
      /\ IF txn.written[Here] = Gone THEN temporary' = NoNode ELSE temporary' \in Node
  BY DEF Stage, FreeNode
<1>2. TypeOK
  BY DEF RollbackInv
<1>3. TypeOK'
  BY <1>1, <1>2 DEF TypeOK
<1>4. Here' = Here /\ Here \in Changed
  BY <1>1, <1>2, HereFacts DEF Changed, Here
<1>5. Changed' = Changed /\ \A t : (Received(t)' <=> Received(t)) /\ (Out(t)' <=> Received(t))
  BY <1>1 DEF Changed, Received, Out
<1>6. \A t : Out(t) <=> Received(t)
  BY <1>1 DEF Out
<1>7. FilesInv'
  BY <1>1 DEF RollbackInv, FilesInv
<1>8. ReceiptsInv'
  <2>1. ReceiptsInv /\ pc \in Forward /\ UNCHANGED <<receipts, step, txn>>
    BY <1>1 DEF RollbackInv, Forward
  <2>2. UNCHANGED <<receipts, txn.order, txn.written>>
    BY <2>1
  <2> QED BY <1>5, <2>1, <2>2 DEF ReceiptsInv
<1>9. StagedInv' /\ LookInv'
  BY <1>1, <1>4, <1>5 DEF StagedInv, LookInv
<1>10. AuthorsInv'
  BY <1>1, <1>5, <1>6 DEF RollbackInv, AuthorsInv, Forward
<1>11. CourseInv'
  BY <1>1 DEF RollbackInv, CourseInv, Forward
<1>12. QuietInv'
  BY <1>1, <1>5, <1>6 DEF RollbackInv, QuietInv, Blind, Forward
<1>13. BoundInv'
  BY <1>1 DEF RollbackInv, BoundInv
<1> QED BY <1>3, <1>7, <1>8, <1>9, <1>10, <1>11, <1>12, <1>13 DEF RollbackInv

\* The target of the present step was not received yet.
LEMMA HereIsNew ==
  ASSUME TypeOK, ReceiptsInv, pc \in Forward, step <= Len(txn.order)
  PROVE  ~ Received(Here)
<1> SUFFICES ASSUME Received(Here) PROVE FALSE
  OBVIOUS
<1>1. PICK i \in 1..Len(receipts) : receipts[i].path = Here
  BY DEF Received
<1>2. PICK k \in 1..(step - 1) : txn.order[k] = txn.order[step]
  BY <1>1 DEF ReceiptsInv, Here
<1>3. step \in Nat \ {0} /\ Len(txn.order) \in Nat
  BY OrderFacts DEF TypeOK
<1>4. k \in 1..Len(txn.order) /\ step \in 1..Len(txn.order) /\ k # step
  BY <1>2, <1>3
<1> QED BY <1>2, <1>4, OrderFacts

\* The new file takes the place of the old one.
LEMMA PublishStep ==
  ASSUME RollbackInv, Publish
  PROVE  RollbackInv'
<1>1. /\ pc = "publish" /\ pc' = "stamp"
      /\ UNCHANGED <<txn, step, temporary, receipts, current, affected, outcome, looked,
                     identified, budget>>
  BY DEF Publish
<1>2. TypeOK
  BY DEF RollbackInv
<1>3. /\ step <= Len(txn.order) /\ Here \in Changed
      /\ IF txn.written[Here] = Gone THEN temporary = NoNode ELSE temporary \in Node
  BY <1>1 DEF RollbackInv, StagedInv
<1>4. Here \in Target /\ txn.written[Here] \in Content /\ temporary \in Node \cup {NoNode}
  BY <1>2, <1>3, HereFacts DEF TypeOK
<1>5. /\ file' \in [Target -> Version] /\ clock' \in Nat \ {0} /\ clock' = clock + 1
      /\ file'[Here].body = txn.written[Here] /\ file'[Here].rev = clock
      /\ file'[Here].by = "engine"
      /\ file'[Here].node = IF txn.written[Here] = Gone THEN NoNode ELSE temporary
      /\ \A u \in Target \ {Here} : file'[u] = file[u]
  <2>1. PICK t \in Target : t = Here
    BY <1>4
  <2>2. Place(t, txn.written[t], temporary, "engine")
    BY <2>1 DEF Publish
  <2>3. txn.written[t] \in Content
    BY <1>4, <2>1
  <2> QED BY <1>2, <1>4, <2>1, <2>2, <2>3, PlaceFacts
<1>6. TypeOK'
  BY <1>1, <1>2, <1>5 DEF TypeOK
<1>7. Here' = Here /\ Changed' = Changed
  BY <1>1 DEF Here, Changed
<1>8. \A t : (Received(t)' <=> Received(t)) /\ (Out(t)' <=> Received(t) \/ t = Here)
  BY <1>1, <1>7 DEF Received, Out
<1>9. \A t : Out(t) <=> Received(t)
  BY <1>1 DEF Out
<1>10. ~ Received(Here)
  BY <1>1, <1>2, <1>3, HereIsNew DEF RollbackInv, Forward
<1>11. FilesInv'
  <2>1. \A t \in Target : file[t].rev < clock /\ looked[t] <= clock /\ identified[t] <= clock
                           /\ (file[t].body = Gone <=> file[t].node = NoNode)
    BY DEF RollbackInv, FilesInv
  <2>2. \A t \in Target : file[t].rev \in Nat /\ looked[t] \in Nat /\ identified[t] \in Nat
    BY <1>2, VersionFacts DEF TypeOK
  <2>3. clock \in Nat
    BY <1>2 DEF TypeOK
  <2>4. file'[Here].body = Gone <=> file'[Here].node = NoNode
    BY <1>3, <1>5, RollbackAssumption
  <2>5. ASSUME NEW t \in Target
        PROVE  file'[t].rev < clock' /\ looked[t] <= clock' /\ identified[t] <= clock'
    BY <1>5, <2>1, <2>2, <2>3
  <2>6. ASSUME NEW t \in Target
        PROVE  file'[t].body = Gone <=> file'[t].node = NoNode
    BY <1>5, <2>1, <2>4
  <2> QED BY <1>1, <2>5, <2>6 DEF FilesInv
<1>12. ReceiptsInv'
  <2>1. ReceiptsInv /\ pc \in Forward /\ UNCHANGED <<receipts, step, txn>>
    BY <1>1 DEF RollbackInv, Forward
  <2>2. UNCHANGED <<receipts, txn.order, txn.written>>
    BY <2>1
  <2> QED BY <1>7, <1>8, <2>1, <2>2 DEF ReceiptsInv
<1>13. StagedInv' /\ LookInv'
  BY <1>1, <1>3, <1>7 DEF StagedInv, LookInv
<1>14. AuthorsInv'
  <2>1. AuthorsInv /\ outcome # "applied"
    BY <1>1 DEF RollbackInv, CourseInv, Forward
  <2>2. ASSUME NEW t \in Target, t # Here
        PROVE  /\ file[t].by = "store" => file[t].body = txn.prior[t]
               /\ file[t].by = "engine" => t \in Changed
               /\ file[t].by = "engine" => Received(t) /\ file[t].body = txn.written[t]
               /\ Received(t) => file[t].by # "store"
    BY <1>1, <1>9, <2>1 DEF AuthorsInv, Forward
  <2>3. ASSUME NEW t \in Target
        PROVE  /\ file'[t].by = "store" => file'[t].body = txn.prior[t]
               /\ file'[t].by = "engine" => t \in Changed
               /\ file'[t].by = "engine" => Out(t)' /\ file'[t].body = txn.written[t]
               /\ Out(t)' => file'[t].by # "store"
    BY <1>3, <1>5, <1>8, <2>2
  <2> QED BY <1>1, <1>7, <2>1, <2>3 DEF AuthorsInv, Forward
<1>15. CourseInv'
  BY <1>1 DEF RollbackInv, CourseInv, Forward
<1>16. QuietInv'
  <2> SUFFICES ASSUME budget.edits = MaxEdits PROVE QuietInv'
    BY <1>1 DEF QuietInv
  <2>1. /\ \A t \in Target : file[t].by # "editor"
        /\ \A t \in Target : ~ Out(t) => file[t].by = "store"
        /\ \A i \in 1..Len(receipts) :
             LET t == receipts[i].path
             IN  /\ file[t].body = txn.written[t]
                 /\ file[t].body # Gone =>
                      file[t].node = receipts[i].node /\ receipts[i].rev \in {file[t].rev, Unknown}
        /\ Blind => budget.faults < MaxFaults
    BY <1>1 DEF RollbackInv, QuietInv, Forward
  <2>2. \A t \in Target : file'[t].by # "editor"
    BY <1>5, <2>1
  <2>3. \A t \in Target : ~ Out(t)' => file'[t].by = "store"
    BY <1>5, <1>8, <1>9, <2>1
  <2>4. \A i \in 1..Len(receipts) : file'[receipts[i].path] = file[receipts[i].path]
    BY <1>2, <1>5, <1>10, ReceiptFacts DEF Received
  <2>5. Blind' <=> Blind
    BY <1>1 DEF Blind
  <2>6. /\ file'[Here].body = txn.written[Here]
        /\ file'[Here].body # Gone => file'[Here].node = temporary
    BY <1>5
  <2> QED BY <1>1, <1>7, <2>1, <2>2, <2>3, <2>4, <2>5, <2>6 DEF QuietInv, Forward
<1>17. BoundInv'
  BY <1>1 DEF RollbackInv, BoundInv
<1> QED BY <1>6, <1>11, <1>12, <1>13, <1>14, <1>15, <1>16, <1>17 DEF RollbackInv

\* The published target is received.
LEMMA StampStep ==
  ASSUME RollbackInv, Stamp
  PROVE  RollbackInv'
<1>1. /\ pc = "stamp" /\ pc' = "stage" /\ clock' = clock + 1 /\ temporary' = NoNode
      /\ step' = step + 1
      /\ UNCHANGED <<file, txn, current, affected, outcome, looked, identified>>
  BY DEF Stamp
<1>2. TypeOK
  BY DEF RollbackInv
<1>3. /\ step <= Len(txn.order) /\ Here \in Changed
      /\ IF txn.written[Here] = Gone THEN temporary = NoNode ELSE temporary \in Node
  BY <1>1 DEF RollbackInv, StagedInv
<1>4. /\ Here \in Target /\ txn.written[Here] \in Content /\ temporary \in Node \cup {NoNode}
      /\ clock \in Nat \ {0} /\ step \in Nat \ {0} /\ Len(txn.order) \in Nat
      /\ budget.edits \in Nat /\ budget.faults \in Nat
  BY <1>2, <1>3, HereFacts, OrderFacts DEF TypeOK
<1>5. file[Here].rev \in Nat /\ HandleRevision \in Nat
  BY <1>2, <1>4, VersionFacts DEF HandleRevision
<1>6. PICK rev \in Nat \cup {Unknown} :
        /\ receipts' = Append(receipts, [path |-> Here, node |-> temporary, rev |-> rev])
        /\ \/ rev = HandleRevision /\ budget' = budget
           \/ rev = Unknown /\ budget.faults > 0
                /\ budget' = [budget EXCEPT !.faults = budget.faults - 1]
  BY <1>5 DEF Stamp, Spend
<1>7. PICK r \in Receipt : r = [path |-> Here, node |-> temporary, rev |-> rev]
  BY <1>4 DEF Receipt
<1>8. r.path = Here /\ r.node = temporary /\ r.rev = rev
  BY <1>7
<1>9. receipts \in Seq(Receipt) /\ receipts' = Append(receipts, r)
  BY <1>2, <1>6, <1>7 DEF TypeOK
<1>10. /\ receipts' \in Seq(Receipt) /\ Len(receipts) \in Nat /\ Len(receipts') = Len(receipts) + 1
       /\ \A i \in 1..Len(receipts) : receipts'[i] = receipts[i]
       /\ receipts'[Len(receipts) + 1] = r
  BY <1>9, AppendFacts
<1>11. \A i \in 1..Len(receipts') : i \in 1..Len(receipts) \/ i = Len(receipts) + 1
  BY <1>10
<1>12. /\ budget' \in [edits : Nat, faults : Nat] /\ budget'.edits = budget.edits
       /\ budget'.faults <= budget.faults
       /\ rev = Unknown => budget'.faults < budget.faults
  <2>1. budget \in [edits : Nat, faults : Nat]
    BY <1>2 DEF TypeOK
  <2>2. CASE rev = HandleRevision /\ budget' = budget
    BY <1>4, <1>5, <2>1, <2>2, RollbackAssumption
  <2>3. CASE rev = Unknown /\ budget.faults > 0
               /\ budget' = [budget EXCEPT !.faults = budget.faults - 1]
    BY <1>4, <2>1, <2>3
  <2> QED BY <1>6, <2>2, <2>3
<1>13. TypeOK'
  BY <1>1, <1>2, <1>4, <1>10, <1>12 DEF TypeOK
<1>14. Changed' = Changed
  BY <1>1 DEF Changed
<1>15. \A t : Received(t)' <=> Received(t) \/ t = Here
  <2>1. Len(receipts) + 1 \in 1..Len(receipts')
    BY <1>10
  <2>2. \A t : Received(t) => \E i \in 1..Len(receipts') : receipts'[i].path = t
    BY <1>10 DEF Received
  <2>3. \E i \in 1..Len(receipts') : receipts'[i].path = Here
    BY <1>8, <1>10, <2>1
  <2>4. ASSUME NEW t, NEW i \in 1..Len(receipts'), receipts'[i].path = t
        PROVE  Received(t) \/ t = Here
    BY <1>8, <1>10, <1>11, <2>4 DEF Received
  <2> QED BY <2>2, <2>3, <2>4 DEF Received
<1>16. \A t : (Out(t)' <=> Out(t)) /\ (Out(t)' <=> Received(t)')
  BY <1>1, <1>15 DEF Out
<1>17. FilesInv'
  <2>1. \A t \in Target : file[t].rev < clock /\ looked[t] <= clock /\ identified[t] <= clock
                           /\ (file[t].body = Gone <=> file[t].node = NoNode)
    BY DEF RollbackInv, FilesInv
  <2>2. \A t \in Target : file[t].rev \in Nat /\ looked[t] \in Nat /\ identified[t] \in Nat
    BY <1>2, VersionFacts DEF TypeOK
  <2>3. \A t \in Target : file[t].rev < clock + 1 /\ looked[t] <= clock + 1
                           /\ identified[t] <= clock + 1
    BY <1>4, <2>1, <2>2
  <2> QED BY <1>1, <2>1, <2>3 DEF FilesInv
<1>18. ReceiptsInv'
  <2>1. ReceiptsInv /\ pc \in Forward
    BY <1>1 DEF RollbackInv, Forward
  <2>2. ~ Received(Here)
    BY <1>2, <1>3, <2>1, HereIsNew
  <2>3. ASSUME NEW i \in 1..Len(receipts')
        PROVE  receipts'[i].path \in Changed
               /\ (txn.written[receipts'[i].path] = Gone => receipts'[i].node = NoNode)
    <3>1. CASE i \in 1..Len(receipts)
      BY <1>10, <2>1, <3>1 DEF ReceiptsInv
    <3>2. CASE i = Len(receipts) + 1
      BY <1>3, <1>8, <1>10, <3>2
    <3> QED BY <1>11, <3>1, <3>2
  <2>4. ASSUME NEW i \in 1..Len(receipts'), NEW j \in 1..Len(receipts'),
               receipts'[i].path = receipts'[j].path
        PROVE  i = j
    <3>1. CASE i \in 1..Len(receipts) /\ j \in 1..Len(receipts)
      BY <1>10, <2>1, <2>4, <3>1 DEF ReceiptsInv
    <3>2. CASE i \in 1..Len(receipts) /\ j = Len(receipts) + 1
      BY <1>8, <1>10, <2>2, <2>4, <3>2 DEF Received
    <3>3. CASE j \in 1..Len(receipts) /\ i = Len(receipts) + 1
      BY <1>8, <1>10, <2>2, <2>4, <3>3 DEF Received
    <3> QED BY <1>11, <3>1, <3>2, <3>3
  <2>5. step' - 1 = step /\ step' <= Len(txn.order) + 1 /\ step \in 1..step
    BY <1>1, <1>3, <1>4
  <2>6. \A k \in 1..step : k \in 1..(step - 1) \/ k = step
    BY <1>4
  <2>7. \A k \in 1..(step - 1) : k \in 1..step
    BY <1>4
  <2>8. ASSUME NEW i \in 1..Len(receipts')
        PROVE  \E k \in 1..step : receipts'[i].path = txn.order[k]
    <3>1. CASE i \in 1..Len(receipts)
      BY <1>10, <2>1, <2>7, <3>1 DEF ReceiptsInv
    <3>2. CASE i = Len(receipts) + 1
      BY <1>8, <1>10, <2>5, <3>2 DEF Here
    <3> QED BY <1>11, <3>1, <3>2
  <2>9. ASSUME NEW k \in 1..step, txn.order[k] \in Changed
        PROVE  \E i \in 1..Len(receipts') : receipts'[i].path = txn.order[k]
    <3>1. Received(txn.order[k]) \/ txn.order[k] = Here
      BY <2>1, <2>6, <2>9 DEF ReceiptsInv, Here
    <3> QED BY <1>15, <3>1 DEF Received
  <2> QED BY <1>1, <1>14, <2>3, <2>4, <2>5, <2>8, <2>9 DEF ReceiptsInv, Received
<1>19. StagedInv' /\ LookInv'
  BY <1>1 DEF StagedInv, LookInv
<1>20. AuthorsInv'
  <2>1. AuthorsInv /\ outcome # "applied"
    BY <1>1 DEF RollbackInv, CourseInv, Forward
  <2> QED BY <1>1, <1>14, <1>16, <2>1 DEF AuthorsInv, Forward
<1>21. CourseInv'
  BY <1>1 DEF RollbackInv, CourseInv, Forward
<1>22. BoundInv'
  BY <1>4, <1>12, RollbackAssumption DEF RollbackInv, BoundInv
<1>23. QuietInv'
  <2> SUFFICES ASSUME budget.edits = MaxEdits PROVE QuietInv'
    BY <1>12 DEF QuietInv
  <2>1. /\ \A t \in Target : file[t].by # "editor"
        /\ \A t \in Target : ~ Out(t) => file[t].by = "store"
        /\ \A i \in 1..Len(receipts) :
             LET t == receipts[i].path
             IN  /\ file[t].body = txn.written[t]
                 /\ file[t].body # Gone =>
                      file[t].node = receipts[i].node /\ receipts[i].rev \in {file[t].rev, Unknown}
        /\ Blind => budget.faults < MaxFaults
        /\ file[Here].body = txn.written[Here]
        /\ file[Here].body # Gone => file[Here].node = temporary
    BY <1>1 DEF RollbackInv, QuietInv, Forward
  <2>2. file[Here].body # Gone => rev \in {file[Here].rev, Unknown}
    BY <1>6, <2>1 DEF HandleRevision
  <2>3. ASSUME NEW i \in 1..Len(receipts')
        PROVE  LET t == receipts'[i].path
               IN  /\ file[t].body = txn.written[t]
                   /\ file[t].body # Gone =>
                        /\ file[t].node = receipts'[i].node
                        /\ receipts'[i].rev \in {file[t].rev, Unknown}
    <3>1. CASE i \in 1..Len(receipts)
      BY <1>10, <2>1, <3>1
    <3>2. CASE i = Len(receipts) + 1
      BY <1>8, <1>10, <2>1, <2>2, <3>2
    <3> QED BY <1>11, <3>1, <3>2
  <2>4. Blind' => Blind \/ rev = Unknown
    BY <1>8, <1>10, <1>11 DEF Blind
  <2>5. budget.faults <= MaxFaults /\ MaxFaults \in Nat
    BY RollbackAssumption DEF RollbackInv, BoundInv
  <2>6. Blind' => budget'.faults < MaxFaults
    <3>1. budget'.faults \in Nat
      BY <1>12
    <3> QED BY <1>4, <1>12, <2>1, <2>4, <2>5, <3>1
  <2> QED BY <1>1, <1>16, <2>1, <2>3, <2>6 DEF QuietInv, Forward
<1> QED BY <1>13, <1>17, <1>18, <1>19, <1>20, <1>21, <1>22, <1>23 DEF RollbackInv

-----------------------------------------------------------------------------
(* The end of the way forward. *)

\* Before the rollback begins, a failure leaves all that was published received.
LEMMA FailKeeps ==
  ASSUME RollbackInv, pc \in {"stage", "publish"}, NEW cause \in {"stale", "io"}, Fail(cause),
         budget' \in [edits : Nat, faults : Nat], budget'.edits = budget.edits,
         budget'.faults <= budget.faults,
         budget.edits = MaxEdits => budget'.faults < budget.faults
  PROVE  RollbackInv'
<1>1. /\ outcome' = cause /\ temporary' = NoNode /\ pc' = "look"
      /\ UNCHANGED <<file, clock, txn, step, receipts, current, affected, looked, identified>>
  BY DEF Fail
<1>2. TypeOK /\ AuthorsInv /\ CourseInv /\ pc \in Forward
  BY DEF RollbackInv, Forward
<1>3. TypeOK'
  BY <1>1, <1>2 DEF TypeOK
<1>4. Changed' = Changed /\ \A t : (Received(t)' <=> Received(t)) /\ (Out(t) <=> Received(t))
  BY <1>1 DEF Changed, Received, Out
<1>5. FilesInv'
  BY <1>1 DEF RollbackInv, FilesInv
<1>6. ReceiptsInv'
  BY <1>1, <1>4 DEF RollbackInv, ReceiptsInv, Forward
<1>7. StagedInv' /\ LookInv'
  BY <1>1 DEF StagedInv, LookInv
<1>8. AuthorsInv'
  BY <1>1, <1>2, <1>4 DEF AuthorsInv, Forward
<1>9. CourseInv'
  BY <1>1, <1>2 DEF CourseInv, Forward
<1>10. budget.edits \in Nat /\ budget.faults \in Nat /\ budget'.faults \in Nat
       /\ budget.edits <= MaxEdits /\ budget.faults <= MaxFaults
       /\ MaxFaults \in Nat
  BY <1>2, RollbackAssumption DEF TypeOK, RollbackInv, BoundInv
<1>11. BoundInv'
  BY <1>10 DEF BoundInv
<1>12. QuietInv'
  <2> SUFFICES ASSUME budget.edits = MaxEdits PROVE QuietInv'
    BY DEF QuietInv
  <2>1. /\ \A t \in Target : file[t].by # "editor"
        /\ \A i \in 1..Len(receipts) :
             LET t == receipts[i].path
             IN  /\ file[t].body = txn.written[t]
                 /\ file[t].body # Gone =>
                      file[t].node = receipts[i].node /\ receipts[i].rev \in {file[t].rev, Unknown}
        /\ Blind => budget.faults < MaxFaults
    BY <1>2 DEF RollbackInv, QuietInv
  <2>2. (Blind' <=> Blind) /\ affected' = {}
    BY <1>1, <1>2 DEF Blind, CourseInv
  <2>3. budget'.faults < MaxFaults /\ (Blind => budget'.faults < MaxFaults - 1)
    BY <1>10, <2>1
  <2> QED BY <1>1, <2>1, <2>2, <2>3 DEF QuietInv, Forward
<1> QED BY <1>3, <1>5, <1>6, <1>7, <1>8, <1>9, <1>11, <1>12 DEF RollbackInv

\* A system call that fails is one less.
LEMMA SpendFault ==
  ASSUME RollbackInv, Spend("faults")
  PROVE  /\ budget' \in [edits : Nat, faults : Nat] /\ budget'.edits = budget.edits
         /\ budget'.faults <= budget.faults /\ budget'.faults < budget.faults
<1>1. budget \in [edits : Nat, faults : Nat] /\ budget.faults \in Nat
  BY DEF RollbackInv, TypeOK
<1>2. budget.faults > 0 /\ budget' = [budget EXCEPT !.faults = budget.faults - 1]
  BY DEF Spend
<1> QED BY <1>1, <1>2

\* Nothing is in the way of a publication but what an editor put there.
LEMMA NotObstructed ==
  ASSUME RollbackInv, pc = "publish", budget.edits = MaxEdits
  PROVE  ~ Obstructed
<1>1. TypeOK /\ ReceiptsInv /\ pc \in Forward
  BY DEF RollbackInv, Forward
<1>2. step <= Len(txn.order) /\ Here \in Changed
  BY DEF RollbackInv, StagedInv
<1>3. Here \in Target
  BY <1>1, <1>2, HereFacts
<1>4. ~ Received(Here)
  BY <1>1, <1>2, HereIsNew
<1>5. ~ Out(Here)
  BY <1>4 DEF Out
<1>6. file[Here].by = "store"
  BY <1>1, <1>3, <1>5 DEF RollbackInv, QuietInv
<1>7. file[Here].body = txn.prior[Here]
  BY <1>3, <1>6 DEF RollbackInv, AuthorsInv
<1>8. txn.written[Here] # txn.prior[Here]
  BY <1>2 DEF Changed
<1> QED BY <1>7, <1>8 DEF Obstructed

\* Staging or publishing fails.
LEMMA FailsStep ==
  ASSUME RollbackInv, StepFails
  PROVE  RollbackInv'
<1>1. CASE pc = "publish" /\ Obstructed /\ UNCHANGED budget
           /\ Fail(IF txn.prior[Here] = Gone THEN "stale" ELSE "io")
  <2>1. PICK cause \in {"stale", "io"} : Fail(cause)
    BY <1>1
  <2>2. budget \in [edits : Nat, faults : Nat] /\ budget.faults \in Nat
    BY DEF RollbackInv, TypeOK
  <2>3. budget.edits # MaxEdits
    BY <1>1, NotObstructed
  <2>4. budget' \in [edits : Nat, faults : Nat] /\ budget'.edits = budget.edits
        /\ budget'.faults <= budget.faults
    BY <1>1, <2>2
  <2> QED BY <1>1, <2>1, <2>3, <2>4, FailKeeps
<1>2. CASE pc \in {"publish", "stage"} /\ Spend("faults") /\ Fail("io")
  BY <1>2, SpendFault, FailKeeps
<1> QED BY <1>1, <1>2 DEF StepFails

\* The transaction succeeds, or the targets cannot be read back.
LEMMA ObserveStep ==
  ASSUME RollbackInv, Observe
  PROVE  RollbackInv'
<1>1. CASE Spend("faults") /\ Fail("io")
  BY <1>1, SpendFault, FailKeeps DEF Observe
<1>2. CASE /\ outcome' = "applied" /\ pc' = "done"
           /\ UNCHANGED <<file, clock, txn, step, temporary, receipts, current, affected, looked,
                          identified, budget>>
  <2>1. TypeOK /\ AuthorsInv /\ CourseInv /\ ReceiptsInv /\ pc \in Forward /\ pc = "stage"
    BY DEF RollbackInv, Observe, Forward
  <2>2. TypeOK'
    BY <1>2, <2>1 DEF TypeOK
  <2>3. Changed' = Changed /\ \A t : (Received(t)' <=> Received(t)) /\ (Out(t) <=> Received(t))
    BY <1>2, <2>1 DEF Changed, Received, Out
  <2>4. ASSUME NEW t \in Changed PROVE Received(t)
    <3>1. step \in Nat /\ step > Len(txn.order) /\ Len(txn.order) \in Nat
      BY <2>1, OrderFacts DEF Observe, TypeOK
    <3>2. t \in Target
      BY DEF Changed
    <3>3. PICK k \in 1..Len(txn.order) : txn.order[k] = t
      BY <2>1, <3>2, OrderFacts
    <3>4. k \in 1..(step - 1)
      BY <3>1
    <3> QED BY <2>1, <3>3, <3>4 DEF ReceiptsInv
  <2>5. FilesInv'
    BY <1>2 DEF RollbackInv, FilesInv
  <2>6. ReceiptsInv'
    BY <1>2, <2>1, <2>3 DEF ReceiptsInv, Forward
  <2>7. StagedInv' /\ LookInv'
    BY <1>2 DEF StagedInv, LookInv
  <2>8. AuthorsInv'
    <3>1. ASSUME NEW t \in Target, file[t].by # "editor"
          PROVE  file[t].body = txn.written[t]
      <4>1. CASE file[t].by = "engine"
        BY <2>1, <4>1 DEF AuthorsInv
      <4>2. CASE file[t].by = "store"
        <5>1. t \notin Changed
          BY <2>1, <2>3, <2>4, <4>2 DEF AuthorsInv
        <5>2. file[t].body = txn.prior[t]
          BY <2>1, <4>2 DEF AuthorsInv
        <5> QED BY <5>1, <5>2 DEF Changed
      <4> QED BY <2>1, <3>1, <4>1, <4>2, VersionFacts
    <3> QED BY <1>2, <2>1, <2>3, <3>1 DEF AuthorsInv, Forward
  <2>9. CourseInv'
    BY <1>2, <2>1 DEF CourseInv, Forward
  <2>10. QuietInv'
    BY <1>2, <2>1 DEF RollbackInv, QuietInv, Forward
  <2>11. BoundInv'
    BY <1>2 DEF RollbackInv, BoundInv
  <2> QED BY <2>2, <2>5, <2>6, <2>7, <2>8, <2>9, <2>10, <2>11 DEF RollbackInv
<1> QED BY <1>1, <1>2 DEF Observe

-----------------------------------------------------------------------------
(* The rollback. *)

\* A file that exists has a node, whoever writes it.
LEMMA PlaceFiles ==
  ASSUME TypeOK, FilesInv, NEW t \in Target, NEW body \in Content, NEW node \in Node \cup {NoNode},
         NEW who \in {"store", "engine", "editor"}, Place(t, body, node, who),
         body # Gone => node # NoNode, UNCHANGED <<looked, identified>>
  PROVE  FilesInv'
<1>1. /\ file' \in [Target -> Version] /\ clock' = clock + 1
      /\ file'[t].body = body /\ file'[t].rev = clock
      /\ file'[t].node = IF body = Gone THEN NoNode ELSE node
      /\ \A u \in Target \ {t} : file'[u] = file[u]
  BY PlaceFacts
<1>2. clock \in Nat
      /\ \A u \in Target : file[u].rev \in Nat /\ looked[u] \in Nat /\ identified[u] \in Nat
  BY VersionFacts DEF TypeOK
<1>3. \A u \in Target : file[u].rev < clock /\ looked[u] <= clock /\ identified[u] <= clock
                         /\ (file[u].body = Gone <=> file[u].node = NoNode)
  BY DEF FilesInv
<1>4. ASSUME NEW u \in Target
      PROVE  file'[u].rev < clock' /\ looked[u] <= clock' /\ identified[u] <= clock'
  BY <1>1, <1>2, <1>3
<1>5. ASSUME NEW u \in Target PROVE file'[u].body = Gone <=> file'[u].node = NoNode
  BY <1>1, <1>3
<1> QED BY <1>4, <1>5 DEF FilesInv

\* While the rollback is at a target, the transaction has failed and the target was published.
LEMMA BackFacts ==
  ASSUME RollbackInv, receipts # <<>>, pc \in {"look", "identify", "put"}
  PROVE  /\ Len(receipts) \in 1..Len(receipts)
         /\ Last \in Receipt /\ Back \in Target /\ Back \in Changed
         /\ txn.prior[Back] \in Content /\ txn.written[Back] \in Content
         /\ file[Back] \in Version
         /\ pc \notin Forward /\ outcome \notin {"none", "applied"}
<1>1. TypeOK /\ ReceiptsInv /\ CourseInv
  BY DEF RollbackInv
<1>2. /\ Len(receipts) \in 1..Len(receipts)
      /\ Last \in Receipt /\ Back \in Target
      /\ txn.prior[Back] \in Content /\ txn.written[Back] \in Content
  BY <1>1, ReceiptFacts
<1>3. Back \in Changed
  BY <1>1, <1>2 DEF ReceiptsInv, Back, Last
<1>4. file[Back] \in Version
  BY <1>1, <1>2, VersionFacts
<1>5. pc \notin Forward /\ outcome \notin {"none", "applied"}
  BY <1>1 DEF CourseInv, Forward
<1> QED BY <1>2, <1>3, <1>4, <1>5

\* The rollback leaves a target: put back, or reported.
LEMMA LeaveKeeps ==
  ASSUME RollbackInv, receipts # <<>>, pc \in {"look", "identify", "put"},
         NEW reported \in SUBSET Target, reported \subseteq {Back}, Leave(reported),
         UNCHANGED <<txn, step, temporary, outcome, looked, identified>>,
         file' \in [Target -> Version], clock' \in Nat \ {0}, FilesInv',
         \A u \in Target \ {Back} : file'[u] = file[u],
         IF Back \in reported
           THEN file'[Back] = file[Back]
           ELSE file'[Back].body = txn.prior[Back] /\ file'[Back].by = "engine",
         budget' \in [edits : Nat, faults : Nat], budget'.edits = budget.edits,
         budget'.faults <= budget.faults,
         budget.edits = MaxEdits /\ reported # {} => budget'.faults < MaxFaults - 1
  PROVE  RollbackInv'
<1>1. /\ affected' = affected \cup reported /\ current' = Unknown /\ pc' = "look"
      /\ receipts' = SubSeq(receipts, 1, Len(receipts) - 1)
  BY DEF Leave
<1>2. TypeOK /\ ReceiptsInv /\ AuthorsInv /\ CourseInv
  BY DEF RollbackInv
<1>3. /\ Len(receipts) \in 1..Len(receipts) /\ Back \in Target /\ Back \in Changed
      /\ pc \notin Forward /\ outcome \notin {"none", "applied"}
  BY BackFacts
<1>4. /\ receipts' \in Seq(Receipt)
      /\ Len(receipts) \in Nat \ {0} /\ Len(receipts') = Len(receipts) - 1
      /\ \A i \in 1..(Len(receipts) - 1) : receipts'[i] = receipts[i]
  BY <1>1, <1>2, DropFacts DEF TypeOK
<1>5. \A i \in 1..Len(receipts') : i \in 1..Len(receipts) /\ i # Len(receipts)
                                    /\ receipts'[i] = receipts[i]
  BY <1>4
<1>6. \A i \in 1..Len(receipts) : i \in 1..Len(receipts') \/ i = Len(receipts)
  BY <1>4
<1>7. \A i \in 1..Len(receipts') : receipts'[i].path # Back
  BY <1>2, <1>3, <1>5 DEF ReceiptsInv, Back, Last
<1>8. \A t : (Received(t)' => Received(t) /\ t # Back) /\ (Received(t) => Received(t)' \/ t = Back)
  <2>1. ASSUME NEW t, NEW i \in 1..Len(receipts'), receipts'[i].path = t
        PROVE  Received(t) /\ t # Back
    BY <1>5, <1>7, <2>1 DEF Received
  <2>2. ASSUME NEW t, NEW i \in 1..Len(receipts), receipts[i].path = t, t # Back
        PROVE  i \in 1..Len(receipts') /\ receipts'[i].path = t
    BY <1>5, <1>6, <2>2 DEF Back, Last
  <2> QED BY <2>1, <2>2 DEF Received
<1>9. TypeOK'
  BY <1>1, <1>2, <1>4 DEF TypeOK
<1>10. Changed' = Changed
  BY DEF Changed
<1>11. ReceiptsInv'
  <2>1. \A i \in 1..Len(receipts') :
           /\ receipts'[i].path \in Changed
           /\ txn.written[receipts'[i].path] = Gone => receipts'[i].node = NoNode
    BY <1>2, <1>5 DEF ReceiptsInv
  <2>2. \A i, j \in 1..Len(receipts') : receipts'[i].path = receipts'[j].path => i = j
    BY <1>2, <1>5 DEF ReceiptsInv
  <2>3. pc' \notin Forward
    BY <1>1 DEF Forward
  <2> QED BY <1>10, <2>1, <2>2, <2>3 DEF ReceiptsInv
<1>12. StagedInv' /\ LookInv'
  BY <1>1 DEF StagedInv, LookInv
<1>13. AuthorsInv'
  <2>1. pc' \notin Forward /\ outcome' # "applied" /\ affected' \subseteq Changed
    BY <1>1, <1>2, <1>3 DEF AuthorsInv, Forward
  <2>2. ASSUME NEW t \in Target, t # Back
        PROVE  /\ file'[t].by = "store" => file'[t].body = txn.prior[t]
               /\ file'[t].by = "engine" => t \in Changed
               /\ file'[t].by = "engine" =>
                    Received(t)' \/ t \in affected' \/ file'[t].body = txn.prior[t]
    BY <1>1, <1>2, <1>3, <1>8, <2>2 DEF AuthorsInv
  <2>3. Back \in Target
        /\ (file'[Back].by = "store" => file'[Back].body = txn.prior[Back])
        /\ (Back \in affected' \/ file'[Back].body = txn.prior[Back])
    BY <1>1, <1>2, <1>3 DEF AuthorsInv
  <2>4. ASSUME NEW t \in Target
        PROVE  /\ file'[t].by = "store" => file'[t].body = txn.prior[t]
               /\ file'[t].by = "engine" => t \in Changed
               /\ file'[t].by = "engine" =>
                    Received(t)' \/ t \in affected' \/ file'[t].body = txn.prior[t]
    BY <1>3, <2>2, <2>3
  <2> QED BY <1>10, <2>1, <2>4 DEF AuthorsInv
<1>14. CourseInv'
  BY <1>1, <1>3 DEF CourseInv, Forward
<1>15. BoundInv'
  <2>1. budget.edits \in Nat /\ budget.faults \in Nat /\ budget'.faults \in Nat
        /\ budget.edits <= MaxEdits /\ budget.faults <= MaxFaults /\ MaxFaults \in Nat
    BY <1>2, RollbackAssumption DEF TypeOK, RollbackInv, BoundInv
  <2> QED BY <2>1 DEF BoundInv
<1>16. QuietInv'
  <2> SUFFICES ASSUME budget.edits = MaxEdits PROVE QuietInv'
    BY DEF QuietInv
  <2>1. /\ \A t \in Target : file[t].by # "editor"
        /\ \A i \in 1..Len(receipts) :
             LET t == receipts[i].path
             IN  /\ file[t].body = txn.written[t]
                 /\ file[t].body # Gone =>
                      file[t].node = receipts[i].node /\ receipts[i].rev \in {file[t].rev, Unknown}
        /\ budget.faults < MaxFaults
        /\ Blind \/ affected # {} => budget.faults < MaxFaults - 1
    BY <1>3 DEF RollbackInv, QuietInv
  <2>2. Blind' => Blind
    BY <1>5 DEF Blind
  <2>3. \A t \in Target : file'[t].by # "editor"
    BY <1>3, <2>1
  <2>4. \A i \in 1..Len(receipts') : file'[receipts'[i].path] = file[receipts[i].path]
    BY <1>2, <1>5, <1>7, ReceiptFacts
  <2>5. \A i \in 1..Len(receipts') :
           LET t == receipts'[i].path
           IN  /\ file'[t].body = txn.written[t]
               /\ file'[t].body # Gone =>
                    /\ file'[t].node = receipts'[i].node
                    /\ receipts'[i].rev \in {file'[t].rev, Unknown}
    BY <1>5, <2>1, <2>4
  <2>6. budget.faults \in Nat /\ budget'.faults \in Nat /\ MaxFaults \in Nat
    BY <1>2, RollbackAssumption DEF TypeOK
  <2>7. budget'.faults < MaxFaults
    BY <2>1, <2>6
  <2>8. Blind' \/ affected' # {} => budget'.faults < MaxFaults - 1
    BY <1>1, <2>1, <2>2, <2>6
  <2> QED BY <1>1, <2>3, <2>5, <2>7, <2>8 DEF QuietInv, Forward
<1> QED BY <1>9, <1>11, <1>12, <1>13, <1>14, <1>15, <1>16 DEF RollbackInv

\* Where no editor was, the file at a target that was published is the one received.
LEMMA QuietBack ==
  ASSUME RollbackInv, receipts # <<>>, pc \in {"look", "identify", "put"},
         budget.edits = MaxEdits
  PROVE  /\ file[Back].body = txn.written[Back]
         /\ file[Back].body # Gone =>
              file[Back].node = Last.node /\ Last.rev \in {file[Back].rev, Unknown}
         /\ pc # "look" => current = file[Back]
         /\ budget.faults < MaxFaults
         /\ Last.rev = Unknown => budget.faults < MaxFaults - 1
<1>1. Len(receipts) \in 1..Len(receipts) /\ pc \notin Forward /\ outcome # "applied"
  BY BackFacts
<1>2. Last.rev = Unknown => Blind
  BY <1>1 DEF Blind, Last
<1>3. QuietInv
  BY DEF RollbackInv
<1> QED BY <1>1, <1>2, <1>3 DEF QuietInv, Back, Last

\* What the steps that only look leave as it is.
LEMMA LookKeeps ==
  ASSUME RollbackInv, receipts # <<>>, pc \in {"look", "identify"}, pc' \in {"identify", "put"},
         UNCHANGED <<file, txn, step, temporary, receipts, affected, outcome, budget>>,
         clock' = clock + 1, current' \in Version,
         looked' \in [Target -> Nat], identified' \in [Target -> Nat],
         \A t \in Target : looked'[t] \in {looked[t], clock},
         \A t \in Target : identified'[t] \in {identified[t], clock},
         LookInv', budget.edits = MaxEdits => current' = file[Back]
  PROVE  RollbackInv'
<1>1. TypeOK /\ pc \notin Forward /\ pc' \notin Forward /\ outcome \notin {"none", "applied"}
  BY BackFacts DEF RollbackInv, Forward
<1>2. clock \in Nat \ {0} /\ clock + 1 \in Nat \ {0}
  BY <1>1 DEF TypeOK
<1>3. TypeOK'
  BY <1>1, <1>2 DEF TypeOK
<1>4. FilesInv'
  <2>1. \A t \in Target : file[t].rev < clock /\ looked[t] <= clock /\ identified[t] <= clock
                           /\ (file[t].body = Gone <=> file[t].node = NoNode)
    BY DEF RollbackInv, FilesInv
  <2>2. \A t \in Target : file[t].rev \in Nat /\ looked[t] \in Nat /\ identified[t] \in Nat
    BY <1>1, VersionFacts DEF TypeOK
  <2>3. \A t \in Target : file[t].rev < clock + 1 /\ looked'[t] <= clock + 1
                           /\ identified'[t] <= clock + 1
    BY <1>2, <2>1, <2>2
  <2> QED BY <2>1, <2>3 DEF FilesInv
<1>5. Changed' = Changed /\ Back' = Back /\ \A t : Received(t)' <=> Received(t)
  BY DEF Changed, Back, Last, Received
<1>6. ReceiptsInv'
  BY <1>1, <1>5 DEF RollbackInv, ReceiptsInv
<1>7. StagedInv'
  BY <1>1 DEF StagedInv, Forward
<1>8. AuthorsInv'
  BY <1>1, <1>5 DEF RollbackInv, AuthorsInv
<1>9. CourseInv'
  BY <1>1 DEF RollbackInv, CourseInv
<1>10. QuietInv'
  <2>1. pc' # "stamp"
    OBVIOUS
  <2> QED BY <1>1, <1>5, <2>1 DEF RollbackInv, QuietInv, Blind
<1>11. BoundInv'
  BY DEF RollbackInv, BoundInv
<1> QED BY <1>3, <1>4, <1>6, <1>7, <1>8, <1>9, <1>10, <1>11 DEF RollbackInv

\* A file and its revision are read.
LEMMA LookStep ==
  ASSUME RollbackInv, Look
  PROVE  RollbackInv'
<1>1. /\ pc = "look" /\ receipts # <<>> /\ current' = file[Back] /\ pc' = "identify"
      /\ looked' = [looked EXCEPT ![Back] = clock] /\ clock' = clock + 1
      /\ UNCHANGED <<file, txn, step, temporary, receipts, affected, outcome, identified, budget>>
  BY DEF Look
<1>2. Back \in Target /\ file[Back] \in Version
  BY <1>1, BackFacts
<1>3. looked \in [Target -> Nat] /\ identified \in [Target -> Nat] /\ clock \in Nat
  BY DEF RollbackInv, TypeOK
<1>4. looked' \in [Target -> Nat] /\ \A t \in Target : looked'[t] \in {looked[t], clock}
  BY <1>1, <1>2, <1>3
<1>5. LookInv'
  BY <1>1 DEF LookInv, Back, Last
<1> QED BY <1>1, <1>2, <1>3, <1>4, <1>5, LookKeeps

\* The node at the path is read.
LEMMA IdentifyStep ==
  ASSUME RollbackInv, Identify
  PROVE  RollbackInv'
<1>1. /\ pc = "identify" /\ Mine /\ pc' = "put"
      /\ current.body # Gone => file[Back].node = Last.node
      /\ identified' = [identified EXCEPT ![Back] = clock] /\ clock' = clock + 1
      /\ UNCHANGED <<file, txn, step, temporary, receipts, current, affected, outcome, looked,
                     budget>>
  BY DEF Identify
<1>2. receipts # <<>> /\ current \in Version
  BY <1>1 DEF RollbackInv, CourseInv
<1>3. Back \in Target /\ file[Back] \in Version
  BY <1>1, <1>2, BackFacts
<1>4. looked \in [Target -> Nat] /\ identified \in [Target -> Nat] /\ clock \in Nat
  BY DEF RollbackInv, TypeOK
<1>5. identified' \in [Target -> Nat] /\ \A t \in Target : identified'[t] \in {identified[t], clock}
  BY <1>1, <1>3, <1>4
<1>6. LookInv'
  BY <1>1 DEF RollbackInv, LookInv, Back, Last, Mine
<1>7. budget.edits = MaxEdits => current = file[Back]
  BY <1>1, <1>2, QuietBack
<1> QED BY <1>1, <1>2, <1>4, <1>5, <1>6, <1>7, LookKeeps

\* What a step that reports a target needs besides: a fault that was spent, or an editor.
LEMMA ReportKeeps ==
  ASSUME RollbackInv, receipts # <<>>, pc \in {"look", "identify", "put"}, Leave({Back}),
         UNCHANGED <<file, clock, txn, step, temporary, outcome, looked, identified>>,
         budget' \in [edits : Nat, faults : Nat], budget'.edits = budget.edits,
         budget'.faults <= budget.faults,
         budget.edits = MaxEdits =>
           budget'.faults < budget.faults \/ budget'.faults < MaxFaults - 1
  PROVE  RollbackInv'
<1>1. Back \in Target /\ TypeOK
  BY BackFacts DEF RollbackInv
<1>2. PICK reported \in SUBSET Target : reported = {Back}
  BY <1>1
<1>3. FilesInv'
  BY DEF RollbackInv, FilesInv
<1>4. budget.faults \in Nat /\ budget'.faults \in Nat /\ MaxFaults \in Nat
  BY <1>1, RollbackAssumption DEF TypeOK
<1>5. budget.edits = MaxEdits => budget'.faults < MaxFaults - 1
  BY <1>4, QuietBack
<1>6. file' \in [Target -> Version] /\ clock' \in Nat \ {0}
  BY <1>1 DEF TypeOK
<1>7. Leave(reported)
  BY <1>2
<1> QED BY <1>1, <1>2, <1>3, <1>5, <1>6, <1>7, LeaveKeeps

\* A file that cannot be read is reported.
LEMMA LookFailsStep ==
  ASSUME RollbackInv, LookFails
  PROVE  RollbackInv'
BY SpendFault, ReportKeeps DEF LookFails

\* A file that is not the one that was published is reported.
LEMMA SpareStep ==
  ASSUME RollbackInv, Spare
  PROVE  RollbackInv'
<1>1. /\ pc = "identify" /\ Leave({Back})
      /\ ~ Mine \/ (current.body # Gone /\ file[Back].node # Last.node)
      /\ UNCHANGED <<file, clock, txn, step, temporary, outcome, looked, identified, budget>>
  BY DEF Spare
<1>2. receipts # <<>> /\ budget \in [edits : Nat, faults : Nat]
  BY <1>1 DEF RollbackInv, CourseInv, TypeOK
<1>3. budget.edits = MaxEdits => budget.faults < MaxFaults - 1
  BY <1>1, <1>2, QuietBack DEF Mine
<1>4. budget'.faults <= budget.faults /\ budget' = budget
  BY <1>1, <1>2
<1> QED BY <1>1, <1>2, <1>3, <1>4, ReportKeeps

\* A file that cannot be put back is reported.
LEMMA PutFailsStep ==
  ASSUME RollbackInv, PutFails
  PROVE  RollbackInv'
<1>1. /\ pc = "put" /\ Leave({Back}) /\ (InTheWay \/ budget.faults > 0)
      /\ budget' = IF InTheWay THEN budget ELSE [budget EXCEPT !.faults = budget.faults - 1]
      /\ UNCHANGED <<file, clock, txn, step, temporary, outcome, looked, identified>>
  BY DEF PutFails
<1>2. receipts # <<>> /\ budget \in [edits : Nat, faults : Nat]
  BY <1>1 DEF RollbackInv, CourseInv, TypeOK
<1>3. budget.edits = MaxEdits => ~ InTheWay
  <2> SUFFICES ASSUME budget.edits = MaxEdits PROVE ~ InTheWay
    OBVIOUS
  <2>1. current = file[Back] /\ file[Back].body = txn.written[Back]
    BY <1>1, <1>2, QuietBack
  <2>2. txn.written[Back] # txn.prior[Back]
    BY <1>1, <1>2, BackFacts DEF Changed
  <2> QED BY <2>1, <2>2 DEF InTheWay
<1>4. /\ budget' \in [edits : Nat, faults : Nat] /\ budget'.edits = budget.edits
      /\ budget'.faults <= budget.faults
      /\ InTheWay \/ budget'.faults < budget.faults
  <2>1. CASE InTheWay
    BY <1>1, <1>2, <2>1
  <2>2. CASE ~ InTheWay
    BY <1>1, <1>2, <2>2
  <2> QED BY <2>1, <2>2
<1> QED BY <1>1, <1>2, <1>3, <1>4, ReportKeeps

\* The old file comes back.
LEMMA PutStep ==
  ASSUME RollbackInv, Put
  PROVE  RollbackInv'
<1>1. /\ pc = "put" /\ Leave({})
      /\ UNCHANGED <<txn, step, temporary, outcome, looked, identified, budget>>
  BY DEF Put
<1>2. receipts # <<>> /\ budget \in [edits : Nat, faults : Nat] /\ TypeOK /\ FilesInv
  BY <1>1 DEF RollbackInv, CourseInv, TypeOK
<1>3. Back \in Target /\ txn.prior[Back] \in Content
  BY <1>1, <1>2, BackFacts
<1>4. PICK t \in Target : t = Back
  BY <1>3
<1>5. PICK body \in Content, node \in Node \cup {NoNode} :
        /\ body = txn.prior[t] /\ (body # Gone => node # NoNode)
        /\ Place(t, body, node, "engine")
  BY <1>3, <1>4, RollbackAssumption DEF Put, FreeNode, Content
<1>6. /\ file' \in [Target -> Version] /\ clock' \in Nat \ {0}
      /\ file'[t].body = body /\ file'[t].by = "engine"
      /\ \A u \in Target \ {t} : file'[u] = file[u]
  BY <1>2, <1>5, PlaceFacts
<1>7. FilesInv'
  BY <1>1, <1>2, <1>5, PlaceFiles
<1>8. {} \in SUBSET Target /\ {} \subseteq {Back} /\ Back \notin {}
  OBVIOUS
<1>9. budget'.faults <= budget.faults
  BY <1>1, <1>2
<1> QED BY <1>1, <1>2, <1>4, <1>5, <1>6, <1>7, <1>8, <1>9, LeaveKeeps

\* The rollback ends.
LEMMA FinishStep ==
  ASSUME RollbackInv, Finish
  PROVE  RollbackInv'
<1>1. /\ pc = "look" /\ receipts = <<>> /\ pc' = "done"
      /\ UNCHANGED <<file, clock, txn, step, temporary, receipts, current, affected, outcome,
                     looked, identified, budget>>
  BY DEF Finish
<1>2. Changed' = Changed /\ \A t : Received(t)' <=> Received(t)
  BY <1>1 DEF Changed, Received
<1>3. TypeOK'
  BY <1>1 DEF RollbackInv, TypeOK
<1>4. FilesInv' /\ BoundInv'
  BY <1>1 DEF RollbackInv, FilesInv, BoundInv
<1>5. ReceiptsInv'
  BY <1>1, <1>2 DEF RollbackInv, ReceiptsInv, Forward
<1>6. StagedInv' /\ LookInv'
  BY <1>1 DEF StagedInv, LookInv
<1>7. AuthorsInv'
  BY <1>1, <1>2 DEF RollbackInv, AuthorsInv, Forward
<1>8. CourseInv'
  BY <1>1 DEF RollbackInv, CourseInv, Forward
<1>9. QuietInv'
  BY <1>1 DEF RollbackInv, QuietInv, Forward, Blind
<1> QED BY <1>3, <1>4, <1>5, <1>6, <1>7, <1>8, <1>9 DEF RollbackInv

-----------------------------------------------------------------------------
(* The editors, and every step. *)

\* A system call of an editor, whatever it is, leaves a file with a node or none.
LEMMA EditPlaces ==
  ASSUME RollbackInv, Edit
  PROVE  \E t \in Target, body \in Content, node \in Node \cup {NoNode} :
           (body # Gone => node # NoNode) /\ Place(t, body, node, "editor")
<1>1. PICK t \in Target, body \in Content :
        \/ /\ body # Gone /\ file[t].body # Gone
           /\ Place(t, body, file[t].node, "editor")
        \/ /\ body # Gone
           /\ \E node \in FreeNode : Place(t, body, node, "editor")
        \/ /\ body = Gone /\ file[t].body # Gone
           /\ Place(t, Gone, NoNode, "editor")
  BY DEF Edit
<1>2. file[t].node \in Node \cup {NoNode} /\ (file[t].body # Gone => file[t].node # NoNode)
  BY VersionFacts DEF RollbackInv, FilesInv
<1>3. CASE body # Gone /\ file[t].body # Gone /\ Place(t, body, file[t].node, "editor")
  BY <1>2, <1>3
<1>4. CASE body # Gone /\ \E node \in FreeNode : Place(t, body, node, "editor")
  <2>1. PICK node \in FreeNode : Place(t, body, node, "editor")
    BY <1>4
  <2>2. node \in Node \cup {NoNode} /\ node # NoNode
    BY RollbackAssumption DEF FreeNode
  <2> QED BY <1>4, <2>1, <2>2
<1>5. CASE body = Gone /\ Place(t, Gone, NoNode, "editor")
  BY <1>5
<1> QED BY <1>1, <1>3, <1>4, <1>5

\* An editor changes nothing that the transaction knows of but the file.
LEMMA EditStep ==
  ASSUME RollbackInv, Edit
  PROVE  RollbackInv'
<1>1. UNCHANGED <<txn, pc, step, temporary, receipts, current, affected, outcome, looked,
                  identified>>
  BY DEF Edit
<1>2. TypeOK /\ FilesInv
  BY DEF RollbackInv
<1>3. PICK t \in Target, body \in Content, node \in Node \cup {NoNode} :
        (body # Gone => node # NoNode) /\ Place(t, body, node, "editor")
  BY EditPlaces
<1>4. /\ file' \in [Target -> Version] /\ clock' \in Nat \ {0}
      /\ file'[t].rev = clock /\ file'[t].by = "editor"
      /\ \A u \in Target \ {t} : file'[u] = file[u]
  BY <1>2, <1>3, PlaceFacts
<1>5. /\ budget' \in [edits : Nat, faults : Nat] /\ budget'.faults = budget.faults
      /\ budget'.edits < budget.edits
  <2>1. budget \in [edits : Nat, faults : Nat] /\ budget.edits \in Nat
    BY <1>2 DEF TypeOK
  <2>2. budget.edits > 0 /\ budget' = [budget EXCEPT !.edits = budget.edits - 1]
    BY DEF Edit, Spend
  <2> QED BY <2>1, <2>2
<1>6. TypeOK'
  BY <1>1, <1>2, <1>4, <1>5 DEF TypeOK
<1>7. FilesInv'
  BY <1>1, <1>2, <1>3, PlaceFiles
<1>8. Changed' = Changed /\ Here' = Here /\ Back' = Back /\ Last' = Last /\ (Mine' <=> Mine)
  BY <1>1 DEF Changed, Here, Back, Last, Mine
<1>9. \A u : (Received(u)' <=> Received(u)) /\ (Out(u)' <=> Out(u))
  BY <1>1 DEF Received, Out, Here
<1>10. ReceiptsInv'
  BY <1>1, <1>8 DEF RollbackInv, ReceiptsInv, Received
<1>11. StagedInv'
  BY <1>1, <1>8 DEF RollbackInv, StagedInv
<1>12. AuthorsInv'
  BY <1>1, <1>4, <1>8, <1>9 DEF RollbackInv, AuthorsInv
<1>13. CourseInv'
  BY <1>1 DEF RollbackInv, CourseInv
<1>14. LookInv'
  <2> SUFFICES ASSUME pc \in {"identify", "put"} PROVE LookInv'
    BY <1>1 DEF LookInv
  <2>1. receipts # <<>> /\ LookInv
    BY DEF RollbackInv, CourseInv
  <2>2. Back \in Target
    BY <2>1, BackFacts
  <2>3. looked[Back] <= clock /\ identified[Back] <= clock
        /\ looked[Back] \in Nat /\ identified[Back] \in Nat /\ clock \in Nat
    BY <1>2, <2>2 DEF FilesInv, TypeOK
  <2>4. CASE Back = t
    <3>1. ~ (file'[Back].rev < looked[Back]) /\ ~ (file'[Back].rev < identified[Back])
      BY <1>4, <2>3, <2>4
    <3> QED BY <1>1, <1>8, <2>1, <3>1 DEF LookInv
  <2>5. CASE Back # t
    <3>1. file'[Back] = file[Back]
      BY <1>4, <2>2, <2>5
    <3> QED BY <1>1, <1>8, <2>1, <3>1 DEF LookInv
  <2> QED BY <2>4, <2>5
<1>15. budget'.edits # MaxEdits /\ budget'.edits <= MaxEdits /\ budget'.faults <= MaxFaults
  <2>1. budget.edits <= MaxEdits /\ budget.faults <= MaxFaults
    BY DEF RollbackInv, BoundInv
  <2>2. budget.edits \in Nat /\ budget'.edits \in Nat /\ MaxEdits \in Nat
    BY <1>2, <1>5, RollbackAssumption DEF TypeOK
  <2> QED BY <1>5, <2>1, <2>2
<1>16. QuietInv' /\ BoundInv'
  BY <1>15 DEF QuietInv, BoundInv
<1> QED BY <1>6, <1>7, <1>10, <1>11, <1>12, <1>13, <1>14, <1>16 DEF RollbackInv

\* The invariant does not read what is outside the variables.
LEMMA StutterStep ==
  ASSUME RollbackInv, UNCHANGED vars
  PROVE  RollbackInv'
<1>1. UNCHANGED <<file, clock, txn, pc, step, temporary, receipts, current, affected, outcome,
                  looked, identified, budget>>
  BY DEF vars
<1>2. Changed' = Changed /\ Here' = Here /\ Back' = Back /\ Last' = Last /\ (Mine' <=> Mine)
      /\ (Blind' <=> Blind) /\ \A u : (Received(u)' <=> Received(u)) /\ (Out(u)' <=> Out(u))
  BY <1>1 DEF Changed, Here, Back, Last, Mine, Blind, Received, Out
<1>3. TypeOK' /\ FilesInv' /\ StagedInv' /\ CourseInv' /\ LookInv' /\ BoundInv'
  BY <1>1, <1>2 DEF RollbackInv, TypeOK, FilesInv, StagedInv, CourseInv, LookInv, BoundInv
<1>4. ReceiptsInv'
  BY <1>1, <1>2 DEF RollbackInv, ReceiptsInv
<1>5. AuthorsInv'
  BY <1>1, <1>2 DEF RollbackInv, AuthorsInv
<1>6. QuietInv'
  BY <1>1, <1>2 DEF RollbackInv, QuietInv
<1> QED BY <1>3, <1>4, <1>5, <1>6 DEF RollbackInv

\* Every step keeps the invariant.
LEMMA StepInv == RollbackInv /\ [Next]_vars => RollbackInv'
<1> SUFFICES ASSUME RollbackInv, [Next]_vars PROVE RollbackInv'
  OBVIOUS
<1>1. CASE Pass BY <1>1, PassStep
<1>2. CASE Stage BY <1>2, StageStep
<1>3. CASE Publish BY <1>3, PublishStep
<1>4. CASE Stamp BY <1>4, StampStep
<1>5. CASE StepFails BY <1>5, FailsStep
<1>6. CASE Observe BY <1>6, ObserveStep
<1>7. CASE Look BY <1>7, LookStep
<1>8. CASE LookFails BY <1>8, LookFailsStep
<1>9. CASE Identify BY <1>9, IdentifyStep
<1>10. CASE Spare BY <1>10, SpareStep
<1>11. CASE Put BY <1>11, PutStep
<1>12. CASE PutFails BY <1>12, PutFailsStep
<1>13. CASE Finish BY <1>13, FinishStep
<1>14. CASE Edit BY <1>14, EditStep
<1>15. CASE UNCHANGED vars BY <1>15, StutterStep
<1> QED
  BY <1>1, <1>2, <1>3, <1>4, <1>5, <1>6, <1>7, <1>8, <1>9, <1>10, <1>11, <1>12, <1>13, <1>14, <1>15
  DEF Next, Engine, Done

-----------------------------------------------------------------------------
(* The results. *)

\* Every state of a transaction and of its rollback keeps the account of files, receipts and
\* reports (RollbackInv), the shape of the variables included.
THEOREM RollbackInvariant == Spec => []RollbackInv
BY InitInv, StepInv, PTL DEF Spec

\* What the invariant says of the state in which the transaction returns.
LEMMA InvReports == RollbackInv => NothingHalfDoneUnreported
<1> SUFFICES ASSUME RollbackInv PROVE NothingHalfDoneUnreported
  OBVIOUS
<1>1. TypeOK /\ AuthorsInv /\ CourseInv /\ QuietInv
  BY DEF RollbackInv
<1>2. ASSUME pc = "done", NEW t \in Target \ affected, Undisturbed(t)
      PROVE  file[t].body = IF outcome = "applied" THEN txn.written[t] ELSE txn.prior[t]
  <2>1. file[t].by \in {"store", "engine"}
    BY <1>1, <1>2, VersionFacts DEF Undisturbed
  <2>2. CASE outcome = "applied"
    BY <1>1, <1>2, <2>2 DEF AuthorsInv, Undisturbed
  <2>3. CASE outcome # "applied"
    <3>1. receipts = <<>> /\ pc \notin Forward
      BY <1>1, <1>2, <2>3 DEF CourseInv, Forward
    <3>2. ~ Received(t)
      BY <3>1 DEF Received
    <3> QED BY <1>1, <1>2, <2>1, <2>3, <3>1, <3>2 DEF AuthorsInv
  <2> QED BY <2>2, <2>3
<1>3. affected \subseteq Changed /\ \A t \in Target \ Changed : file[t].by # "engine"
  BY <1>1 DEF AuthorsInv
<1>4. ASSUME pc = "done", budget.edits = MaxEdits, budget.faults >= MaxFaults - 1, affected # {}
      PROVE  FALSE
  <2>1. outcome # "applied" /\ pc \notin Forward
    BY <1>1, <1>4 DEF CourseInv, Forward
  <2>2. budget.faults < MaxFaults - 1
    BY <1>1, <1>4, <2>1 DEF QuietInv
  <2>3. budget.faults \in Nat /\ MaxFaults \in Nat
    BY <1>1, RollbackAssumption DEF TypeOK
  <2> QED BY <1>4, <2>2, <2>3
<1> QED BY <1>2, <1>3, <1>4 DEF NothingHalfDoneUnreported

\* Whatever fails and whoever edits, a transaction that returns has written every target or put
\* every target back, except for those it reports; and one failure alone leaves none to report.
THEOREM NothingHalfDone == Spec => []NothingHalfDoneUnreported
BY RollbackInvariant, InvReports, PTL

\* What a step of the engine that writes over an editor's file has not seen.
WrittenOver(t) ==
  file[t].by = "editor" /\ file'[t] # file[t] /\ file'[t].by = "engine" =>
    /\ RewrittenInPlace(t) => file[t].rev >= looked[t]
    /\ SavedElsewhere(t) => file[t].rev >= identified[t]
    /\ file[t].body # Gone =>
         IF pc = "publish" THEN txn.prior[t] # Gone ELSE txn.written[t] # Gone

\* A publication writes over nothing it has looked at, and over nothing where it found nothing.
LEMMA PublishSpares ==
  ASSUME RollbackInv, Publish, NEW t \in Target
  PROVE  WrittenOver(t)
<1>1. TypeOK /\ CourseInv /\ pc \in Forward /\ pc = "publish"
  BY DEF RollbackInv, Publish, Forward
<1>2. looked[t] = 0 /\ identified[t] = 0 /\ file[t].rev \in Nat
  BY <1>1, VersionFacts DEF CourseInv
<1>3. step <= Len(txn.order)
  BY <1>1 DEF RollbackInv, StagedInv
<1>4. Here \in Target
  BY <1>1, <1>3, HereFacts
<1>5. t # Here => file'[t] = file[t]
  BY <1>1, <1>4 DEF Publish, Place, TypeOK
<1>6. t = Here => (file[t].body # Gone => txn.prior[t] # Gone)
  BY DEF Publish, Obstructed
<1> QED BY <1>1, <1>2, <1>5, <1>6 DEF WrittenOver

\* A rollback puts a file back only where it found the published one.
LEMMA PutSpares ==
  ASSUME RollbackInv, Put, NEW t \in Target
  PROVE  WrittenOver(t)
<1>1. /\ pc = "put" /\ ~ InTheWay
      /\ TypeOK /\ FilesInv /\ ReceiptsInv /\ LookInv
  BY DEF RollbackInv, Put
<1>2. receipts # <<>> /\ current \in Version
  BY <1>1 DEF RollbackInv, CourseInv
<1>3. Back \in Target /\ Len(receipts) \in 1..Len(receipts)
  BY <1>1, <1>2, BackFacts
<1>4. t # Back => file'[t] = file[t]
  BY <1>1, <1>3 DEF Put, Place, TypeOK
<1>5. /\ Mine
      /\ current.body # Gone /\ file[Back].rev < identified[Back] => file[Back].node = Last.node
      /\ file[Back].rev < looked[Back] => file[Back] = current
  BY <1>1 DEF LookInv
<1>6. current.body = Gone <=> txn.written[Back] = Gone
  BY <1>5 DEF Mine
<1>7. current.body = Gone => file[Back].body = Gone
  BY <1>1 DEF InTheWay
<1>8. /\ file[Back].rev \in Nat /\ looked[Back] \in Nat /\ identified[Back] \in Nat
      /\ file[Back].body = Gone <=> file[Back].node = NoNode
  BY <1>1, <1>3, VersionFacts DEF TypeOK, FilesInv
<1>9. \A i \in 1..Len(receipts) : receipts[i].path = Back => receipts[i] = Last
  BY <1>1, <1>3 DEF ReceiptsInv, Back, Last
<1>10. DOMAIN receipts = 1..Len(receipts)
  BY <1>1, LenProperties DEF TypeOK
<1>11. Last.path = Back /\ Len(receipts) \in DOMAIN receipts /\ Last = receipts[Len(receipts)]
  BY <1>3, <1>10 DEF Back, Last
<1>12. txn.written[Back] = Gone => Last.node = NoNode
  BY <1>1, <1>3 DEF ReceiptsInv, Back, Last
<1>13. RewrittenInPlace(Back) => file[Back].rev >= looked[Back]
  <2> SUFFICES ASSUME RewrittenInPlace(Back), file[Back].rev < looked[Back] PROVE FALSE
    BY <1>8
  <2>1. file[Back].node # NoNode /\ Last.rev # file[Back].rev
    BY <1>9, <1>10 DEF RewrittenInPlace
  <2>2. file[Back] = current
    BY <1>5
  <2> QED BY <1>5, <1>8, <2>1, <2>2 DEF Mine
<1>14. SavedElsewhere(Back) => file[Back].rev >= identified[Back]
  <2> SUFFICES ASSUME SavedElsewhere(Back), file[Back].rev < identified[Back] PROVE FALSE
    BY <1>8
  <2>1. Last.node # file[Back].node
    BY <1>11 DEF SavedElsewhere
  <2>2. current.body = Gone
    BY <1>5, <2>1
  <2> QED BY <1>6, <1>7, <1>8, <1>12, <2>1, <2>2
<1>15. file[Back].body # Gone => txn.written[Back] # Gone
  BY <1>6, <1>7
<1>16. CASE t = Back
  <2> QED BY <1>1, <1>13, <1>14, <1>15, <1>16 DEF WrittenOver
<1>17. CASE t # Back
  BY <1>4, <1>17 DEF WrittenOver
<1> QED BY <1>16, <1>17

\* No other step of the engine writes a file, and what an editor writes is an editor's.
LEMMA StepSpares ==
  ASSUME RollbackInv, [Next]_vars, NEW t \in Target
  PROVE  WrittenOver(t)
<1>1. CASE Publish
  BY <1>1, PublishSpares
<1>2. CASE Put
  BY <1>2, PutSpares
<1>3. CASE Edit
  <2>1. PICK u \in Target, body \in Content, node \in Node \cup {NoNode} :
          Place(u, body, node, "editor")
    BY <1>3, EditPlaces
  <2>2. TypeOK
    BY DEF RollbackInv
  <2>3. file'[u].by = "editor" /\ \A v \in Target \ {u} : file'[v] = file[v]
    BY <2>1, <2>2, PlaceFacts
  <2> QED BY <2>3 DEF WrittenOver
<1>4. ASSUME UNCHANGED file PROVE WrittenOver(t)
  BY <1>4 DEF WrittenOver
<1>5. CASE Pass \/ Stage \/ Stamp \/ StepFails \/ Observe
  <2>1. UNCHANGED file
    BY <1>5 DEF Pass, Stage, Stamp, StepFails, Observe, Fail
  <2> QED BY <1>4, <2>1
<1>6. CASE Look \/ LookFails \/ Identify \/ Spare \/ PutFails \/ Finish \/ UNCHANGED vars
  <2>1. UNCHANGED file
    BY <1>6 DEF Look, LookFails, Identify, Spare, PutFails, Finish, vars
  <2> QED BY <1>4, <2>1
<1> QED BY <1>1, <1>2, <1>3, <1>5, <1>6 DEF Next, Engine, Done

\* The work of an editor is written over only in the gap that the comment in restore admits:
\* between the last look at the file and the system call that replaces it.
THEOREM EditsAreSpared == Spec => EditsSurvive
<1>1. RollbackInv /\ [Next]_vars =>
        [\A t \in Target :
           file[t].by = "editor" /\ file'[t] # file[t] /\ file'[t].by = "engine" =>
             /\ RewrittenInPlace(t) => file[t].rev >= looked[t]
             /\ SavedElsewhere(t) => file[t].rev >= identified[t]
             /\ file[t].body # Gone =>
                  IF pc = "publish" THEN txn.prior[t] # Gone ELSE txn.written[t] # Gone]_vars
  BY StepSpares DEF WrittenOver
<1> QED BY <1>1, RollbackInvariant, PTL DEF Spec, EditsSurvive
=============================================================================
