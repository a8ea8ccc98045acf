--------------------------- MODULE GovernanceProofs ---------------------------
(***************************************************************************)
(* Proofs about governed changes, for any number of clients, phases,       *)
(* tickets and requests, and whatever editors, faults and crashes do.  The *)
(* argument: what a client relies on between its check and its answer, it  *)
(* has locked; so it is as the preview read it until the client itself     *)
(* changes it.  The last parts are about what the checks compute: that a   *)
(* checked total is the total, and that one sweep over sorted claims finds *)
(* every overlap.                                                          *)
(***************************************************************************)
EXTENDS Governance, TLAPS, SequenceTheorems, WellFoundedInduction

-----------------------------------------------------------------------------
(* What holds between the files, the locks and the previews. *)

Working == {"publish", "rollback"}

Fits(matrix, binding) == BindingDiagnostics(matrix, binding) = {}

\* What an operation depends on whatever the files are.
Fixed(r) ==
  CASE r.op = "select" -> {Matrix(r.matrix.phase), History(r.id)}
                            \cup (IF r.matrix.phase = Implementation THEN {Binding} ELSE {})
    [] r.op = "bind" -> {Binding, Matrix(Implementation), Log}
    [] r.op = "writer" -> {Log}

\* Only a file that does not exist has no revision, and revisions are older than the clock.
FileInv ==
  /\ DOMAIN file = Path
  /\ clock \in Nat
  /\ \A p \in Path : file[p].rev \in 0..(clock - 1) /\ (file[p].rev = 0 <=> ~ Exists(p))
  /\ Exists(Log) => Content(Log) \in [Ticket -> Status]

ShapeInv ==
  /\ pc \in [Client -> {"idle", "lock", "check", "publish", "rollback"}]
  /\ task \in [Client -> Request \cup WriterTask \cup {None}]
  /\ want \in [Client -> [keys : SUBSET Path, excl : SUBSET Path]]
  /\ held \in [Client -> BOOLEAN]
  /\ outcome \in [Client -> {"none", "done", "stale", "invalid", "io", "incomplete"}]
  /\ torn \subseteq Path
  /\ DOMAIN preview = Client /\ DOMAIN receipts = Client /\ DOMAIN permit = Client

\* A client that works has its locks, and its targets exclusively.
LocksOK(c) ==
  /\ held[c] <=> pc[c] \in Working \cup {"check"}
  /\ pc[c] # "idle" =>
       /\ task[c] \in Request \cup WriterTask
       /\ Fixed(task[c]) \subseteq want[c].keys
       /\ want[c].excl = ToSet(Targets(task[c]))
       /\ task[c] \in Request => preview[c] # None /\ preview[c].request = task[c]
  /\ pc[c] \in Working => task[c] \in Request
  /\ pc[c] \notin Working => receipts[c] = <<>>

\* No two clients have a file locked that one of them may write.
Apart(c, d) ==
  held[c] /\ held[d] => want[c].keys \cap want[d].keys \cap (want[c].excl \cup want[d].excl) = {}

\* A version that was read: where its revision is that of the file, it is the file.
Known(version, p) ==
  /\ version.rev \in 0..(clock - 1)
  /\ version.rev = 0 => version.content = Absent
  /\ version.rev = file[p].rev => version.content = Content(p)

\* What a preview will write, in its order, and what each target shall say.
PlanOK(p) ==
  LET r == p.request
  IN  /\ p.writes \in Seq(Path)
      /\ \A i \in 1..Len(p.writes) : p.writes[i] \in ToSet(Targets(r))
      /\ r.op = "bind" => p.changes[Binding] = r.binding
      /\ r.op = "select" =>
           /\ p.changes[Matrix(r.matrix.phase)] # Absent =>
                p.changes[Matrix(r.matrix.phase)].matrix = r.matrix
           /\ \A i \in 1..Len(p.writes) :
                p.writes[i] = History(r.id) => p.inputs[History(r.id)].content = Absent

PreviewOK(c) ==
  preview[c] # None =>
    /\ preview[c].request \in Request
    /\ Fixed(preview[c].request) \subseteq DOMAIN preview[c].inputs
    /\ DOMAIN preview[c].inputs \subseteq Path
    /\ \A p \in DOMAIN preview[c].inputs : Known(preview[c].inputs[p], p)
    /\ PlanOK(preview[c])

\* What a client may have kept of a file for its rollback.
Receipt(c) == [path : Path, prior : { preview[c].inputs[p].content : p \in Path }, rev : Nat]

\* The receipts are those of the first writes, with what the preview read.
ReceiptsOK(c) ==
  /\ receipts[c] \in Seq(Receipt(c))
  /\ Len(receipts[c]) <= Len(preview[c].writes)
  /\ \A i \in 1..Len(receipts[c]) :
       LET p == preview[c].writes[i]
       IN  receipts[c][i].path = p /\ receipts[c][i].prior = preview[c].inputs[p].content

\* While a writer is bound no ticket is active, and both bindings fit the matrix.
BindOK(c) ==
  /\ Inactive
  /\ Fits(Content(Matrix(Implementation)), task[c].binding)
  /\ Fits(Content(Matrix(Implementation)), preview[c].inputs[Binding].content)

\* While an implementation matrix is selected both matrices fit the binding.
ImplementationOK(c) ==
  /\ Fits(preview[c].changes[Matrix(Implementation)], Content(Binding))
  /\ Fits(preview[c].inputs[Matrix(Implementation)].content, Content(Binding))

\* Until a selection has written its record, it is as it was when it was previewed.
RecordOK(c) ==
  (\A i \in 1..Len(receipts[c]) : receipts[c][i].path # History(task[c].id)) =>
    Content(History(task[c].id)) = preview[c].inputs[History(task[c].id)].content

WorkOK(c) ==
  pc[c] \in Working =>
    /\ ReceiptsOK(c)
    /\ task[c].op = "bind" => BindOK(c)
    /\ task[c].op = "select" /\ task[c].matrix.phase = Implementation => ImplementationOK(c)
    /\ task[c].op = "select" /\ pc[c] = "publish" => RecordOK(c)

\* A writer that may be spawned is for an active ticket.
PermitOK(c) ==
  permit[c] # None =>
    /\ permit[c].ticket \in Ticket
    /\ Exists(Log)
    /\ Content(Log)[permit[c].ticket] \in Active
    /\ Content(Binding) = permit[c].binding

ClientInv ==
  /\ \A c \in Client : LocksOK(c) /\ PreviewOK(c) /\ WorkOK(c) /\ PermitOK(c)
  /\ \A c, d \in Client : c # d => Apart(c, d)

GovernanceInv == FileInv /\ ShapeInv /\ ClientInv /\ BindingFits

-----------------------------------------------------------------------------
(* Paths and requests. *)

\* The governed files are different ones.
LEMMA PathsDiffer ==
  /\ \A phase, id : Matrix(phase) # History(id)
  /\ \A phase : Matrix(phase) # Binding /\ Matrix(phase) # Log
  /\ \A id : History(id) # Binding /\ History(id) # Log
  /\ Binding # Log
  /\ \A a, b : Matrix(a) = Matrix(b) => a = b
  /\ \A a, b : History(a) = History(b) => a = b
<1>1. \A phase : Matrix(phase)[1] = "matrix" /\ Matrix(phase)[2] = phase
  BY DEF Matrix
<1>2. \A id : History(id)[1] = "record" /\ History(id)[2] = id
  BY DEF History
<1>3. Binding[1] = "binding" /\ Log[1] = "log"
  BY DEF Binding, Log
<1> QED BY <1>1, <1>2, <1>3

\* Every governed file has a path.
LEMMA PathsExist ==
  /\ \A phase \in Phase : Matrix(phase) \in Path
  /\ \A id \in OpId : History(id) \in Path
  /\ Binding \in Path /\ Log \in Path
BY DEF Path

\* An operation is a selection of a phase, a binding, or the permission to write.
LEMMA RequestShape ==
  /\ \A r \in Request :
       /\ r.op # "writer"
       /\ r.op = "bind" \/ (r.op = "select" /\ r.matrix.phase \in Phase /\ r.id \in OpId)
  /\ \A r \in WriterTask : r.op = "writer" /\ r.ticket \in Ticket
BY RequestAssumption DEF WriterTask, OpId, Selections

\* What an operation writes.
LEMMA TargetsSet ==
  ASSUME NEW r
  PROVE  /\ r.op = "select" => ToSet(Targets(r)) = {Matrix(r.matrix.phase), History(r.id)}
         /\ r.op = "bind" => ToSet(Targets(r)) = {Binding}
         /\ r.op = "writer" => ToSet(Targets(r)) = {}
<1>1. \A a, b : ToSet(<<a, b>>) = {a, b}
  BY DEF ToSet
<1>2. \A a : ToSet(<<a>>) = {a}
  BY DEF ToSet
<1>3. ToSet(<<>>) = {}
  BY DEF ToSet
<1>4. CASE r.op = "select"
  BY <1>1, <1>4 DEF Targets
<1>5. CASE r.op = "bind"
  BY <1>2, <1>5 DEF Targets
<1>6. CASE r.op = "writer"
  BY <1>3, <1>6 DEF Targets
<1> QED BY <1>4, <1>5, <1>6

\* What an operation depends on whatever the files are, by its kind.
LEMMA FixedSet ==
  ASSUME NEW r
  PROVE  /\ r.op = "select" =>
              /\ {Matrix(r.matrix.phase), History(r.id)} \subseteq Fixed(r)
              /\ r.matrix.phase = Implementation => Binding \in Fixed(r)
              /\ Fixed(r) \subseteq {Matrix(r.matrix.phase), History(r.id), Binding}
         /\ r.op = "bind" => Fixed(r) = {Binding, Matrix(Implementation), Log}
         /\ r.op = "writer" => Fixed(r) = {Log}
BY DEF Fixed

\* It reads all of that, and nothing but governed files; and it reads what it writes.
LEMMA ReadsSet ==
  ASSUME NEW r \in Request \cup WriterTask
  PROVE  /\ Fixed(r) \subseteq Reads(r) /\ Reads(r) \subseteq Path
         /\ ToSet(Targets(r)) \subseteq Fixed(r)
<1>1. CASE r.op = "select"
  <2>1. r.matrix.phase \in Phase /\ r.id \in OpId
    BY <1>1, RequestShape
  <2>2. Reads(r) = SelectionReads(r)
    BY <1>1 DEF Reads
  <2>3. Fixed(r) \subseteq Reads(r)
    BY <1>1, <2>2 DEF Fixed, SelectionReads
  <2>4. Reads(r) \subseteq Path
    BY <2>1, <2>2, PathsExist DEF SelectionReads
  <2>5. ToSet(Targets(r)) \subseteq Fixed(r)
    BY <1>1, TargetsSet, FixedSet
  <2> QED BY <2>3, <2>4, <2>5
<1>2. CASE r.op = "bind"
  <2>1. Reads(r) = {Binding, Matrix(Implementation), Log}
    BY <1>2 DEF Reads, BindingReads
  <2> QED BY <1>2, <2>1, TargetsSet, FixedSet, PathsExist, RequestAssumption
<1>3. CASE r.op = "writer"
  <2>1. Reads(r) = {Log}
    BY <1>3 DEF Reads
  <2> QED BY <1>3, <2>1, TargetsSet, FixedSet, PathsExist
<1> QED BY <1>1, <1>2, <1>3, RequestShape

\* The progress log is no target.
LEMMA LogIsNoTarget ==
  ASSUME NEW r \in Request \cup WriterTask
  PROVE  Log \notin ToSet(Targets(r))
BY TargetsSet, RequestShape, PathsDiffer

\* Whether a binding fits depends on what the matrix says, not on its line ends: a matrix that
\* is removed or converted fits whatever fitted before.
LEMMA FitsAnyCopy ==
  ASSUME NEW matrix, NEW binding, Fits(matrix, binding)
  PROVE  /\ Fits(Absent, binding) /\ Fits(matrix, Absent)
         /\ matrix # Absent =>
              \A copy : copy # Absent /\ copy.matrix = matrix.matrix => Fits(copy, binding)
<1>1. Fits(Absent, binding) /\ Fits(matrix, Absent)
  BY DEF Fits, BindingDiagnostics
<1>2. ASSUME matrix # Absent, NEW copy, copy # Absent, copy.matrix = matrix.matrix
      PROVE  Fits(copy, binding)
  <2>1. CASE binding = Absent
    BY <2>1 DEF Fits, BindingDiagnostics
  <2>2. CASE binding # Absent
    <3>1. Absent \notin {matrix, binding} /\ Absent \notin {copy, binding}
      BY <1>2, <2>2
    <3>2. BindingDiagnostics(copy, binding) = BindingDiagnostics(matrix, binding)
      BY <1>2, <3>1 DEF BindingDiagnostics
    <3> QED BY <3>2 DEF Fits
  <2> QED BY <2>1, <2>2
<1> QED BY <1>1, <1>2

-----------------------------------------------------------------------------
(* Files and what was read of them. *)

\* A file is written, or removed: nothing else changes, every version is older than the clock,
\* and what was read before is no other version than it was.
LEMMA FileStep ==
  ASSUME FileInv, NEW p \in Path, NEW content,
         p = Log => content \in [Ticket -> Status],
         file' = [file EXCEPT ![p] = Written(content)], clock' = clock + 1
  PROVE  /\ FileInv'
         /\ Content(p)' = content
         /\ \A q \in Path \ {p} : file'[q] = file[q]
         /\ \A q \in Path : \A version : Known(version, q) => Known(version, q)'
<1>1. file'[p] = Written(content) /\ DOMAIN file' = Path
  BY DEF FileInv
<1>2. \A q \in Path \ {p} : file'[q] = file[q]
  BY DEF FileInv
<1>3. clock \in Nat /\ clock' = clock + 1 /\ clock' \in Nat
  BY DEF FileInv
<1>4. \/ content = Absent /\ file'[p].content = Absent /\ file'[p].rev = 0
      \/ content # Absent /\ file'[p].content = content /\ file'[p].rev = clock
  BY <1>1 DEF Written, NoFile
<1>5. file'[p].content = content
  BY <1>4
<1>6. clock # 0
  BY <1>3 DEF FileInv
<1>7. \A q \in Path :
        file'[q].rev \in 0..(clock' - 1) /\ (file'[q].rev = 0 <=> ~ (file'[q].content # Absent))
  <2> SUFFICES ASSUME NEW q \in Path
               PROVE  /\ file'[q].rev \in 0..(clock' - 1)
                      /\ file'[q].rev = 0 <=> ~ (file'[q].content # Absent)
    OBVIOUS
  <2>1. CASE q = p
    BY <1>3, <1>4, <1>6, <2>1
  <2>2. CASE q # p
    <3>1. file'[q] = file[q]
      BY <1>2, <2>2
    <3>2. file[q].rev \in 0..(clock - 1) /\ (file[q].rev = 0 <=> ~ (file[q].content # Absent))
      BY DEF FileInv, Exists, Content
    <3> QED BY <1>3, <3>1, <3>2
  <2> QED BY <2>1, <2>2
<1>8. file'[Log].content # Absent => file'[Log].content \in [Ticket -> Status]
  <2>1. CASE p = Log
    BY <1>5, <2>1
  <2>2. CASE p # Log
    <3>1. file'[Log] = file[Log]
      BY <1>2, <2>2, PathsExist
    <3> QED BY <3>1 DEF FileInv, Exists, Content
  <2> QED BY <2>1, <2>2
<1>9. FileInv'
  BY <1>1, <1>3, <1>7, <1>8 DEF FileInv, Exists, Content
<1>10. ASSUME NEW q \in Path, NEW version, Known(version, q) PROVE Known(version, q)'
  <2>1. /\ version.rev \in 0..(clock - 1)
        /\ version.rev = 0 => version.content = Absent
        /\ version.rev = file[q].rev => version.content = file[q].content
    BY <1>10 DEF Known, Content
  <2>2. CASE q = p
    BY <1>3, <1>4, <2>1, <2>2 DEF Known, Content
  <2>3. CASE q # p
    <3>1. file'[q] = file[q]
      BY <1>2, <2>3
    <3> QED BY <1>3, <2>1, <3>1 DEF Known, Content
  <2> QED BY <2>2, <2>3
<1> QED BY <1>2, <1>5, <1>9, <1>10 DEF Content

\* Nothing happens to the files.
LEMMA FileStutter ==
  ASSUME FileInv, UNCHANGED <<file, clock>>
  PROVE  FileInv' /\ \A q \in Path : \A version : Known(version, q) => Known(version, q)'
BY DEF FileInv, Known, Exists, Content

\* What is in place now is known.
LEMMA FileIsKnown ==
  ASSUME FileInv, NEW p \in Path
  PROVE  Known(file[p], p)
BY DEF FileInv, Known, Exists, Content

-----------------------------------------------------------------------------
(* What a step of one client leaves to the others. *)

SameClient(d) ==
  /\ pc'[d] = pc[d] /\ task'[d] = task[d] /\ preview'[d] = preview[d]
  /\ want'[d] = want[d] /\ held'[d] = held[d] /\ receipts'[d] = receipts[d]

\* The files a client has locked stay, but for the line ends of matrices and their removal.
Undisturbed(d) ==
  held[d] => \A q \in want[d].keys :
    /\ (\A phase : q # Matrix(phase)) => Content(q)' = Content(q)
    /\ q = Matrix(Implementation) =>
         \A binding : Fits(Content(q), binding) => Fits(Content(q)', binding)

\* What was read stays known.
KnownNext(version, q) ==
  /\ version.rev \in 0..(clock' - 1)
  /\ version.rev = 0 => version.content = Absent
  /\ version.rev = file'[q].rev => version.content = file'[q].content

Remembered == \A q \in Path : \A version : Known(version, q) => KnownNext(version, q)

\* Without a change of the files nobody is disturbed.
LEMMA QuietUndisturbed ==
  ASSUME UNCHANGED file, NEW d \in Client
  PROVE  Undisturbed(d)
BY DEF Undisturbed, Content

\* A preview is what it was as long as what was read stays known.
LEMMA PreviewKept ==
  ASSUME NEW d \in Client, PreviewOK(d), preview'[d] = preview[d], Remembered
  PROVE  PreviewOK(d)'
<1>1. CASE preview[d] = None
  BY <1>1 DEF PreviewOK
<1>2. CASE preview[d] # None
  <2>1. /\ preview[d].request \in Request
        /\ Fixed(preview[d].request) \subseteq DOMAIN preview[d].inputs
        /\ DOMAIN preview[d].inputs \subseteq Path
        /\ PlanOK(preview[d])
    BY <1>2 DEF PreviewOK
  <2>2. \A p \in DOMAIN preview[d].inputs : KnownNext(preview[d].inputs[p], p)
    BY <1>2, <2>1 DEF PreviewOK, Remembered
  <2>3. PlanOK(preview[d])'
    BY <2>1 DEF PlanOK
  <2>4. \A p \in DOMAIN preview'[d].inputs :
          LET version == preview'[d].inputs[p]
          IN  /\ version.rev \in 0..(clock' - 1)
              /\ version.rev = 0 => version.content = Absent
              /\ version.rev = file'[p].rev => version.content = file'[p].content
    BY <2>2 DEF KnownNext
  <2> QED BY <2>1, <2>3, <2>4 DEF PreviewOK, Known, Content
<1> QED BY <1>1, <1>2

\* A client that works depends on nothing but files it has locked.
LEMMA WorkLocked ==
  ASSUME NEW d \in Client, LocksOK(d), pc[d] \in Working
  PROVE  /\ held[d] /\ task[d] \in Request
         /\ task[d].op = "bind" => {Binding, Matrix(Implementation), Log} \subseteq want[d].keys
         /\ task[d].op = "select" =>
              {Matrix(task[d].matrix.phase), History(task[d].id)} \subseteq want[d].keys
         /\ task[d].op = "select" /\ task[d].matrix.phase = Implementation =>
              Binding \in want[d].keys
         /\ preview[d] # None /\ preview[d].request = task[d]
<1>1. pc[d] # "idle"
  BY DEF Working
<1>2. held[d] /\ task[d] \in Request /\ Fixed(task[d]) \subseteq want[d].keys
  BY <1>1 DEF LocksOK
<1>3. preview[d] # None /\ preview[d].request = task[d]
  BY <1>1, <1>2 DEF LocksOK
<1> QED BY <1>2, <1>3, FixedSet

\* So a client that does nothing and is not disturbed keeps what it relies on.
LEMMA ClientKept ==
  ASSUME NEW d \in Client, LocksOK(d), PreviewOK(d), WorkOK(d),
         SameClient(d), Undisturbed(d), Remembered
  PROVE  LocksOK(d)' /\ PreviewOK(d)' /\ WorkOK(d)'
<1>1. LocksOK(d)'
  BY DEF LocksOK, SameClient
<1>2. PreviewOK(d)'
  BY PreviewKept DEF SameClient
<1>3. ASSUME pc[d] \in Working PROVE WorkOK(d)'
  <2>a. /\ held[d] /\ task[d] \in Request
        /\ task[d].op = "bind" => {Binding, Matrix(Implementation), Log} \subseteq want[d].keys
        /\ task[d].op = "select" =>
             {Matrix(task[d].matrix.phase), History(task[d].id)} \subseteq want[d].keys
        /\ task[d].op = "select" /\ task[d].matrix.phase = Implementation =>
             Binding \in want[d].keys
    BY <1>3, WorkLocked
  <2>1. ReceiptsOK(d)'
    BY <1>3 DEF WorkOK, SameClient, ReceiptsOK, Receipt
  <2>2. Binding \in want[d].keys => Content(Binding)' = Content(Binding)
    BY <2>a, PathsDiffer DEF Undisturbed
  <2>3. ASSUME task[d].op = "bind" PROVE BindOK(d)'
    <3>1. BindOK(d)
      BY <1>3, <2>3 DEF WorkOK
    <3>2. Content(Log)' = Content(Log)
      BY <2>a, <2>3, PathsDiffer DEF Undisturbed
    <3>3. Inactive'
      BY <3>1, <3>2 DEF BindOK, Inactive, Exists
    <3>4. \A binding : Fits(Content(Matrix(Implementation)), binding)
                         => Fits(Content(Matrix(Implementation))', binding)
      BY <2>a, <2>3 DEF Undisturbed
    <3>5. /\ Fits(Content(Matrix(Implementation))', task[d].binding)
          /\ Fits(Content(Matrix(Implementation))', preview[d].inputs[Binding].content)
      BY <3>1, <3>4 DEF BindOK
    <3> QED BY <3>3, <3>5 DEF BindOK, SameClient, Fits
  <2>4. ASSUME task[d].op = "select", task[d].matrix.phase = Implementation
        PROVE  ImplementationOK(d)'
    <3>1. ImplementationOK(d)
      BY <1>3, <2>4 DEF WorkOK
    <3> QED BY <3>1, <2>a, <2>2, <2>4 DEF ImplementationOK, SameClient, Fits
  <2>5. ASSUME task[d].op = "select", pc[d] = "publish" PROVE RecordOK(d)'
    <3>1. RecordOK(d)
      BY <1>3, <2>5 DEF WorkOK
    <3>2. PICK id : id = task[d].id /\ id = task'[d].id
      BY DEF SameClient
    <3>3. History(id) \in want[d].keys /\ \A phase : History(id) # Matrix(phase)
      BY <2>a, <2>5, <3>2, PathsDiffer
    <3>4. Content(History(id))' = Content(History(id))
      <4>1. \A q \in want[d].keys : (\A phase : q # Matrix(phase)) => Content(q)' = Content(q)
        BY <2>a DEF Undisturbed
      <4> QED BY <3>3, <4>1
    <3> QED BY <3>1, <3>2, <3>4 DEF RecordOK, SameClient
  <2> QED BY <2>1, <2>3, <2>4, <2>5 DEF WorkOK, SameClient
<1>4. ASSUME pc[d] \notin Working PROVE WorkOK(d)'
  <2>1. pc'[d] \notin Working
    BY <1>4 DEF SameClient
  <2> QED BY <2>1 DEF WorkOK
<1> QED BY <1>1, <1>2, <1>3, <1>4

\* The permissions stay as long as the log, the binding and they themselves do.
LEMMA PermitKept ==
  ASSUME NEW d \in Client, PermitOK(d), permit'[d] = permit[d],
         Content(Log)' = Content(Log), Content(Binding)' = Content(Binding)
  PROVE  PermitOK(d)'
BY DEF PermitOK, Exists

\* Two clients that neither move nor are given locks stay apart.
LEMMA ApartKept ==
  ASSUME NEW c \in Client, NEW d \in Client, Apart(c, d),
         held'[c] => held[c] /\ want'[c] = want[c], held'[d] => held[d] /\ want'[d] = want[d]
  PROVE  Apart(c, d)'
BY DEF Apart

\* The whole from its parts: what a step of one client has to show.
LEMMA StepOfClient ==
  ASSUME ClientInv, NEW c \in Client,
         \A d \in Client \ {c} : SameClient(d) /\ Undisturbed(d), Remembered,
         LocksOK(c)', PreviewOK(c)', WorkOK(c)',
         \A d \in Client : PermitOK(d)',
         held'[c] => held[c] /\ want'[c] = want[c]
  PROVE  ClientInv'
<1>1. \A d \in Client \ {c} : LocksOK(d)' /\ PreviewOK(d)' /\ WorkOK(d)'
  BY ClientKept DEF ClientInv
<1>2. ASSUME NEW a \in Client, NEW b \in Client, a # b PROVE Apart(a, b)'
  <2>1. \A d \in {a, b} : held'[d] => held[d] /\ want'[d] = want[d]
    BY DEF SameClient
  <2> QED BY <1>2, <2>1, ApartKept DEF ClientInv
<1> QED BY <1>1, <1>2 DEF ClientInv

\* A step that leaves the files alone leaves the other clients alone.
LEMMA QuietStep ==
  ASSUME FileInv, ClientInv, BindingFits, NEW c \in Client, UNCHANGED <<file, clock>>,
         \A d \in Client \ {c} : SameClient(d),
         LocksOK(c)', preview'[c] = preview[c] \/ PreviewOK(c)', WorkOK(c)',
         \A d \in Client : permit'[d] = permit[d] \/ PermitOK(d)',
         held'[c] => held[c] /\ want'[c] = want[c]
  PROVE  FileInv' /\ ClientInv' /\ BindingFits'
<1>1. FileInv' /\ Remembered
  BY FileStutter DEF Remembered, Known, KnownNext, Content
<1>2. \A d \in Client : Undisturbed(d)
  BY QuietUndisturbed
<1>3. PreviewOK(c)'
  BY <1>1, PreviewKept DEF ClientInv
<1>4. \A d \in Client : PermitOK(d)'
  <2>1. Content(Log)' = Content(Log) /\ Content(Binding)' = Content(Binding)
    BY DEF Content
  <2> QED BY <2>1, PermitKept DEF ClientInv
<1>5. ClientInv'
  BY <1>1, <1>2, <1>3, <1>4, StepOfClient
<1>6. BindingFits'
  BY DEF BindingFits, Content
<1> QED BY <1>1, <1>5, <1>6

-----------------------------------------------------------------------------
(* The steps that change no file. *)

Answer == {"none", "done", "stale", "invalid", "io", "incomplete"}

\* What a client that returns has left.
LEMMA Returned ==
  ASSUME ShapeInv, NEW c \in Client, NEW answer \in Answer, Return(c, answer),
         UNCHANGED preview, DOMAIN permit' = Client, torn' \subseteq Path
  PROVE  /\ ShapeInv'
         /\ \A d \in Client \ {c} : SameClient(d)
         /\ LocksOK(c)' /\ preview'[c] = preview[c] /\ WorkOK(c)' /\ held'[c] = FALSE
<1>1. /\ pc' = [pc EXCEPT ![c] = "idle"] /\ task' = [task EXCEPT ![c] = None]
      /\ want' = [want EXCEPT ![c] = NoLocks] /\ held' = [held EXCEPT ![c] = FALSE]
      /\ receipts' = [receipts EXCEPT ![c] = <<>>]
      /\ outcome' = [outcome EXCEPT ![c] = answer]
  BY DEF Return, Goto
<1>2. NoLocks \in [keys : SUBSET Path, excl : SUBSET Path]
  BY DEF NoLocks
<1>3. ShapeInv'
  BY <1>1, <1>2 DEF ShapeInv, Answer
<1>4. \A d \in Client \ {c} : SameClient(d)
  BY <1>1 DEF ShapeInv, SameClient
<1>5. pc'[c] = "idle" /\ held'[c] = FALSE /\ receipts'[c] = <<>>
  BY <1>1 DEF ShapeInv
<1>6. pc'[c] \notin Working /\ pc'[c] \notin Working \cup {"check"}
  BY <1>5 DEF Working
<1>7. LocksOK(c)'
  BY <1>5, <1>6 DEF LocksOK
<1>8. WorkOK(c)'
  BY <1>6 DEF WorkOK
<1> QED BY <1>3, <1>4, <1>5, <1>7, <1>8

\* A client that returns leaves everything in order.
LEMMA ReturnStep ==
  ASSUME GovernanceInv, NEW c \in Client, NEW answer \in Answer, Return(c, answer),
         UNCHANGED <<file, clock, preview>>, DOMAIN permit' = Client, torn' \subseteq Path,
         \A d \in Client : permit'[d] = permit[d] \/ PermitOK(d)'
  PROVE  GovernanceInv'
<1>1. FileInv /\ ShapeInv /\ ClientInv /\ BindingFits
  BY DEF GovernanceInv
<1>2. /\ ShapeInv'
      /\ \A d \in Client \ {c} : SameClient(d)
      /\ LocksOK(c)' /\ preview'[c] = preview[c] /\ WorkOK(c)' /\ held'[c] = FALSE
  BY <1>1, Returned
<1>3. FileInv' /\ ClientInv' /\ BindingFits'
  BY <1>1, <1>2, QuietStep
<1> QED BY <1>2, <1>3 DEF GovernanceInv

\* The steps that only return.
LEMMA ReturnsStep ==
  ASSUME GovernanceInv, NEW c \in Client,
         \/ CheckStale(c) \/ CheckRefused(c) \/ CheckNoOp(c) \/ Deny(c) \/ Fails(c) \/ Verify(c)
         \/ FinishRollback(c)
  PROVE  GovernanceInv'
<1>1. PICK answer \in Answer : Return(c, answer)
  BY DEF CheckStale, CheckRefused, CheckNoOp, Deny, Fails, Verify, FinishRollback, Answer
<1>2. UNCHANGED <<file, clock, preview, permit, torn>>
  BY DEF CheckStale, CheckRefused, CheckNoOp, Deny, Fails, Verify, FinishRollback
<1>3. DOMAIN permit' = Client /\ torn' \subseteq Path
  BY <1>2 DEF GovernanceInv, ShapeInv
<1> QED BY <1>1, <1>2, <1>3, ReturnStep

\* A receipt is of a governed file.
LEMMA ReceiptPath ==
  ASSUME GovernanceInv, NEW c \in Client
  PROVE  \A i \in DOMAIN receipts[c] : receipts[c][i].path \in Path
<1>1. CASE pc[c] \in Working
  <2>1. receipts[c] \in Seq(Receipt(c))
    BY <1>1 DEF GovernanceInv, ClientInv, WorkOK, ReceiptsOK
  <2>2. \A i \in DOMAIN receipts[c] : receipts[c][i] \in Receipt(c)
    BY <2>1
  <2> QED BY <2>2 DEF Receipt
<1>2. CASE pc[c] \notin Working
  <2>1. receipts[c] = <<>>
    BY <1>2 DEF GovernanceInv, ClientInv, LocksOK
  <2> QED BY <2>1
<1> QED BY <1>1, <1>2

\* A client that dies loses its locks; what it published stays as it is.
LEMMA CrashStep ==
  ASSUME GovernanceInv, NEW c \in Client, Crash(c)
  PROVE  GovernanceInv'
<1>1. Return(c, "none") /\ "none" \in Answer /\ UNCHANGED <<file, clock, preview, permit>>
  BY DEF Crash, Answer
<1>2. torn' \subseteq Path
  BY ReceiptPath DEF Crash, GovernanceInv, ShapeInv
<1>3. DOMAIN permit' = Client
  BY <1>1 DEF GovernanceInv, ShapeInv
<1> QED BY <1>1, <1>2, <1>3, ReturnStep

\* A writer is permitted for a ticket that is in progress, with the binding of that moment.
LEMMA PermitStep ==
  ASSUME GovernanceInv, NEW c \in Client, Permit(c)
  PROVE  GovernanceInv'
<1>1. /\ Return(c, "done") /\ "done" \in Answer /\ UNCHANGED <<file, clock, preview, torn>>
      /\ IsWriter(task[c]) /\ InProgress(task[c].ticket) /\ pc[c] = "check"
      /\ permit' = [permit EXCEPT ![c] = [ticket |-> task[c].ticket, binding |-> Content(Binding)]]
  BY DEF Permit, Answer, At
<1>2. DOMAIN permit' = Client /\ \A d \in Client \ {c} : permit'[d] = permit[d]
  BY <1>1 DEF GovernanceInv, ShapeInv
<1>3. task[c].ticket \in Ticket
  <2>1. task[c] \in Request \cup WriterTask
    BY <1>1 DEF GovernanceInv, ClientInv, LocksOK
  <2> QED BY <1>1, <2>1, RequestShape DEF IsWriter
<1>4. permit'[c].ticket = task[c].ticket /\ permit'[c].binding = Content(Binding)
  BY <1>1 DEF GovernanceInv, ShapeInv
<1>5. PermitOK(c)'
  BY <1>1, <1>3, <1>4 DEF PermitOK, InProgress, Exists, Content, Active
<1>6. torn' \subseteq Path
  BY <1>1 DEF GovernanceInv, ShapeInv
<1> QED BY <1>1, <1>2, <1>5, <1>6, ReturnStep

\* One file or none, and another one or none.
LEMMA ConcatShort ==
  ASSUME NEW a, NEW b
  PROVE  /\ <<>> \o <<>> = <<>> /\ <<a>> \o <<>> = <<a>> /\ <<>> \o <<b>> = <<b>>
         /\ <<a>> \o <<b>> = <<a, b>>
<1>1. <<>> \in Seq({a, b}) /\ <<a>> \in Seq({a, b}) /\ <<b>> \in Seq({a, b})
  OBVIOUS
<1>2. <<>> \o <<>> = <<>> /\ <<a>> \o <<>> = <<a>> /\ <<>> \o <<b>> = <<b>>
  BY <1>1, ConcatEmptySeq
<1>3. <<a>> \o <<b>> = <<a, b>>
  <2>1. Append(<<a>>, b) = <<a>> \o <<b>>
    BY <1>1, AppendIsConcat
  <2>2. Append(<<a>>, b) \in Seq({a, b}) /\ <<a, b>> \in Seq({a, b})
    BY <1>1, AppendProperties
  <2>3. /\ Len(Append(<<a>>, b)) = 2 /\ Len(<<a, b>>) = 2
        /\ Append(<<a>>, b)[1] = a /\ Append(<<a>>, b)[2] = b
    <3>1. Len(<<a>>) = 1 /\ <<a>>[1] = a
      OBVIOUS
    <3> QED BY <1>1, <3>1, AppendProperties
  <2>4. \A i \in 1..2 : Append(<<a>>, b)[i] = <<a, b>>[i]
    BY <2>3
  <2>5. Append(<<a>>, b) = <<a, b>>
    BY <2>2, <2>3, <2>4, SeqEqual
  <2> QED BY <2>1, <2>5
<1> QED BY <1>2, <1>3

\* What a preview will write are targets that would change.
LEMMA WritesShape ==
  ASSUME NEW r \in Request
  PROVE  /\ Writes(r) \in Seq(Path)
         /\ \A i \in 1..Len(Writes(r)) : Writes(r)[i] \in ToSet(Targets(r))
         /\ \A i \in 1..Len(Writes(r)) : Proposed(r)[Writes(r)[i]] # Content(Writes(r)[i])
<1>1. \A p \in Path : \/ IfChanged(r, p) = <<>>
                      \/ IfChanged(r, p) = <<p>> /\ Proposed(r)[p] # Content(p)
  BY DEF IfChanged
<1>2. CASE r.op = "bind"
  <2>1. Writes(r) = IfChanged(r, Binding) /\ ToSet(Targets(r)) = {Binding} /\ Binding \in Path
    BY <1>2, TargetsSet, PathsExist DEF Writes
  <2>2. CASE Writes(r) = <<>>
    BY <2>2
  <2>3. CASE Writes(r) = <<Binding>> /\ Proposed(r)[Binding] # Content(Binding)
    BY <2>1, <2>3
  <2> QED BY <1>1, <2>1, <2>2, <2>3
<1>3. CASE r.op = "select"
  <2> DEFINE m == Matrix(r.matrix.phase)
             h == History(r.id)
  <2>1. /\ Writes(r) = IfChanged(r, m) \o IfChanged(r, h)
        /\ ToSet(Targets(r)) = {m, h} /\ m \in Path /\ h \in Path /\ m # h
    BY <1>3, TargetsSet, PathsExist, PathsDiffer, RequestShape DEF Writes
  <2> HIDE DEF m, h
  <2>2. \A a, b : <<>> \o <<>> = <<>> /\ <<a>> \o <<>> = <<a>> /\ <<>> \o <<b>> = <<b>>
                    /\ <<a>> \o <<b>> = <<a, b>>
    BY ConcatShort
  <2>3. /\ Proposed(r)[m] # Content(m) \/ IfChanged(r, m) = <<>>
        /\ Proposed(r)[h] # Content(h) \/ IfChanged(r, h) = <<>>
    BY <1>1, <2>1
  <2>4. CASE Writes(r) = <<>>
    BY <2>4
  <2>5. CASE Writes(r) = <<m>> /\ Proposed(r)[m] # Content(m)
    BY <2>1, <2>5
  <2>6. CASE Writes(r) = <<h>> /\ Proposed(r)[h] # Content(h)
    BY <2>1, <2>6
  <2>7. CASE Writes(r) = <<m, h>> /\ Proposed(r)[m] # Content(m) /\ Proposed(r)[h] # Content(h)
    BY <2>1, <2>7
  <2> QED BY <1>1, <2>1, <2>2, <2>4, <2>5, <2>6, <2>7
<1> QED BY <1>2, <1>3, RequestShape

\* What a preview holds when it is made.
LEMMA PreparedOK ==
  ASSUME FileInv, NEW r \in Request
  PROVE  /\ Prepared(r).request \in Request
         /\ Fixed(Prepared(r).request) \subseteq DOMAIN Prepared(r).inputs
         /\ DOMAIN Prepared(r).inputs \subseteq Path
         /\ \A p \in DOMAIN Prepared(r).inputs : Known(Prepared(r).inputs[p], p)
         /\ PlanOK(Prepared(r))
<1>1. /\ Prepared(r).request = r /\ Prepared(r).changes = Proposed(r)
      /\ Prepared(r).inputs = [p \in Reads(r) |-> file[p]] /\ Prepared(r).writes = Writes(r)
  BY DEF Prepared
<1>2. Fixed(r) \subseteq Reads(r) /\ Reads(r) \subseteq Path
  BY ReadsSet
<1>3. \A p \in Reads(r) : Known(file[p], p)
  BY <1>2, FileIsKnown
<1>4. ASSUME r.op = "bind" PROVE Proposed(r)[Binding] = r.binding
  BY <1>4 DEF Proposed
<1>5. ASSUME r.op = "select"
      PROVE  /\ Proposed(r)[Matrix(r.matrix.phase)] # Absent =>
                  Proposed(r)[Matrix(r.matrix.phase)].matrix = r.matrix
             /\ \A i \in 1..Len(Writes(r)) :
                  Writes(r)[i] = History(r.id) =>
                    [p \in Reads(r) |-> file[p]][History(r.id)].content = Absent
  <2>1. Proposed(r)[Matrix(r.matrix.phase)] = ProposedMatrix(r)
    BY <1>5, PathsDiffer DEF Proposed
  <2>2. ProposedMatrix(r).matrix = r.matrix
    BY DEF ProposedMatrix, SameText
  <2>3. Proposed(r)[History(r.id)] = ProposedRecord(r)
    BY <1>5 DEF Proposed
  <2>4. ProposedRecord(r) # Content(History(r.id)) => Content(History(r.id)) = Absent
    BY DEF ProposedRecord, Exists
  <2>5. History(r.id) \in Reads(r)
    BY <1>2, <1>5, FixedSet
  <2>6. \A i \in 1..Len(Writes(r)) : Proposed(r)[Writes(r)[i]] # Content(Writes(r)[i])
    BY WritesShape
  <2> QED BY <2>1, <2>2, <2>3, <2>4, <2>5, <2>6 DEF Content
<1>6. PlanOK(Prepared(r))
  BY <1>1, <1>4, <1>5, WritesShape DEF PlanOK
<1> QED BY <1>1, <1>2, <1>3, <1>6

\* A preview that is made, or refused.
LEMMA PreviewStep ==
  ASSUME GovernanceInv, NEW c \in Client, Preview(c)
  PROVE  GovernanceInv'
<1>1. PICK r \in Request :
        preview' = [preview EXCEPT ![c] = IF Passes(r) THEN Prepared(r) ELSE None]
  BY DEF Preview
<1>2. /\ UNCHANGED <<file, clock, pc, task, want, held, receipts, permit, torn>> /\ pc[c] = "idle"
      /\ outcome' = [outcome EXCEPT ![c] = "none"]
  BY DEF Preview, At
<1>3. FileInv /\ ShapeInv /\ ClientInv /\ BindingFits
  BY DEF GovernanceInv
<1>4. ShapeInv'
  BY <1>1, <1>2, <1>3 DEF ShapeInv
<1>5. \A d \in Client \ {c} : SameClient(d)
  BY <1>1, <1>2, <1>3 DEF ShapeInv, SameClient
<1>6. LocksOK(c)'
  BY <1>2, <1>3 DEF ClientInv, LocksOK, Working
<1>7. WorkOK(c)'
  BY <1>2 DEF WorkOK, Working
<1>8. preview'[c] = None \/ preview'[c] = Prepared(r)
  BY <1>1, <1>3 DEF ShapeInv
<1>9. PreviewOK(c)'
  <2>1. CASE preview'[c] = None
    BY <2>1 DEF PreviewOK
  <2>2. CASE preview'[c] = Prepared(r)
    <3>1. PICK p : p = Prepared(r)
      OBVIOUS
    <3>2. /\ p.request \in Request /\ Fixed(p.request) \subseteq DOMAIN p.inputs
          /\ DOMAIN p.inputs \subseteq Path
          /\ \A q \in DOMAIN p.inputs : Known(p.inputs[q], q)
          /\ PlanOK(p)
      BY <1>3, <3>1, PreparedOK
    <3>3. \A q \in DOMAIN p.inputs : Known(p.inputs[q], q)'
      BY <1>2, <3>2 DEF Known, Content
    <3> QED BY <2>2, <3>1, <3>2, <3>3 DEF PreviewOK
  <2> QED BY <1>8, <2>1, <2>2
<1>10. FileInv' /\ ClientInv' /\ BindingFits'
  BY <1>2, <1>3, <1>5, <1>6, <1>7, <1>9, QuietStep
<1> QED BY <1>4, <1>10 DEF GovernanceInv

\* The locks an operation asks for.
LEMMA LocksOfShape ==
  ASSUME NEW r \in Request \cup WriterTask
  PROVE  /\ LocksOf(r) \in [keys : SUBSET Path, excl : SUBSET Path]
         /\ Fixed(r) \subseteq LocksOf(r).keys
         /\ LocksOf(r).excl = ToSet(Targets(r))
<1>1. Fixed(r) \subseteq Reads(r) /\ Reads(r) \subseteq Path /\ ToSet(Targets(r)) \subseteq Fixed(r)
  BY ReadsSet
<1>2. LocksOf(r) = [keys |-> Reads(r), excl |-> Reads(r) \cap ToSet(Targets(r))]
  BY DEF LocksOf
<1> QED BY <1>1, <1>2

\* An operation that starts: it applies its preview, or asks for the permission to write.
LEMMA BeginStep ==
  ASSUME GovernanceInv, NEW c \in Client, NEW r \in Request \cup WriterTask, Begin(c, r),
         r \in Request => preview[c] # None /\ preview[c].request = r
  PROVE  GovernanceInv'
<1>1. /\ UNCHANGED <<file, clock, preview, held, receipts, permit, torn>> /\ pc[c] = "idle"
      /\ task' = [task EXCEPT ![c] = r] /\ want' = [want EXCEPT ![c] = LocksOf(r)]
      /\ pc' = [pc EXCEPT ![c] = "lock"] /\ outcome' = [outcome EXCEPT ![c] = "none"]
  BY DEF Begin, At, Goto
<1>2. FileInv /\ ShapeInv /\ ClientInv /\ BindingFits
  BY DEF GovernanceInv
<1>3. ShapeInv'
  BY <1>1, <1>2, LocksOfShape DEF ShapeInv
<1>4. \A d \in Client \ {c} : SameClient(d)
  BY <1>1, <1>2 DEF ShapeInv, SameClient
<1>5. task'[c] = r /\ want'[c] = LocksOf(r) /\ pc'[c] = "lock"
  BY <1>1, <1>2 DEF ShapeInv
<1>6. ~ held[c] /\ receipts[c] = <<>>
  BY <1>1, <1>2 DEF ClientInv, LocksOK, Working
<1>7. Fixed(task'[c]) \subseteq want'[c].keys /\ want'[c].excl = ToSet(Targets(task'[c]))
  BY <1>5, LocksOfShape
<1>8. LocksOK(c)'
  BY <1>1, <1>5, <1>6, <1>7 DEF LocksOK, Working
<1>9. WorkOK(c)'
  BY <1>5 DEF WorkOK, Working
<1>10. held'[c] = FALSE
  BY <1>1, <1>2, <1>6 DEF ShapeInv
<1>11. preview'[c] = preview[c] /\ \A d \in Client : permit'[d] = permit[d]
  BY <1>1
<1>12. FileInv' /\ ClientInv' /\ BindingFits'
  BY <1>1, <1>2, <1>4, <1>8, <1>9, <1>10, <1>11, QuietStep
<1> QED BY <1>3, <1>12 DEF GovernanceInv

\* The two ways in which an operation starts.
LEMMA StartsStep ==
  ASSUME GovernanceInv, NEW c \in Client, Apply(c) \/ RequireWriter(c)
  PROVE  GovernanceInv'
<1>1. CASE Apply(c)
  <2>1. PICK r : r = preview[c].request
    OBVIOUS
  <2>2. preview[c] # None /\ Begin(c, preview[c].request) /\ preview[c].request \in Request
    BY <1>1 DEF Apply, GovernanceInv, ClientInv, PreviewOK
  <2>3. Begin(c, r)
    BY <2>1, <2>2
  <2> QED BY <2>1, <2>2, <2>3, BeginStep
<1>2. CASE RequireWriter(c)
  <2>1. PICK r \in WriterTask : Begin(c, r)
    BY <1>2 DEF RequireWriter
  <2>2. r \notin Request
    BY RequestShape
  <2> QED BY <2>1, <2>2, BeginStep
<1> QED BY <1>1, <1>2

-----------------------------------------------------------------------------
(* Locks that are granted, and checks that are passed. *)

\* The locks are granted together, and to no two clients that would disturb each other.
LEMMA AcquireStep ==
  ASSUME GovernanceInv, NEW c \in Client, Acquire(c)
  PROVE  GovernanceInv'
<1>1. /\ UNCHANGED <<file, clock, task, preview, want, receipts, outcome, permit, torn>>
      /\ pc[c] = "lock" /\ Compatible(c, want[c].keys, want[c].excl)
      /\ held' = [held EXCEPT ![c] = TRUE] /\ pc' = [pc EXCEPT ![c] = "check"]
  BY DEF Acquire, At, Goto
<1>2. FileInv /\ ShapeInv /\ ClientInv /\ BindingFits
  BY DEF GovernanceInv
<1>3. ShapeInv'
  BY <1>1, <1>2 DEF ShapeInv
<1>4. FileInv' /\ Remembered /\ BindingFits'
  <2>1. FileInv' /\ Remembered
    BY <1>1, <1>2, FileStutter DEF Remembered, Known, KnownNext, Content
  <2>2. BindingFits'
    BY <1>1, <1>2 DEF BindingFits, Content
  <2> QED BY <2>1, <2>2
<1>5. \A d \in Client \ {c} : SameClient(d) /\ Undisturbed(d)
  <2>1. \A d \in Client \ {c} : SameClient(d)
    BY <1>1, <1>2 DEF ShapeInv, SameClient
  <2> QED BY <1>1, <2>1, QuietUndisturbed
<1>6. pc'[c] = "check" /\ held'[c] = TRUE
  BY <1>1, <1>2 DEF ShapeInv
<1>7. LocksOK(c)'
  <2>1. LocksOK(c)
    BY <1>2 DEF ClientInv
  <2>2. /\ task[c] \in Request \cup WriterTask /\ Fixed(task[c]) \subseteq want[c].keys
        /\ want[c].excl = ToSet(Targets(task[c]))
        /\ task[c] \in Request => preview[c] # None /\ preview[c].request = task[c]
        /\ receipts[c] = <<>>
    BY <1>1, <2>1 DEF LocksOK, Working
  <2> QED BY <1>1, <1>6, <2>2 DEF LocksOK, Working
<1>8. PreviewOK(c)'
  BY <1>1, <1>2, <1>4, PreviewKept DEF ClientInv
<1>9. WorkOK(c)'
  BY <1>6 DEF WorkOK, Working
<1>10. \A d \in Client : PermitOK(d)'
  <2>1. Content(Log)' = Content(Log) /\ Content(Binding)' = Content(Binding)
    BY <1>1 DEF Content
  <2> QED BY <1>1, <1>2, <2>1, PermitKept DEF ClientInv
<1>11. \A d \in Client \ {c} : LocksOK(d)' /\ PreviewOK(d)' /\ WorkOK(d)'
  BY <1>2, <1>4, <1>5, ClientKept DEF ClientInv
<1>12. ASSUME NEW a \in Client, NEW b \in Client, a # b PROVE Apart(a, b)'
  <2>1. \A d \in Client \ {c} : held'[d] = held[d]
    BY <1>5 DEF SameClient
  <2>2. CASE a = c
    BY <1>1, <1>12, <2>1, <2>2 DEF Apart, Compatible
  <2>3. CASE b = c
    <3>1. held[a] => want[c].keys \cap want[a].keys \cap (want[c].excl \cup want[a].excl) = {}
      BY <1>1, <1>12, <2>3 DEF Compatible
    <3> QED BY <1>1, <1>12, <2>1, <2>3, <3>1 DEF Apart
  <2>4. CASE a # c /\ b # c
    BY <1>1, <1>2, <1>12, <2>1, <2>4 DEF Apart, ClientInv
  <2> QED BY <2>2, <2>3, <2>4
<1>13. ClientInv'
  BY <1>7, <1>8, <1>9, <1>10, <1>11, <1>12 DEF ClientInv
<1> QED BY <1>3, <1>4, <1>13 DEF GovernanceInv

\* What the preview read is in place when every revision is what it was.
LEMMA PreviewedContent ==
  ASSUME NEW c \in Client, preview[c] # None, PreviewOK(c), AsPreviewed(c)
  PROVE  \A p \in Fixed(preview[c].request) : preview[c].inputs[p].content = Content(p)
BY DEF PreviewOK, AsPreviewed, Known

\* A matrix that is selected for the implementation fits the binding that is in place.
LEMMA SelectionFits ==
  ASSUME BindingFits, NEW r \in Request, r.op = "select", r.matrix.phase = Implementation,
         SelectionPasses(r)
  PROVE  Fits(Proposed(r)[Matrix(Implementation)], Content(Binding))
<1>1. BindingDiagnostics([matrix |-> r.matrix, eol |-> "lf"], Content(Binding)) = {}
  BY DEF BindingFits, SelectionPasses, SelectionIntroduces
<1>2. Proposed(r)[Matrix(Implementation)] = ProposedMatrix(r)
  BY PathsDiffer DEF Proposed
<1>3. ProposedMatrix(r) \in {Content(Matrix(Implementation)), [matrix |-> r.matrix, eol |-> "lf"]}
  BY DEF ProposedMatrix
<1> QED BY <1>1, <1>2, <1>3 DEF BindingFits, Fits

\* What is relied on from the check on, for a client that has passed it.
LEMMA CheckedWork ==
  ASSUME GovernanceInv, NEW c \in Client, task[c] \in Request, preview[c] # None,
         preview[c].request = task[c], AsPreviewed(c), StillPasses(c)
  PROVE  /\ task[c].op = "bind" => BindOK(c)
         /\ task[c].op = "select" /\ task[c].matrix.phase = Implementation => ImplementationOK(c)
         /\ task[c].op = "select" => RecordOK(c)
<1>1. PICK r : r = task[c]
  OBVIOUS
<1>2. \A p \in Fixed(r) : preview[c].inputs[p].content = Content(p)
  BY <1>1, PreviewedContent DEF GovernanceInv, ClientInv
<1>3. BindingFits /\ Passes(r) /\ preview[c].changes = Proposed(r) /\ r \in Request
  BY <1>1 DEF GovernanceInv, StillPasses
<1>4. ASSUME r.op = "bind" PROVE BindOK(c)
  <2>1. /\ Exists(Matrix(Implementation)) /\ OneWriter(Content(Matrix(Implementation)).matrix)
        /\ r.binding.adapter = Content(Matrix(Implementation)).matrix.adapter /\ Inactive
    BY <1>3, <1>4 DEF Passes, BindingPasses
  <2>2. Fits(Content(Matrix(Implementation)), r.binding)
    BY <2>1 DEF Fits, BindingDiagnostics
  <2>3. preview[c].inputs[Binding].content = Content(Binding)
    BY <1>2, <1>4, FixedSet
  <2>4. Fits(Content(Matrix(Implementation)), preview[c].inputs[Binding].content)
    BY <1>3, <2>3 DEF BindingFits, Fits
  <2> QED BY <1>1, <2>1, <2>2, <2>4 DEF BindOK
<1>5. ASSUME r.op = "select", r.matrix.phase = Implementation PROVE ImplementationOK(c)
  <2>1. SelectionPasses(r)
    BY <1>3, <1>5 DEF Passes
  <2>2. Fits(preview[c].changes[Matrix(Implementation)], Content(Binding))
    BY <1>3, <1>5, <2>1, SelectionFits
  <2>3. preview[c].inputs[Matrix(Implementation)].content = Content(Matrix(Implementation))
    BY <1>2, <1>5, FixedSet
  <2> QED BY <1>3, <2>2, <2>3 DEF ImplementationOK, BindingFits, Fits
<1>6. ASSUME r.op = "select" PROVE RecordOK(c)
  BY <1>1, <1>2, <1>6, FixedSet DEF RecordOK
<1> QED BY <1>1, <1>4, <1>5, <1>6

\* A client that passes its check.
LEMMA CheckPassedStep ==
  ASSUME GovernanceInv, NEW c \in Client, CheckPassed(c)
  PROVE  GovernanceInv'
<1>1. /\ UNCHANGED <<file, clock, task, preview, want, held, receipts, outcome, permit, torn>>
      /\ pc[c] = "check" /\ ~ IsWriter(task[c]) /\ AsPreviewed(c) /\ StillPasses(c)
      /\ pc' = [pc EXCEPT ![c] = "publish"]
  BY DEF CheckPassed, At, Goto
<1>2. FileInv /\ ShapeInv /\ ClientInv /\ BindingFits
  BY DEF GovernanceInv
<1>3. ShapeInv'
  BY <1>1, <1>2 DEF ShapeInv
<1>4. \A d \in Client \ {c} : SameClient(d)
  BY <1>1, <1>2 DEF ShapeInv, SameClient
<1>5. pc'[c] = "publish"
  BY <1>1, <1>2 DEF ShapeInv
<1>6. LocksOK(c) /\ PreviewOK(c)
  BY <1>2 DEF ClientInv
<1>7. /\ task[c] \in Request \cup WriterTask /\ Fixed(task[c]) \subseteq want[c].keys
      /\ want[c].excl = ToSet(Targets(task[c])) /\ held[c] /\ receipts[c] = <<>>
      /\ task[c] \in Request => preview[c] # None /\ preview[c].request = task[c]
  BY <1>1, <1>6 DEF LocksOK, Working
<1>8. task[c] \in Request /\ preview[c] # None /\ preview[c].request = task[c]
  BY <1>1, <1>7, RequestShape DEF IsWriter
<1>9. LocksOK(c)'
  BY <1>1, <1>5, <1>7, <1>8 DEF LocksOK, Working
<1>10. ReceiptsOK(c)'
  <2>1. Len(preview[c].writes) \in Nat
    BY <1>6, <1>8 DEF PreviewOK, PlanOK
  <2>2. receipts'[c] = <<>> /\ preview'[c] = preview[c]
    BY <1>1, <1>7
  <2> QED BY <2>1, <2>2 DEF ReceiptsOK
<1>11. /\ task[c].op = "bind" => BindOK(c)
       /\ task[c].op = "select" /\ task[c].matrix.phase = Implementation => ImplementationOK(c)
       /\ task[c].op = "select" => RecordOK(c)
  BY <1>1, <1>8, CheckedWork
<1>12. /\ BindOK(c) => BindOK(c)'
       /\ ImplementationOK(c) => ImplementationOK(c)'
       /\ RecordOK(c) => RecordOK(c)'
  BY <1>1 DEF BindOK, ImplementationOK, RecordOK, Inactive, Exists, Content
<1>13. WorkOK(c)'
  BY <1>1, <1>10, <1>11, <1>12 DEF WorkOK
<1>14. held'[c] => held[c] /\ want'[c] = want[c]
  BY <1>1
<1>15. preview'[c] = preview[c] /\ \A d \in Client : permit'[d] = permit[d]
  BY <1>1
<1>16. FileInv' /\ ClientInv' /\ BindingFits'
  BY <1>1, <1>2, <1>4, <1>9, <1>13, <1>14, <1>15, QuietStep
<1> QED BY <1>3, <1>16 DEF GovernanceInv

-----------------------------------------------------------------------------
(* Publication and rollback. *)

\* A client that neither leaves its work nor touches a file keeps what it relies on.
LEMMA WorkQuiet ==
  ASSUME NEW c \in Client, pc[c] \in Working, WorkOK(c), UNCHANGED <<file, task, preview>>,
         ReceiptsOK(c)', pc'[c] = "rollback"
  PROVE  WorkOK(c)'
<1>1. /\ task[c].op = "bind" => BindOK(c)
      /\ task[c].op = "select" /\ task[c].matrix.phase = Implementation => ImplementationOK(c)
  BY DEF WorkOK
<1>2. BindOK(c) => BindOK(c)'
  BY DEF BindOK, Inactive, Exists, Content
<1>3. ImplementationOK(c) => ImplementationOK(c)'
  BY DEF ImplementationOK, Content
<1> QED BY <1>1, <1>2, <1>3 DEF WorkOK

\* A client that goes over to its rollback.
LEMMA TurnsBackStep ==
  ASSUME GovernanceInv, NEW c \in Client, PublishFails(c) \/ VerifyFails(c)
  PROVE  GovernanceInv'
<1>1. /\ UNCHANGED <<file, clock, task, preview, want, held, receipts, outcome, permit, torn>>
      /\ pc[c] = "publish" /\ pc' = [pc EXCEPT ![c] = "rollback"]
  BY DEF PublishFails, VerifyFails, At, Goto
<1>2. FileInv /\ ShapeInv /\ ClientInv /\ BindingFits
  BY DEF GovernanceInv
<1>3. ShapeInv'
  BY <1>1, <1>2 DEF ShapeInv
<1>4. \A d \in Client \ {c} : SameClient(d)
  BY <1>1, <1>2 DEF ShapeInv, SameClient
<1>5. pc'[c] = "rollback" /\ pc[c] \in Working
  BY <1>1, <1>2 DEF ShapeInv, Working
<1>6. LocksOK(c)'
  <2>1. LocksOK(c)
    BY <1>2 DEF ClientInv
  <2>2. /\ held[c] /\ task[c] \in Request /\ Fixed(task[c]) \subseteq want[c].keys
        /\ want[c].excl = ToSet(Targets(task[c]))
        /\ preview[c] # None /\ preview[c].request = task[c]
    BY <1>1, <1>5, <2>1 DEF LocksOK
  <2> QED BY <1>1, <1>5, <2>2 DEF LocksOK, Working
<1>7. ReceiptsOK(c)'
  <2>1. ReceiptsOK(c)
    BY <1>2, <1>5 DEF ClientInv, WorkOK
  <2> QED BY <1>1, <2>1 DEF ReceiptsOK, Receipt
<1>8. WorkOK(c)'
  BY <1>1, <1>2, <1>5, <1>7, WorkQuiet DEF ClientInv
<1>9. /\ held'[c] => held[c] /\ want'[c] = want[c]
      /\ preview'[c] = preview[c] /\ \A d \in Client : permit'[d] = permit[d]
  BY <1>1
<1>10. FileInv' /\ ClientInv' /\ BindingFits'
  BY <1>1, <1>2, <1>4, <1>6, <1>8, <1>9, QuietStep
<1> QED BY <1>3, <1>10 DEF GovernanceInv

\* A sequence without its last element.
LEMMA AllButLast ==
  ASSUME NEW R, NEW s \in Seq(R), s # <<>>
  PROVE  /\ SubSeq(s, 1, Len(s) - 1) \in Seq(R)
         /\ Len(SubSeq(s, 1, Len(s) - 1)) = Len(s) - 1
         /\ \A i \in 1..(Len(s) - 1) : SubSeq(s, 1, Len(s) - 1)[i] = s[i]
<1>1. Len(s) \in Nat /\ Len(s) # 0
  BY EmptySeq, LenProperties
<1>2. \A i \in 1..(Len(s) - 1) : s[i] \in R
  BY <1>1, LenProperties, ElementOfSeq
<1>3. PICK n \in Int : n = Len(s) - 1 /\ n >= 0
  BY <1>1
<1>4. \A i \in 1..n : s[i] \in R
  BY <1>2, <1>3
<1>5. SubSeq(s, 1, n) \in Seq(R) /\ Len(SubSeq(s, 1, n)) = IF 1 <= n THEN n - 1 + 1 ELSE 0
  BY <1>4, SubSeqProperties
<1>6. \A i \in 1..n : SubSeq(s, 1, n)[i] = s[i]
  <2> SUFFICES ASSUME NEW i \in 1..n PROVE SubSeq(s, 1, n)[i] = s[i]
    OBVIOUS
  <2>1. i \in 1..(n - 1 + 1) /\ 1 + i - 1 = i
    BY <1>3
  <2>2. SubSeq(s, 1, n)[i] = s[1 + i - 1]
    BY <1>4, <2>1, SubSeqProperties
  <2> QED BY <2>1, <2>2
<1> QED BY <1>3, <1>5, <1>6

\* A client that drops its last receipt keeps the others.
LEMMA ReceiptDropped ==
  ASSUME ShapeInv, NEW c \in Client, ReceiptsOK(c), preview[c].writes \in Seq(Path),
         receipts[c] # <<>>, DropReceipt(c), UNCHANGED preview
  PROVE  /\ ReceiptsOK(c)'
         /\ DOMAIN receipts' = Client /\ \A d \in Client \ {c} : receipts'[d] = receipts[d]
         /\ \E i \in 1..Len(preview[c].writes) :
              /\ Last(receipts[c]).path = preview[c].writes[i]
              /\ Last(receipts[c]).prior = preview[c].inputs[preview[c].writes[i]].content
<1> DEFINE s == receipts[c]
           t == SubSeq(s, 1, Len(s) - 1)
           R == Receipt(c)
<1>1. receipts' = [receipts EXCEPT ![c] = t]
  BY DEF DropReceipt
<1>2. /\ DOMAIN receipts' = Client /\ receipts'[c] = t
      /\ \A d \in Client \ {c} : receipts'[d] = receipts[d]
  BY <1>1 DEF ShapeInv
<1>3. s \in Seq(R) /\ Len(s) \in Nat /\ Len(s) # 0
  BY EmptySeq, LenProperties DEF ReceiptsOK
<1>4. t \in Seq(R) /\ Len(t) = Len(s) - 1 /\ \A i \in 1..Len(t) : t[i] = s[i]
  <2> HIDE DEF s, R
  <2> QED BY <1>3, AllButLast, EmptySeq
<1>5. Len(preview[c].writes) \in Nat /\ Len(s) <= Len(preview[c].writes)
  BY DEF ReceiptsOK
<1>6. \A i \in 1..Len(s) : /\ s[i].path = preview[c].writes[i]
                           /\ s[i].prior = preview[c].inputs[preview[c].writes[i]].content
  BY DEF ReceiptsOK
<1>7. R = Receipt(c)'
  BY DEF Receipt
<1>8. Last(s) = s[Len(s)]
  BY DEF Last
<1> HIDE DEF s, t, R
<1>9. /\ t \in Seq(R) /\ Len(t) <= Len(preview[c].writes)
      /\ \A i \in 1..Len(t) : /\ t[i].path = preview[c].writes[i]
                              /\ t[i].prior = preview[c].inputs[preview[c].writes[i]].content
  BY <1>3, <1>4, <1>5, <1>6
<1>10. ReceiptsOK(c)'
  BY <1>2, <1>7, <1>9 DEF ReceiptsOK
<1>11. \E i \in 1..Len(preview[c].writes) :
         /\ Last(s).path = preview[c].writes[i]
         /\ Last(s).prior = preview[c].inputs[preview[c].writes[i]].content
  BY <1>3, <1>5, <1>6, <1>8
<1> QED BY <1>2, <1>10, <1>11 DEF s

\* What a client that works knows of its plan.
LEMMA WorkPlan ==
  ASSUME GovernanceInv, NEW c \in Client, pc[c] \in Working
  PROVE  /\ task[c] \in Request /\ preview[c] # None /\ preview[c].request = task[c]
         /\ PlanOK(preview[c]) /\ preview[c].writes \in Seq(Path) /\ ReceiptsOK(c)
         /\ held[c] /\ want[c].excl = ToSet(Targets(task[c]))
         /\ ToSet(Targets(task[c])) \subseteq want[c].keys /\ want[c].keys \subseteq Path
         /\ \A i \in 1..Len(preview[c].writes) : preview[c].writes[i] \in ToSet(Targets(task[c]))
<1>1. LocksOK(c) /\ PreviewOK(c) /\ WorkOK(c) /\ pc[c] # "idle" /\ ShapeInv
  BY DEF GovernanceInv, ClientInv, Working
<1>2. /\ task[c] \in Request /\ preview[c] # None /\ preview[c].request = task[c] /\ held[c]
      /\ Fixed(task[c]) \subseteq want[c].keys /\ want[c].excl = ToSet(Targets(task[c]))
  BY <1>1 DEF LocksOK
<1>3. PlanOK(preview[c]) /\ ReceiptsOK(c)
  BY <1>1, <1>2 DEF PreviewOK, WorkOK
<1>4. ToSet(Targets(task[c])) \subseteq want[c].keys
  BY <1>2, ReadsSet
<1>5. want[c].keys \subseteq Path
  BY <1>1 DEF ShapeInv
<1> QED BY <1>2, <1>3, <1>4, <1>5 DEF PlanOK

\* A file that cannot be put back is reported.
LEMMA RestoreFailsStep ==
  ASSUME GovernanceInv, NEW c \in Client, RestoreFails(c)
  PROVE  GovernanceInv'
<1>1. /\ UNCHANGED <<file, clock, pc, task, preview, want, held, permit>>
      /\ pc[c] = "rollback" /\ receipts[c] # <<>> /\ DropReceipt(c)
      /\ torn' = torn \cup {Last(receipts[c]).path}
      /\ outcome' = [outcome EXCEPT ![c] = "incomplete"]
  BY DEF RestoreFails, At
<1>2. FileInv /\ ShapeInv /\ ClientInv /\ BindingFits /\ pc[c] \in Working
  BY <1>1 DEF GovernanceInv, Working
<1>3. ReceiptsOK(c) /\ preview[c].writes \in Seq(Path)
  BY <1>2, WorkPlan
<1>4. /\ ReceiptsOK(c)'
      /\ DOMAIN receipts' = Client /\ \A d \in Client \ {c} : receipts'[d] = receipts[d]
      /\ \E i \in 1..Len(preview[c].writes) : Last(receipts[c]).path = preview[c].writes[i]
  BY <1>1, <1>2, <1>3, ReceiptDropped
<1>5. torn' \subseteq Path
  <2>1. \A i \in 1..Len(preview[c].writes) : preview[c].writes[i] \in Path
    BY <1>3, ElementOfSeq
  <2> QED BY <1>1, <1>2, <1>4, <2>1 DEF ShapeInv
<1>6. ShapeInv'
  BY <1>1, <1>2, <1>4, <1>5 DEF ShapeInv
<1>7. \A d \in Client \ {c} : SameClient(d)
  BY <1>1, <1>4 DEF SameClient
<1>8. LocksOK(c)'
  <2>1. LocksOK(c)
    BY <1>2 DEF ClientInv
  <2> QED BY <1>1, <1>2, <2>1 DEF LocksOK
<1>9. WorkOK(c)'
  BY <1>1, <1>2, <1>4, WorkQuiet DEF ClientInv
<1>10. /\ held'[c] => held[c] /\ want'[c] = want[c]
       /\ preview'[c] = preview[c] /\ \A d \in Client : permit'[d] = permit[d]
  BY <1>1
<1>11. FileInv' /\ ClientInv' /\ BindingFits'
  BY <1>1, <1>2, <1>7, <1>8, <1>9, <1>10, QuietStep
<1> QED BY <1>6, <1>11 DEF GovernanceInv

-----------------------------------------------------------------------------
(* The steps that change a file. *)

\* What a target may be.
LEMMA TargetKind ==
  ASSUME NEW r \in Request, NEW p \in ToSet(Targets(r))
  PROVE  /\ p \in Path /\ p # Log
         /\ p = Binding => r.op = "bind"
         /\ p # Binding => r.op = "select"
         /\ p = Matrix(Implementation) => r.op = "select" /\ r.matrix.phase = Implementation
         /\ \A id : p = History(id) => r.op = "select" /\ r.id = id
<1>1. p \in Path
  BY ReadsSet
<1>2. CASE r.op = "bind"
  BY <1>1, <1>2, TargetsSet, PathsDiffer
<1>3. CASE r.op = "select"
  BY <1>1, <1>3, TargetsSet, PathsDiffer
<1> QED BY <1>2, <1>3, RequestShape

\* No writer is permitted while no ticket is active.
LEMMA NoPermit ==
  ASSUME \A d \in Client : PermitOK(d), Inactive
  PROVE  \A d \in Client : permit[d] = None
BY DEF PermitOK, Inactive

\* A client that writes one of its targets keeps the rest of what it relies on.
LEMMA OwnWork ==
  ASSUME GovernanceInv, NEW c \in Client, pc[c] \in Working,
         NEW p \in ToSet(Targets(task[c])), \A q \in Path \ {p} : file'[q] = file[q],
         UNCHANGED <<task, preview>>
  PROVE  /\ task[c].op = "bind" => BindOK(c)'
         /\ task[c].op = "select" /\ task[c].matrix.phase = Implementation => ImplementationOK(c)'
<1>1. task[c] \in Request /\ WorkOK(c)
  BY WorkPlan DEF GovernanceInv, ClientInv
<1>2. PICK r \in Request : r = task[c]
  BY <1>1
<1>3. ASSUME r.op = "bind" PROVE BindOK(c)'
  <2>1. p = Binding
    BY <1>2, <1>3, TargetsSet
  <2>2. file'[Log] = file[Log] /\ file'[Matrix(Implementation)] = file[Matrix(Implementation)]
    BY <2>1, PathsExist, PathsDiffer, RequestAssumption
  <2>3. BindOK(c)
    BY <1>1, <1>2, <1>3 DEF WorkOK
  <2> QED BY <2>2, <2>3 DEF BindOK, Inactive, Exists, Content
<1>4. ASSUME r.op = "select", r.matrix.phase = Implementation PROVE ImplementationOK(c)'
  <2>1. p # Binding
    BY <1>2, <1>4, TargetsSet, PathsDiffer
  <2>2. file'[Binding] = file[Binding]
    BY <2>1, PathsExist
  <2>3. ImplementationOK(c)
    BY <1>1, <1>2, <1>4 DEF WorkOK
  <2> QED BY <2>2, <2>3 DEF ImplementationOK, Content
<1> QED BY <1>2, <1>3, <1>4

\* A client writes one of its targets: nobody else has locked it, and what is written fits.
LEMMA TargetStep ==
  ASSUME GovernanceInv, NEW c \in Client, pc[c] \in Working,
         NEW p \in ToSet(Targets(task[c])), NEW content,
         file' = [file EXCEPT ![p] = Written(content)], clock' = clock + 1,
         \A d \in Client \ {c} : SameClient(d),
         UNCHANGED <<task, preview, want, held, permit>>,
         p = Binding => Inactive /\ Fits(Content(Matrix(Implementation)), content),
         p = Matrix(Implementation) => Fits(content, Content(Binding)),
         LocksOK(c)', WorkOK(c)'
  PROVE  FileInv' /\ ClientInv' /\ BindingFits'
<1>1. FileInv /\ ClientInv /\ BindingFits
  BY DEF GovernanceInv
<1>2. /\ task[c] \in Request /\ held[c] /\ p \in want[c].keys /\ p \in want[c].excl
      /\ p \in Path /\ p # Log
  BY WorkPlan, TargetKind
<1>3. /\ FileInv' /\ Remembered
      /\ Content(p)' = content
      /\ \A q \in Path \ {p} : file'[q] = file[q]
  BY <1>1, <1>2, FileStep DEF Remembered, KnownNext, Known, Content
<1>4. ASSUME NEW d \in Client \ {c} PROVE Undisturbed(d)
  <2> SUFFICES ASSUME held[d], NEW q \in want[d].keys PROVE file'[q] = file[q]
    BY DEF Undisturbed, Content
  <2>1. q # p
    <3>1. Apart(c, d)
      BY <1>1 DEF ClientInv
    <3> QED BY <1>2, <3>1 DEF Apart
  <2>2. q \in Path
    BY DEF GovernanceInv, ShapeInv
  <2> QED BY <1>3, <2>1, <2>2
<1>5. PreviewOK(c)'
  BY <1>1, <1>3, PreviewKept DEF ClientInv
<1>6. Content(Log)' = Content(Log)
  BY <1>2, <1>3, PathsExist DEF Content
<1>7. \A d \in Client : PermitOK(d)'
  <2>1. CASE p = Binding
    <3>1. \A d \in Client : permit'[d] = None
      BY <1>1, <2>1, NoPermit DEF ClientInv
    <3> QED BY <3>1 DEF PermitOK
  <2>2. CASE p # Binding
    <3>1. Content(Binding)' = Content(Binding)
      BY <1>3, <2>2, PathsExist DEF Content
    <3> QED BY <1>1, <1>6, <3>1, PermitKept DEF ClientInv
  <2> QED BY <2>1, <2>2
<1>8. ClientInv'
  BY <1>1, <1>3, <1>4, <1>5, <1>7, StepOfClient
<1>9. BindingFits'
  <2>1. Matrix(Implementation) \in Path /\ Binding \in Path /\ Matrix(Implementation) # Binding
    BY PathsExist, PathsDiffer, RequestAssumption
  <2>2. CASE p = Binding
    BY <1>3, <2>1, <2>2 DEF BindingFits, Fits, Content
  <2>3. CASE p = Matrix(Implementation)
    BY <1>3, <2>1, <2>3 DEF BindingFits, Fits, Content
  <2>4. CASE p # Binding /\ p # Matrix(Implementation)
    BY <1>1, <1>3, <2>1, <2>4 DEF BindingFits, Content
  <2> QED BY <2>2, <2>3, <2>4
<1> QED BY <1>3, <1>8, <1>9

\* The next file is written.
LEMMA PublishStep ==
  ASSUME GovernanceInv, NEW c \in Client, Publish(c)
  PROVE  GovernanceInv'
<1>1. PICK p : p = preview[c].writes[Len(receipts[c]) + 1]
  OBVIOUS
<1>2. PICK content : content = preview[c].changes[p]
  OBVIOUS
<1>3. /\ pc[c] = "publish" /\ Len(receipts[c]) < Len(preview[c].writes)
      /\ file' = [file EXCEPT ![p] = Written(content)] /\ clock' = clock + 1
      /\ receipts' = [receipts EXCEPT ![c] = Append(receipts[c],
           [path |-> p, prior |-> preview[c].inputs[p].content, rev |-> clock])]
      /\ UNCHANGED <<pc, task, preview, want, held, outcome, permit, torn>>
  BY <1>1, <1>2 DEF Publish, At
<1>4. FileInv /\ ShapeInv /\ ClientInv /\ BindingFits /\ pc[c] \in Working
  BY <1>3 DEF GovernanceInv, Working
<1>5. /\ task[c] \in Request /\ preview[c].request = task[c] /\ PlanOK(preview[c])
      /\ preview[c].writes \in Seq(Path) /\ ReceiptsOK(c) /\ held[c]
      /\ \A i \in 1..Len(preview[c].writes) : preview[c].writes[i] \in ToSet(Targets(task[c]))
  BY <1>4, WorkPlan DEF GovernanceInv
<1>6. PICK r \in Request : r = task[c]
  BY <1>5
<1>7. Len(receipts[c]) \in Nat /\ Len(preview[c].writes) \in Nat
  BY <1>5 DEF ReceiptsOK
<1>8. p \in ToSet(Targets(r)) /\ p \in Path
  <2>1. Len(receipts[c]) + 1 \in 1..Len(preview[c].writes)
    BY <1>3, <1>7
  <2>2. p \in ToSet(Targets(r))
    BY <1>1, <1>5, <1>6, <2>1
  <2> QED BY <2>2, TargetKind
<1>9. /\ r.op = "bind" => BindOK(c)
      /\ r.op = "select" /\ r.matrix.phase = Implementation => ImplementationOK(c)
      /\ r.op = "select" => RecordOK(c)
  BY <1>3, <1>4, <1>6 DEF ClientInv, WorkOK
<1>10. p = Binding => Inactive /\ Fits(Content(Matrix(Implementation)), content)
  <2> SUFFICES ASSUME p = Binding PROVE Inactive /\ Fits(Content(Matrix(Implementation)), content)
    OBVIOUS
  <2>1. r.op = "bind"
    BY <1>8, TargetKind
  <2>2. content = r.binding
    BY <1>2, <1>5, <1>6, <2>1 DEF PlanOK
  <2> QED BY <1>6, <1>9, <2>1, <2>2 DEF BindOK
<1>11. p = Matrix(Implementation) => Fits(content, Content(Binding))
  <2> SUFFICES ASSUME p = Matrix(Implementation) PROVE Fits(content, Content(Binding))
    OBVIOUS
  <2>1. r.op = "select" /\ r.matrix.phase = Implementation
    BY <1>8, TargetKind
  <2> QED BY <1>2, <1>9, <2>1 DEF ImplementationOK
<1>12. \A d \in Client \ {c} : SameClient(d)
  BY <1>3, <1>4 DEF ShapeInv, SameClient
<1>13. LocksOK(c)'
  <2>1. LocksOK(c)
    BY <1>4 DEF ClientInv
  <2> QED BY <1>3, <1>4, <2>1 DEF LocksOK
<1>14. /\ receipts'[c] = Append(receipts[c],
            [path |-> p, prior |-> preview[c].inputs[p].content, rev |-> clock])
       /\ DOMAIN receipts' = Client
  BY <1>3, <1>4 DEF ShapeInv
<1> DEFINE s == receipts[c]
           e == [path |-> p, prior |-> preview[c].inputs[p].content, rev |-> clock]
           R == Receipt(c)
<1>15. s \in Seq(R) /\ e \in R /\ R = Receipt(c)' /\ e.path = p
       /\ e.prior = preview[c].inputs[p].content
  BY <1>3, <1>4, <1>5, <1>8 DEF ReceiptsOK, Receipt, FileInv
<1>16. /\ receipts'[c] \in Seq(R) /\ Len(receipts'[c]) = Len(s) + 1
       /\ \A i \in 1..Len(s) : receipts'[c][i] = s[i]
       /\ receipts'[c][Len(s) + 1] = e
  <2> HIDE DEF s, e, R
  <2>1. receipts'[c] = Append(s, e)
    BY <1>14 DEF s, e
  <2> QED BY <1>15, <2>1, AppendProperties
<1>17. \A i \in 1..Len(s) : /\ s[i].path = preview[c].writes[i]
                            /\ s[i].prior = preview[c].inputs[preview[c].writes[i]].content
  BY <1>5 DEF ReceiptsOK
<1> HIDE DEF s, e, R
<1>18. /\ Len(receipts'[c]) <= Len(preview[c].writes)
       /\ \A i \in 1..Len(receipts'[c]) :
            /\ receipts'[c][i].path = preview[c].writes[i]
            /\ receipts'[c][i].prior = preview[c].inputs[preview[c].writes[i]].content
  <2>1. Len(s) = Len(receipts[c])
    BY DEF s
  <2>2. /\ Len(receipts'[c]) = Len(s) + 1 /\ Len(s) \in Nat
        /\ Len(receipts'[c]) <= Len(preview[c].writes)
    BY <1>3, <1>7, <1>16, <2>1
  <2>3. e.path = preview[c].writes[Len(s) + 1]
    BY <1>1, <1>15, <2>1
  <2>4. e.prior = preview[c].inputs[preview[c].writes[Len(s) + 1]].content
    BY <1>1, <1>15, <2>1
  <2>5. \A i \in 1..Len(receipts'[c]) : i \in 1..Len(s) \/ i = Len(s) + 1
    BY <2>2
  <2> QED BY <1>16, <1>17, <2>2, <2>3, <2>4, <2>5
<1>19. ReceiptsOK(c)'
  BY <1>3, <1>15, <1>16, <1>18 DEF ReceiptsOK
<1>20. /\ Content(p)' = content
       /\ \A q \in Path \ {p} : file'[q] = file[q]
  BY <1>3, <1>4, <1>8, TargetKind, FileStep
<1>21. /\ r.op = "bind" => BindOK(c)'
       /\ r.op = "select" /\ r.matrix.phase = Implementation => ImplementationOK(c)'
  BY <1>3, <1>4, <1>6, <1>8, <1>20, OwnWork DEF GovernanceInv
<1>22. r.op = "select" => RecordOK(c)'
  <2> SUFFICES ASSUME r.op = "select",
                      \A i \in 1..Len(receipts'[c]) : receipts'[c][i].path # History(r.id)
               PROVE  file'[History(r.id)].content = preview[c].inputs[History(r.id)].content
    BY <1>3, <1>6 DEF RecordOK, Content
  <2>1. Len(s) \in Nat
    BY <1>7 DEF s
  <2>2. p # History(r.id)
    BY <1>15, <1>16, <2>1
  <2>3. \A i \in 1..Len(s) : s[i].path # History(r.id)
    BY <1>16, <2>1
  <2>4. Content(History(r.id)) = preview[c].inputs[History(r.id)].content
    BY <1>6, <1>9, <2>3 DEF RecordOK, s
  <2>5. History(r.id) \in Path
    BY RequestShape, PathsExist
  <2> QED BY <1>20, <2>2, <2>4, <2>5 DEF Content
<1>23. WorkOK(c)'
  BY <1>3, <1>6, <1>19, <1>21, <1>22 DEF WorkOK
<1>24. FileInv' /\ ClientInv' /\ BindingFits'
  BY <1>3, <1>4, <1>6, <1>8, <1>10, <1>11, <1>12, <1>13, <1>23, TargetStep DEF GovernanceInv
<1>25. ShapeInv'
  BY <1>3, <1>4, <1>14 DEF ShapeInv
<1> QED BY <1>24, <1>25 DEF GovernanceInv

\* The last file published is put back.
LEMMA RestoreStep ==
  ASSUME GovernanceInv, NEW c \in Client, Restore(c)
  PROVE  GovernanceInv'
<1>1. PICK p : p = Last(receipts[c]).path
  OBVIOUS
<1>2. PICK content : content = Last(receipts[c]).prior
  OBVIOUS
<1>3. /\ pc[c] = "rollback" /\ receipts[c] # <<>> /\ DropReceipt(c)
      /\ file' = [file EXCEPT ![p] = Written(content)] /\ clock' = clock + 1
      /\ UNCHANGED <<pc, task, preview, want, held, outcome, permit, torn>>
  BY <1>1, <1>2 DEF Restore, At
<1>4. FileInv /\ ShapeInv /\ ClientInv /\ BindingFits /\ pc[c] \in Working
  BY <1>3 DEF GovernanceInv, Working
<1>5. /\ task[c] \in Request /\ preview[c].request = task[c]
      /\ preview[c].writes \in Seq(Path) /\ ReceiptsOK(c) /\ held[c]
      /\ \A i \in 1..Len(preview[c].writes) : preview[c].writes[i] \in ToSet(Targets(task[c]))
  BY <1>4, WorkPlan DEF GovernanceInv
<1>6. /\ ReceiptsOK(c)'
      /\ DOMAIN receipts' = Client /\ \A d \in Client \ {c} : receipts'[d] = receipts[d]
      /\ \E i \in 1..Len(preview[c].writes) :
           /\ Last(receipts[c]).path = preview[c].writes[i]
           /\ Last(receipts[c]).prior = preview[c].inputs[preview[c].writes[i]].content
  BY <1>3, <1>4, <1>5, ReceiptDropped
<1>7. PICK r \in Request : r = task[c]
  BY <1>5
<1>8. p \in ToSet(Targets(r)) /\ content = preview[c].inputs[p].content
  BY <1>1, <1>2, <1>5, <1>6, <1>7
<1>9. /\ r.op = "bind" => BindOK(c)
      /\ r.op = "select" /\ r.matrix.phase = Implementation => ImplementationOK(c)
  BY <1>3, <1>4, <1>7 DEF ClientInv, WorkOK
<1>10. p = Binding => Inactive /\ Fits(Content(Matrix(Implementation)), content)
  BY <1>8, <1>9, TargetKind DEF BindOK
<1>11. p = Matrix(Implementation) => Fits(content, Content(Binding))
  BY <1>8, <1>9, TargetKind DEF ImplementationOK
<1>12. \A d \in Client \ {c} : SameClient(d)
  BY <1>3, <1>6 DEF SameClient
<1>13. LocksOK(c)'
  <2>1. LocksOK(c)
    BY <1>4 DEF ClientInv
  <2> QED BY <1>3, <1>4, <2>1 DEF LocksOK
<1>14. \A q \in Path \ {p} : file'[q] = file[q]
  BY <1>3, <1>4, <1>8, TargetKind, FileStep
<1>15. /\ r.op = "bind" => BindOK(c)'
       /\ r.op = "select" /\ r.matrix.phase = Implementation => ImplementationOK(c)'
  BY <1>3, <1>4, <1>7, <1>8, <1>14, OwnWork DEF GovernanceInv
<1>16. WorkOK(c)'
  BY <1>3, <1>6, <1>7, <1>15 DEF WorkOK
<1>17. FileInv' /\ ClientInv' /\ BindingFits'
  BY <1>3, <1>4, <1>7, <1>8, <1>10, <1>11, <1>12, <1>13, <1>16, TargetStep DEF GovernanceInv
<1>18. ShapeInv'
  BY <1>3, <1>4, <1>6 DEF ShapeInv
<1> QED BY <1>17, <1>18 DEF GovernanceInv

\* What happens to the files from outside leaves the clients in order when nobody is disturbed.
LEMMA OutsideStep ==
  ASSUME ClientInv, UNCHANGED <<clientVars, preview>>, Remembered,
         \A d \in Client : Undisturbed(d) /\ PermitOK(d)'
  PROVE  ClientInv'
<1>1. \A d \in Client : SameClient(d)
  BY DEF SameClient, clientVars
<1>2. \A d \in Client : LocksOK(d)' /\ PreviewOK(d)' /\ WorkOK(d)'
  BY <1>1, ClientKept DEF ClientInv
<1>3. \A c, d \in Client : c # d => Apart(c, d)'
  BY <1>1, ApartKept DEF ClientInv, SameClient
<1> QED BY <1>2, <1>3 DEF ClientInv

\* A ticket moves on: nobody has the log locked, and permissions end with the work.
LEMMA AdvanceStep ==
  ASSUME GovernanceInv, Advance
  PROVE  GovernanceInv'
<1>0. PICK statuses : statuses = IF Exists(Log) THEN Content(Log)
                                               ELSE [u \in Ticket |-> "unknown"]
  OBVIOUS
<1>1. PICK t \in Ticket, status \in Status :
        /\ file' = [file EXCEPT ![Log] = Written([statuses EXCEPT ![t] = status])]
        /\ permit' = [c \in Client |->
             IF permit[c] # None /\ permit[c].ticket = t /\ status \notin Active
               THEN None ELSE permit[c]]
  BY <1>0 DEF Advance
<1>2. /\ clock' = clock + 1 /\ UNCHANGED <<clientVars, preview, torn>>
      /\ \A c \in Client : held[c] => Log \notin want[c].keys
  BY DEF Advance
<1>3. FileInv /\ ShapeInv /\ ClientInv /\ BindingFits
  BY DEF GovernanceInv
<1>4. PICK content : content = [statuses EXCEPT ![t] = status]
  OBVIOUS
<1>5. statuses \in [Ticket -> Status]
  BY <1>0, <1>3 DEF FileInv, Status
<1>6. content \in [Ticket -> Status] /\ content[t] = status
      /\ \A u \in Ticket \ {t} : content[u] = statuses[u]
  BY <1>4, <1>5
<1>7. /\ FileInv' /\ Remembered
      /\ Content(Log)' = content
      /\ \A q \in Path \ {Log} : file'[q] = file[q]
  BY <1>1, <1>2, <1>3, <1>4, <1>6, FileStep, PathsExist DEF Remembered, KnownNext, Known, Content
<1>8. ASSUME NEW d \in Client PROVE Undisturbed(d)
  <2> SUFFICES ASSUME held[d], NEW q \in want[d].keys PROVE file'[q] = file[q]
    BY DEF Undisturbed, Content
  <2> QED BY <1>2, <1>3, <1>7 DEF ShapeInv
<1>9. Content(Binding)' = Content(Binding)
        /\ Content(Matrix(Implementation))' = Content(Matrix(Implementation))
  BY <1>7, PathsExist, PathsDiffer, RequestAssumption DEF Content
<1>10. content # Absent
  BY <1>6, StartAssumption
<1>11. ASSUME NEW d \in Client PROVE PermitOK(d)'
  <2> SUFFICES ASSUME permit'[d] # None
               PROVE  /\ permit'[d].ticket \in Ticket
                      /\ content[permit'[d].ticket] \in Active
                      /\ Content(Binding)' = permit'[d].binding
    BY <1>7, <1>10 DEF PermitOK, Exists
  <2>1. permit'[d] = permit[d] /\ permit[d] # None
        /\ ~ (permit[d].ticket = t /\ status \notin Active)
    BY <1>1
  <2>2. /\ permit[d].ticket \in Ticket /\ Exists(Log)
        /\ Content(Log)[permit[d].ticket] \in Active /\ Content(Binding) = permit[d].binding
    BY <1>3, <2>1 DEF ClientInv, PermitOK
  <2>3. statuses = Content(Log)
    BY <1>0, <2>2
  <2> QED BY <1>6, <1>9, <2>1, <2>2, <2>3
<1>12. ClientInv'
  BY <1>2, <1>3, <1>7, <1>8, <1>11, OutsideStep
<1>13. BindingFits'
  BY <1>3, <1>9 DEF BindingFits
<1>14. ShapeInv'
  BY <1>1, <1>2, <1>3 DEF ShapeInv, clientVars
<1> QED BY <1>7, <1>12, <1>13, <1>14 DEF GovernanceInv

\* A matrix is removed, or its line ends are converted: whatever fitted it fits what is left.
LEMMA EditStep ==
  ASSUME GovernanceInv, Edit
  PROVE  GovernanceInv'
<1>1. FileInv /\ ShapeInv /\ ClientInv /\ BindingFits
  BY DEF GovernanceInv
<1>2. clock' = clock + 1 /\ UNCHANGED <<clientVars, preview, permit, torn>>
  BY DEF Edit
<1>3. PICK phase \in Phase :
        /\ Exists(Matrix(phase))
        /\ \/ file' = [file EXCEPT ![Matrix(phase)] = NoFile]
           \/ file' = [file EXCEPT ![Matrix(phase)] =
                        Written([matrix |-> Content(Matrix(phase)).matrix, eol |-> "crlf"])]
  BY DEF Edit
<1>4. PICK content :
        /\ content = Absent \/ content.matrix = Content(Matrix(phase)).matrix
        /\ file' = [file EXCEPT ![Matrix(phase)] = Written(content)]
  <2>1. Written(Absent) = NoFile
    BY DEF Written
  <2>2. CASE file' = [file EXCEPT ![Matrix(phase)] = NoFile]
    BY <2>1, <2>2
  <2>3. CASE file' = [file EXCEPT ![Matrix(phase)] =
                       Written([matrix |-> Content(Matrix(phase)).matrix, eol |-> "crlf"])]
    BY <2>3
  <2> QED BY <1>3, <2>2, <2>3
<1>5. Matrix(phase) \in Path /\ Matrix(phase) # Log
  BY PathsExist, PathsDiffer
<1>6. /\ FileInv' /\ Remembered
      /\ Content(Matrix(phase))' = content
      /\ \A q \in Path \ {Matrix(phase)} : file'[q] = file[q]
  BY <1>1, <1>2, <1>4, <1>5, FileStep DEF Remembered, KnownNext, Known, Content
<1>7. ASSUME NEW binding, Fits(Content(Matrix(phase)), binding) PROVE Fits(content, binding)
  BY <1>3, <1>4, <1>7, FitsAnyCopy DEF Exists
<1>8. \A binding : Fits(Content(Matrix(Implementation)), binding)
                     => Fits(Content(Matrix(Implementation))', binding)
  <2>1. CASE phase = Implementation
    BY <1>6, <1>7, <2>1
  <2>2. CASE phase # Implementation
    <3>1. Content(Matrix(Implementation))' = Content(Matrix(Implementation))
      BY <1>6, <2>2, PathsExist, PathsDiffer, RequestAssumption DEF Content
    <3> QED BY <3>1
  <2> QED BY <2>1, <2>2
<1>9. ASSUME NEW d \in Client PROVE Undisturbed(d)
  <2> SUFFICES ASSUME held[d], NEW q \in want[d].keys
               PROVE  /\ (\A other : q # Matrix(other)) => file'[q].content = file[q].content
                      /\ q = Matrix(Implementation) =>
                           \A binding : Fits(file[q].content, binding)
                                          => Fits(file'[q].content, binding)
    BY DEF Undisturbed, Content
  <2>1. q \in Path
    BY <1>1 DEF ShapeInv
  <2>2. (\A other : q # Matrix(other)) => file'[q].content = file[q].content
    BY <1>6, <2>1
  <2>3. \A binding : Fits(file[Matrix(Implementation)].content, binding)
                       => Fits(file'[Matrix(Implementation)].content, binding)
    BY <1>8 DEF Content
  <2> QED BY <2>2, <2>3
<1>10. Content(Binding)' = Content(Binding) /\ Content(Log)' = Content(Log)
  BY <1>6, PathsExist, PathsDiffer DEF Content
<1>11. \A d \in Client : PermitOK(d)'
  BY <1>1, <1>2, <1>10, PermitKept DEF ClientInv
<1>12. ClientInv'
  BY <1>1, <1>2, <1>6, <1>9, <1>11, OutsideStep
<1>13. BindingFits'
  BY <1>1, <1>8, <1>10 DEF BindingFits, Fits
<1>14. ShapeInv'
  BY <1>1, <1>2 DEF ShapeInv, clientVars
<1> QED BY <1>6, <1>12, <1>13, <1>14 DEF GovernanceInv

-----------------------------------------------------------------------------
(* The whole. *)

\* Nothing is under way in a store that starts.
LEMMA InvariantInit == Init => GovernanceInv
<1> SUFFICES ASSUME Init PROVE GovernanceInv
  OBVIOUS
<1>1. PICK start \in Start : file = [p \in Path |->
        IF p \in DOMAIN start THEN [content |-> start[p], rev |-> 1] ELSE NoFile]
  BY DEF Init
<1>2. /\ \A p \in DOMAIN start : start[p] # Absent
      /\ Log \in DOMAIN start => start[Log] \in [Ticket -> Status]
      /\ {Matrix(Implementation), Binding} \subseteq DOMAIN start =>
           BindingDiagnostics(start[Matrix(Implementation)], start[Binding]) = {}
  BY StartAssumption
<1>3. \A p \in Path : /\ p \in DOMAIN start => Content(p) = start[p] /\ file[p].rev = 1
                      /\ p \notin DOMAIN start => Content(p) = Absent /\ file[p].rev = 0
  BY <1>1 DEF Content, NoFile
<1>4. FileInv
  <2>1. DOMAIN file = Path /\ clock = 2
    BY <1>1 DEF Init
  <2>2. \A p \in Path : file[p].rev \in 0..1 /\ (file[p].rev = 0 <=> ~ Exists(p))
    BY <1>2, <1>3 DEF Exists
  <2>3. Exists(Log) => Content(Log) \in [Ticket -> Status]
    BY <1>2, <1>3, PathsExist DEF Exists
  <2> QED BY <2>1, <2>2, <2>3 DEF FileInv
<1>5. ShapeInv
  BY DEF Init, ShapeInv, NoLocks
<1>6. ClientInv
  <2>1. \A c \in Client : /\ pc[c] = "idle" /\ held[c] = FALSE /\ receipts[c] = <<>>
                          /\ preview[c] = None /\ permit[c] = None
    BY DEF Init
  <2>2. \A c \in Client : LocksOK(c) /\ PreviewOK(c) /\ WorkOK(c) /\ PermitOK(c)
    BY <2>1 DEF LocksOK, PreviewOK, WorkOK, PermitOK, Working
  <2>3. \A c, d \in Client : Apart(c, d)
    BY <2>1 DEF Apart
  <2> QED BY <2>2, <2>3 DEF ClientInv
<1>7. BindingFits
  <2>1. Matrix(Implementation) \in Path /\ Binding \in Path
    BY PathsExist, RequestAssumption
  <2>2. CASE {Matrix(Implementation), Binding} \subseteq DOMAIN start
    BY <1>2, <1>3, <2>1, <2>2 DEF BindingFits
  <2>3. CASE ~ {Matrix(Implementation), Binding} \subseteq DOMAIN start
    <3>1. Absent \in {Content(Matrix(Implementation)), Content(Binding)}
      BY <1>3, <2>1, <2>3
    <3> QED BY <3>1 DEF BindingFits, BindingDiagnostics
  <2> QED BY <2>2, <2>3
<1> QED BY <1>4, <1>5, <1>6, <1>7 DEF GovernanceInv

\* Every step of the store keeps it in order.
LEMMA InvariantNext == GovernanceInv /\ [Next]_vars => GovernanceInv'
<1> SUFFICES ASSUME GovernanceInv, [Next]_vars PROVE GovernanceInv'
  OBVIOUS
<1>1. ASSUME NEW c \in Client, Operate(c) PROVE GovernanceInv'
  BY <1>1, PreviewStep, StartsStep, AcquireStep, ReturnsStep, CheckPassedStep, PermitStep,
     PublishStep, TurnsBackStep, RestoreStep, RestoreFailsStep, CrashStep DEF Operate
<1>2. CASE UNCHANGED vars
  <2>1. FileInv /\ ShapeInv /\ ClientInv /\ BindingFits
    BY DEF GovernanceInv
  <2>2. UNCHANGED <<file, clock, clientVars, preview, permit, torn>>
    BY <1>2 DEF vars
  <2>3. FileInv' /\ Remembered
    BY <2>1, <2>2, FileStutter DEF Remembered, KnownNext, Known, Content
  <2>4. \A d \in Client : Undisturbed(d) /\ PermitOK(d)'
    <3>1. Content(Log)' = Content(Log) /\ Content(Binding)' = Content(Binding)
      BY <2>2 DEF Content
    <3> QED BY <2>1, <2>2, <3>1, QuietUndisturbed, PermitKept DEF ClientInv
  <2>5. ClientInv'
    BY <2>1, <2>2, <2>3, <2>4, OutsideStep
  <2>6. ShapeInv' /\ BindingFits'
    BY <2>1, <2>2 DEF ShapeInv, clientVars, BindingFits, Content
  <2> QED BY <2>3, <2>5, <2>6 DEF GovernanceInv
<1> QED BY <1>1, <1>2, AdvanceStep, EditStep DEF Next, Finished

\* What the clients rely on between their checks and their answers holds throughout: whatever a
\* client works with is locked, what a preview read is what is in place where the revision says
\* so, and a binding that is about to be written is written while no ticket is active
\* (apply_strategy_transition_ref,
\* apply_writer_binding_ref).
THEOREM GovernanceInvariant == Spec => []GovernanceInv
<1> QED BY InvariantInit, InvariantNext, PTL DEF Spec

\* The binding in place always applies to the implementation matrix in place, whichever of the
\* two is replaced, put back after a failure, edited or removed.
THEOREM BindingAlwaysFits == Spec => []BindingFits
<1>1. GovernanceInv => BindingFits
  BY DEF GovernanceInv
<1> QED BY <1>1, GovernanceInvariant, PTL

\* A writer that may be spawned for a ticket keeps the binding it was permitted under as long as
\* the ticket is active (ensure_binding_inactive).
THEOREM PermitsKeepBinding == Spec => []PermitKeepsBinding
<1>1. GovernanceInv => PermitKeepsBinding
  BY DEF GovernanceInv, ClientInv, PermitOK, PermitKeepsBinding
<1> QED BY <1>1, GovernanceInvariant, PTL

-----------------------------------------------------------------------------
(* Files under way, and records. *)

\* What a file has under way when a client drops its last receipt.
LEMMA BusyDropped ==
  ASSUME GovernanceInv, NEW c \in Client, receipts[c] # <<>>, pc[c] \in Working, DropReceipt(c),
         UNCHANGED preview
  PROVE  /\ Busy(Last(receipts[c]).path)
         /\ \A q : q # Last(receipts[c]).path => (Busy(q)' <=> Busy(q))
         /\ \A q : ~ Busy(q) => ~ Busy(q)'
<1> DEFINE s == receipts[c]
           t == SubSeq(s, 1, Len(s) - 1)
<1>1. receipts' = [receipts EXCEPT ![c] = t] /\ DOMAIN receipts = Client
  BY DEF DropReceipt, GovernanceInv, ShapeInv
<1>2. receipts'[c] = t /\ \A d \in Client \ {c} : receipts'[d] = receipts[d]
  BY <1>1
<1>3. s \in Seq(Receipt(c))
  BY WorkPlan DEF ReceiptsOK
<1>4. Len(s) \in Nat /\ Len(s) # 0 /\ DOMAIN s = 1..Len(s) /\ Last(s) = s[Len(s)]
  BY <1>3, EmptySeq, LenProperties DEF Last
<1>5. /\ DOMAIN t = 1..(Len(s) - 1)
      /\ \A i \in 1..(Len(s) - 1) : t[i] = s[i]
  <2> HIDE DEF s
  <2>1. /\ t \in Seq(Receipt(c)) /\ Len(t) = Len(s) - 1
        /\ \A i \in 1..(Len(s) - 1) : t[i] = s[i]
    BY <1>3, AllButLast, EmptySeq DEF s
  <2> HIDE DEF t
  <2> QED BY <2>1, LenProperties
<1> HIDE DEF s, t
<1>6. Busy(Last(s).path)
  BY <1>4 DEF Busy, s
<1>7. ASSUME NEW q, Busy(q)' PROVE Busy(q)
  <2>1. PICK d \in Client : \E i \in DOMAIN receipts'[d] : receipts'[d][i].path = q
    BY <1>7 DEF Busy
  <2>2. CASE d = c
    <3>1. PICK i \in DOMAIN t : t[i].path = q
      BY <1>2, <2>1, <2>2
    <3>2. i \in DOMAIN s /\ s[i].path = q
      BY <1>4, <1>5, <3>1
    <3> QED BY <3>2 DEF Busy, s
  <2>3. CASE d # c
    BY <1>2, <2>1, <2>3 DEF Busy
  <2> QED BY <2>2, <2>3
<1>8. ASSUME NEW q, Busy(q), q # Last(s).path PROVE Busy(q)'
  <2>1. PICK d \in Client : \E i \in DOMAIN receipts[d] : receipts[d][i].path = q
    BY <1>8 DEF Busy
  <2>2. CASE d = c
    <3>1. PICK i \in DOMAIN s : s[i].path = q
      BY <2>1, <2>2 DEF s
    <3>2. i \in DOMAIN t /\ t[i].path = q
      BY <1>4, <1>5, <1>8, <3>1
    <3> QED BY <1>2, <3>2 DEF Busy
  <2>3. CASE d # c
    BY <1>2, <2>1, <2>3 DEF Busy
  <2> QED BY <2>2, <2>3
<1> QED BY <1>6, <1>7, <1>8 DEF s

\* What a file has under way when a client returns.
LEMMA BusyReturned ==
  ASSUME GovernanceInv, NEW c \in Client, NEW answer, Return(c, answer)
  PROVE  /\ \A q : ~ Busy(q) => ~ Busy(q)'
         /\ \A q : Busy(q) => Busy(q)' \/ \E i \in DOMAIN receipts[c] : receipts[c][i].path = q
<1>1. /\ receipts'[c] = <<>> /\ \A d \in Client \ {c} : receipts'[d] = receipts[d]
  BY DEF Return, GovernanceInv, ShapeInv
<1>2. DOMAIN receipts'[c] = {}
  BY <1>1
<1>3. ASSUME NEW q, Busy(q)' PROVE Busy(q)
  BY <1>1, <1>2, <1>3 DEF Busy
<1>4. ASSUME NEW q, Busy(q), ~ \E i \in DOMAIN receipts[c] : receipts[c][i].path = q
      PROVE  Busy(q)'
  <2>1. PICK d \in Client : \E i \in DOMAIN receipts[d] : receipts[d][i].path = q
    BY <1>4 DEF Busy
  <2>2. d # c
    BY <1>4, <2>1
  <2> QED BY <1>1, <2>1, <2>2 DEF Busy
<1> QED BY <1>3, <1>4

\* What a client does that writes a file: it writes one of its own targets, which is no record
\* outside a transaction, and has it under way from then on.
LEMMA PublishDoes ==
  ASSUME GovernanceInv, NEW c \in Client, Publish(c)
  PROVE  \E p \in Path :
           /\ pc[c] = "publish" /\ task[c] \in Request /\ preview[c].request = task[c]
           /\ PlanOK(preview[c]) /\ p \in ToSet(Targets(task[c]))
           /\ \E i \in 1..Len(preview[c].writes) : preview[c].writes[i] = p
           /\ file'[p].content = preview[c].changes[p]
           /\ \A q \in Path \ {p} : file'[q] = file[q]
           /\ \A q : Busy(q)' <=> Busy(q) \/ q = p
           /\ \A id \in OpId : Exists(History(id)) /\ ~ Busy(History(id)) => p # History(id)
<1>1. PICK p : p = preview[c].writes[Len(receipts[c]) + 1]
  OBVIOUS
<1>2. PICK e : e = [path |-> p, prior |-> preview[c].inputs[p].content, rev |-> clock]
  OBVIOUS
<1>3. /\ pc[c] = "publish" /\ pc[c] \in Working /\ Len(receipts[c]) < Len(preview[c].writes)
      /\ file' = [file EXCEPT ![p] = Written(preview[c].changes[p])]
      /\ receipts' = [receipts EXCEPT ![c] = Append(receipts[c], e)] /\ clock' = clock + 1
  BY <1>1, <1>2 DEF Publish, At, Working
<1>4. /\ task[c] \in Request /\ preview[c].request = task[c] /\ PlanOK(preview[c])
      /\ preview[c].writes \in Seq(Path) /\ ReceiptsOK(c)
      /\ \A i \in 1..Len(preview[c].writes) : preview[c].writes[i] \in ToSet(Targets(task[c]))
  BY <1>3, WorkPlan
<1>5. PICK i \in 1..Len(preview[c].writes) : p = preview[c].writes[i]
  <2>1. Len(receipts[c]) \in Nat /\ Len(preview[c].writes) \in Nat
    BY <1>4 DEF ReceiptsOK
  <2> QED BY <1>1, <1>3, <2>1
<1>6. PICK r \in Request : r = task[c]
  BY <1>4
<1>7. p \in ToSet(Targets(r)) /\ p \in Path /\ p # Log
  BY <1>4, <1>5, <1>6, TargetKind
<1>8. file'[p].content = preview[c].changes[p] /\ \A q \in Path \ {p} : file'[q] = file[q]
  <2>1. FileInv
    BY DEF GovernanceInv
  <2>2. PICK content : content = preview[c].changes[p]
    OBVIOUS
  <2>3. file' = [file EXCEPT ![p] = Written(content)]
    BY <1>3, <2>2
  <2> QED BY <1>3, <1>7, <2>1, <2>2, <2>3, FileStep DEF Content
<1> DEFINE s == receipts[c]
<1>9. /\ DOMAIN receipts'[c] = 1..(Len(s) + 1) /\ DOMAIN s = 1..Len(s) /\ Len(s) \in Nat
      /\ \A k \in 1..Len(s) : receipts'[c][k] = s[k]
      /\ receipts'[c][Len(s) + 1] = e
  <2>1. receipts'[c] = Append(s, e)
    BY <1>3 DEF GovernanceInv, ShapeInv
  <2>2. \E R : s \in Seq(R)
    BY <1>4 DEF ReceiptsOK
  <2> HIDE DEF s
  <2>3. PICK R : s \in Seq(R)
    BY <2>2
  <2>4. s \in Seq(R \cup {e}) /\ e \in R \cup {e}
    BY <2>3
  <2>5. /\ Append(s, e) \in Seq(R \cup {e}) /\ Len(Append(s, e)) = Len(s) + 1
        /\ \A k \in 1..Len(s) : Append(s, e)[k] = s[k]
        /\ Append(s, e)[Len(s) + 1] = e
    BY <2>4, AppendProperties
  <2> QED BY <2>1, <2>4, <2>5, LenProperties
<1>10. \A d \in Client \ {c} : receipts'[d] = receipts[d]
  BY <1>3 DEF GovernanceInv, ShapeInv
<1> HIDE DEF s
<1>11. ASSUME NEW q PROVE Busy(q)' <=> Busy(q) \/ q = p
  <2>1. ASSUME Busy(q)' PROVE Busy(q) \/ q = p
    <3>1. PICK d \in Client : \E k \in DOMAIN receipts'[d] : receipts'[d][k].path = q
      BY <2>1 DEF Busy
    <3>2. CASE d = c
      <4>1. PICK k \in DOMAIN receipts'[c] : receipts'[c][k].path = q
        BY <3>1, <3>2
      <4>2. CASE k = Len(s) + 1
        BY <1>2, <1>9, <4>1, <4>2
      <4>3. CASE k \in 1..Len(s)
        BY <1>9, <4>1, <4>3 DEF Busy, s
      <4> QED BY <1>9, <4>1, <4>2, <4>3
    <3>3. CASE d # c
      BY <1>10, <3>1, <3>3 DEF Busy
    <3> QED BY <3>2, <3>3
  <2>2. ASSUME Busy(q) PROVE Busy(q)'
    <3>1. PICK d \in Client : \E k \in DOMAIN receipts[d] : receipts[d][k].path = q
      BY <2>2 DEF Busy
    <3>2. CASE d = c
      <4>1. PICK k \in DOMAIN s : s[k].path = q
        BY <3>1, <3>2 DEF s
      <4>2. k \in DOMAIN receipts'[c] /\ receipts'[c][k].path = q
        BY <1>9, <4>1
      <4> QED BY <4>2 DEF Busy
    <3>3. CASE d # c
      BY <1>10, <3>1, <3>3 DEF Busy
    <3> QED BY <3>2, <3>3
  <2>3. ASSUME q = p PROVE Busy(q)'
    <3>1. Len(s) + 1 \in DOMAIN receipts'[c] /\ receipts'[c][Len(s) + 1].path = q
      BY <1>2, <1>9, <2>3
    <3> QED BY <3>1 DEF Busy
  <2> QED BY <2>1, <2>2, <2>3
<1>12. ASSUME NEW id \in OpId, Exists(History(id)), ~ Busy(History(id)) PROVE p # History(id)
  <2> SUFFICES ASSUME p = History(id) PROVE FALSE
    OBVIOUS
  <2>1. r.op = "select" /\ r.id = id
    BY <1>7, TargetKind
  <2>2. preview[c].inputs[History(id)].content = Absent
    BY <1>4, <1>5, <1>6, <2>1 DEF PlanOK
  <2>3. \A k \in 1..Len(s) : s[k].path # History(id)
    BY <1>9, <1>12 DEF Busy, s
  <2>4. RecordOK(c)
    BY <1>3, <1>6, <2>1 DEF GovernanceInv, ClientInv, WorkOK
  <2> QED BY <1>6, <1>12, <2>1, <2>2, <2>3, <2>4 DEF RecordOK, Exists, s
<1> QED BY <1>3, <1>4, <1>5, <1>6, <1>7, <1>8, <1>11, <1>12

\* What a client does that puts a file back: it is one it has under way, and gets what the
\* preview read of it.
LEMMA RestoreDoes ==
  ASSUME GovernanceInv, NEW c \in Client, Restore(c)
  PROVE  \E p \in Path :
           /\ pc[c] = "rollback" /\ task[c] \in Request /\ preview[c].request = task[c]
           /\ PlanOK(preview[c]) /\ p \in ToSet(Targets(task[c]))
           /\ \E i \in 1..Len(preview[c].writes) : preview[c].writes[i] = p
           /\ file'[p].content = preview[c].inputs[p].content
           /\ \A q \in Path \ {p} : file'[q] = file[q]
           /\ Busy(p)
           /\ \A q : q # p => (Busy(q)' <=> Busy(q))
           /\ \A q : ~ Busy(q) => ~ Busy(q)'
<1>1. PICK p : p = Last(receipts[c]).path
  OBVIOUS
<1>2. PICK content : content = Last(receipts[c]).prior
  OBVIOUS
<1>3. /\ pc[c] = "rollback" /\ pc[c] \in Working /\ receipts[c] # <<>> /\ DropReceipt(c)
      /\ file' = [file EXCEPT ![p] = Written(content)] /\ clock' = clock + 1
      /\ UNCHANGED preview
  BY <1>1, <1>2 DEF Restore, At, Working
<1>4. /\ task[c] \in Request /\ preview[c].request = task[c] /\ PlanOK(preview[c])
      /\ preview[c].writes \in Seq(Path) /\ ReceiptsOK(c)
      /\ \A i \in 1..Len(preview[c].writes) : preview[c].writes[i] \in ToSet(Targets(task[c]))
  BY <1>3, WorkPlan
<1>5. PICK i \in 1..Len(preview[c].writes) :
        p = preview[c].writes[i] /\ content = preview[c].inputs[p].content
  BY <1>1, <1>2, <1>3, <1>4, ReceiptDropped DEF GovernanceInv
<1>6. PICK r \in Request : r = task[c]
  BY <1>4
<1>7. p \in ToSet(Targets(r)) /\ p \in Path /\ p # Log
  BY <1>4, <1>5, <1>6, TargetKind
<1>8. file'[p].content = content /\ \A q \in Path \ {p} : file'[q] = file[q]
  BY <1>3, <1>7, FileStep DEF Content, GovernanceInv
<1>9. /\ Busy(p)
      /\ \A q : q # p => (Busy(q)' <=> Busy(q))
      /\ \A q : ~ Busy(q) => ~ Busy(q)'
  BY <1>1, <1>3, BusyDropped
<1> QED BY <1>3, <1>4, <1>5, <1>6, <1>7, <1>8, <1>9

\* Every other step of a client leaves the files alone, and gets none under way.
LEMMA OtherDoes ==
  ASSUME GovernanceInv, NEW c \in Client, Operate(c), ~ Publish(c), ~ Restore(c)
  PROVE  UNCHANGED file /\ \A q : ~ Busy(q) => ~ Busy(q)'
<1>1. UNCHANGED file
  BY
  DEF Operate, Preview, Apply, RequireWriter, Begin, Acquire, CheckStale, CheckRefused, CheckNoOp,
      CheckPassed, Permit, Deny, PublishFails, Verify, VerifyFails, RestoreFails, FinishRollback,
      Fails, Crash
<1>2. \/ UNCHANGED receipts
      \/ \E answer : Return(c, answer)
      \/ RestoreFails(c)
  BY
  DEF Operate, Preview, Apply, RequireWriter, Begin, Acquire, CheckStale, CheckRefused, CheckNoOp,
      CheckPassed, Permit, Deny, PublishFails, Verify, VerifyFails, FinishRollback, Fails, Crash
<1>3. CASE UNCHANGED receipts
  BY <1>1, <1>3 DEF Busy
<1>4. CASE \E answer : Return(c, answer)
  BY <1>1, <1>4, BusyReturned
<1>5. CASE RestoreFails(c)
  <2>1. receipts[c] # <<>> /\ pc[c] \in Working /\ DropReceipt(c) /\ UNCHANGED preview
    BY <1>5 DEF RestoreFails, At, Working
  <2> QED BY <1>1, <2>1, BusyDropped
<1> QED BY <1>2, <1>3, <1>4, <1>5

\* A record outside a transaction is not written, not removed and not taken under way.
LEMMA RecordStep ==
  ASSUME GovernanceInv, [Next]_vars, NEW id \in OpId, Exists(History(id)), ~ Busy(History(id))
  PROVE  file'[History(id)].content = file[History(id)].content /\ ~ Busy(History(id))'
<1>1. History(id) \in Path
  BY PathsExist
<1>2. ASSUME NEW c \in Client, Operate(c)
      PROVE  file'[History(id)].content = file[History(id)].content /\ ~ Busy(History(id))'
  <2>1. CASE Publish(c)
    BY <1>1, <2>1, PublishDoes
  <2>2. CASE Restore(c)
    BY <1>1, <2>2, RestoreDoes
  <2> QED BY <1>2, <2>1, <2>2, OtherDoes
<1>3. ASSUME Advance \/ Edit \/ UNCHANGED vars
      PROVE  file'[History(id)].content = file[History(id)].content /\ ~ Busy(History(id))'
  <2>1. UNCHANGED receipts
    BY <1>3 DEF Advance, Edit, vars, clientVars
  <2>2. \/ UNCHANGED file
        \/ \E p \in {Log} \cup { Matrix(phase) : phase \in Phase } :
             \E version : file' = [file EXCEPT ![p] = version]
    BY <1>3 DEF Advance, Edit, vars
  <2>3. file'[History(id)] = file[History(id)]
    BY <1>1, <2>2, PathsDiffer DEF GovernanceInv, FileInv
  <2> QED BY <2>1, <2>3 DEF Busy
<1> QED BY <1>2, <1>3 DEF Next, Finished

\* A transition record, once its transaction is over, is neither rewritten nor removed, whatever
\* asks for its identity again (transition_matches_request).
THEOREM RecordsStayAsWritten == Spec => RecordsStay
<1>1. GovernanceInv /\ [Next]_vars =>
        [\A id \in OpId : Exists(History(id)) /\ ~ Busy(History(id)) =>
           Content(History(id))' = Content(History(id))]_vars
  BY RecordStep DEF Content
<1> QED BY <1>1, GovernanceInvariant, PTL DEF Spec, RecordsStay

-----------------------------------------------------------------------------
(* Matrices and the records of their selection. *)

\* Some record outside a transaction says that this matrix was selected.
Settled(m) ==
  \E id \in OpId : /\ Exists(History(id)) /\ ~ Busy(History(id))
                   /\ Content(History(id)).selected = m

\* What a matrix file may say outside a transaction.
Recorded(p, content) ==
  \/ p \in torn \/ content = Absent
  \/ \A r \in Selections : r.matrix # content.matrix
  \/ Settled(content.matrix)

MatricesRecorded ==
  \A phase \in Phase : Busy(Matrix(phase)) \/ Recorded(Matrix(phase), Content(Matrix(phase)))

\* A phase is selected for the first time once.
SelectedFirstOnce ==
  \A i, j \in { id \in OpId : Exists(History(id)) /\ Content(History(id)).first } :
    Content(History(i)).phase = Content(History(j)).phase => i = j

\* The record that a selection writes is the only one of its phase.
OnlyOfPhase(r) ==
  \A id \in OpId \ {r.id} :
    Exists(History(id)) => Content(History(id)).phase # r.matrix.phase

WritesRecord(p) == \E i \in 1..Len(p.writes) : p.writes[i] = History(p.request.id)

\* A selection that is being published writes a matrix and a record of it, and may put back a
\* matrix that is recorded.
SelectionOK(c) ==
  LET r == task[c]
      record == preview[c].changes[History(r.id)]
  IN  pc[c] \in Working /\ r.op = "select" =>
        /\ DOMAIN preview[c].changes = {Matrix(r.matrix.phase), History(r.id)}
        /\ record # Absent /\ record.selected = r.matrix
        /\ Recorded(Matrix(r.matrix.phase), preview[c].inputs[Matrix(r.matrix.phase)].content)
        /\ pc[c] = "publish" /\ WritesRecord(preview[c]) =>
             /\ record.phase = r.matrix.phase
             /\ record.first => OnlyOfPhase(r)

RecordingInv == MatricesRecorded /\ SelectedFirstOnce /\ \A c \in Client : SelectionOK(c)

\* In a store that starts nothing is under way.
LEMMA RecordingInit == Init /\ SelectionRecorded => RecordingInv
<1> SUFFICES ASSUME Init, SelectionRecorded PROVE RecordingInv
  OBVIOUS
<1>1. \A c \in Client : receipts[c] = <<>> /\ pc[c] = "idle"
  BY DEF Init
<1>2. \A p : ~ Busy(p)
  BY <1>1 DEF Busy
<1>3. MatricesRecorded
  BY <1>2 DEF SelectionRecorded, MatricesRecorded, Recorded, Settled, Exists
<1>4. SelectedFirstOnce
  BY DEF SelectionRecorded, SelectedFirstOnce
<1>5. \A c \in Client : SelectionOK(c)
  BY <1>1 DEF SelectionOK, Working
<1> QED BY <1>3, <1>4, <1>5 DEF RecordingInv

\* The strengthening says more than the property.
LEMMA RecordingShows == RecordingInv => SelectionRecorded
<1> SUFFICES ASSUME RecordingInv PROVE SelectionRecorded
  OBVIOUS
<1>1. ASSUME NEW phase \in Phase
      PROVE  \/ Busy(Matrix(phase)) \/ Matrix(phase) \in torn \/ ~ Exists(Matrix(phase))
             \/ \A r \in Selections : r.matrix # Content(Matrix(phase)).matrix
             \/ \E id \in OpId : /\ Exists(History(id))
                                /\ Content(History(id)).selected = Content(Matrix(phase)).matrix
  BY DEF RecordingInv, MatricesRecorded, Recorded, Settled, Exists
<1>2. SelectedFirstOnce
  BY DEF RecordingInv
<1> QED BY <1>1, <1>2 DEF SelectionRecorded, SelectedFirstOnce

\* Nobody has under way what another one has locked.
LEMMA OthersKeepOff ==
  ASSUME GovernanceInv, NEW c \in Client, held[c], NEW d \in Client, d # c
  PROVE  \A i \in DOMAIN receipts[d] : receipts[d][i].path \notin want[c].keys
<1>1. CASE pc[d] \in Working
  <2>1. /\ ReceiptsOK(d) /\ held[d] /\ want[d].excl = ToSet(Targets(task[d]))
        /\ ToSet(Targets(task[d])) \subseteq want[d].keys /\ preview[d].writes \in Seq(Path)
        /\ \A i \in 1..Len(preview[d].writes) : preview[d].writes[i] \in ToSet(Targets(task[d]))
    BY <1>1, WorkPlan
  <2>2. Apart(c, d)
    BY DEF GovernanceInv, ClientInv
  <2>3. ASSUME NEW i \in DOMAIN receipts[d] PROVE receipts[d][i].path \in want[d].excl
    <3>1. DOMAIN receipts[d] = 1..Len(receipts[d]) /\ Len(receipts[d]) \in Nat
      BY <2>1 DEF ReceiptsOK
    <3>2. Len(preview[d].writes) \in Nat /\ Len(receipts[d]) <= Len(preview[d].writes)
      BY <2>1 DEF ReceiptsOK
    <3>3. i \in 1..Len(preview[d].writes)
      BY <3>1, <3>2
    <3>4. receipts[d][i].path = preview[d].writes[i]
      BY <2>1, <3>1 DEF ReceiptsOK
    <3> QED BY <2>1, <3>3, <3>4
  <2> QED BY <2>1, <2>2, <2>3 DEF Apart
<1>2. CASE pc[d] \notin Working
  BY <1>2 DEF GovernanceInv, ClientInv, LocksOK
<1> QED BY <1>1, <1>2

\* No step forgets what was cut off.
LEMMA TornStays ==
  ASSUME [Next]_vars
  PROVE  torn \subseteq torn'
<1>1. ASSUME NEW c \in Client, Operate(c) PROVE torn \subseteq torn'
  BY <1>1
  DEF Operate, Preview, Apply, RequireWriter, Begin, Acquire, CheckStale, CheckRefused, CheckNoOp,
      CheckPassed, Permit, Deny, Publish, PublishFails, Verify, VerifyFails, Restore, RestoreFails,
      FinishRollback, Fails, Crash
<1>2. Advance \/ Edit \/ UNCHANGED vars => torn \subseteq torn'
  BY DEF Advance, Edit, vars
<1> QED BY <1>1, <1>2 DEF Next, Finished

\* What is recorded stays recorded.
LEMMA RecordedStays ==
  ASSUME GovernanceInv, [Next]_vars, NEW p, NEW content, Recorded(p, content)
  PROVE  Recorded(p, content)'
<1>1. CASE Settled(content.matrix)
  <2>1. PICK id \in OpId : /\ Exists(History(id)) /\ ~ Busy(History(id))
                           /\ Content(History(id)).selected = content.matrix
    BY <1>1 DEF Settled
  <2>2. file'[History(id)].content = file[History(id)].content /\ ~ Busy(History(id))'
    BY <2>1, RecordStep
  <2> QED BY <2>1, <2>2 DEF Recorded, Settled, Exists, Content
<1>2. CASE p \in torn \/ content = Absent \/ \A r \in Selections : r.matrix # content.matrix
  BY <1>2, TornStays DEF Recorded
<1> QED BY <1>1, <1>2 DEF Recorded

\* The copy of a matrix is recorded where the matrix is.
LEMMA RecordedCopy ==
  ASSUME NEW p, NEW content, NEW copy, Recorded(p, content), content # Absent,
         copy = Absent \/ copy.matrix = content.matrix
  PROVE  Recorded(p, copy)
BY DEF Recorded

\* The plan of a client that does not advance stays in order, as long as nobody writes another
\* record of its phase.
LEMMA SelectionKept ==
  ASSUME GovernanceInv, [Next]_vars, NEW d \in Client, SelectionOK(d),
         pc'[d] \in Working => pc[d] \in Working,
         pc'[d] = "publish" => pc[d] = "publish",
         pc'[d] \in Working => task'[d] = task[d] /\ preview'[d] = preview[d],
         pc[d] \in Working =>
           \A id \in OpId : task[d].op = "select" /\ id # task[d].id =>
             \/ file'[History(id)].content \in {Absent, file[History(id)].content}
             \/ file'[History(id)].content.phase # task[d].matrix.phase
  PROVE  SelectionOK(d)'
<1> SUFFICES ASSUME pc'[d] \in Working PROVE SelectionOK(d)'
  BY DEF SelectionOK
<1>1. PICK r : r = task[d] /\ r = task'[d]
  OBVIOUS
<1>2. PICK plan : plan = preview[d] /\ plan = preview'[d]
  OBVIOUS
<1> SUFFICES ASSUME r.op = "select" PROVE SelectionOK(d)'
  BY <1>1 DEF SelectionOK
<1>3. /\ DOMAIN plan.changes = {Matrix(r.matrix.phase), History(r.id)}
      /\ plan.changes[History(r.id)] # Absent /\ plan.changes[History(r.id)].selected = r.matrix
      /\ Recorded(Matrix(r.matrix.phase), plan.inputs[Matrix(r.matrix.phase)].content)
      /\ pc[d] = "publish" /\ WritesRecord(plan) =>
           /\ plan.changes[History(r.id)].phase = r.matrix.phase
           /\ plan.changes[History(r.id)].first => OnlyOfPhase(r)
  BY <1>1, <1>2 DEF SelectionOK
<1>4. Recorded(Matrix(r.matrix.phase), plan.inputs[Matrix(r.matrix.phase)].content)'
  <2>1. PICK content : content = plan.inputs[Matrix(r.matrix.phase)].content
    OBVIOUS
  <2>2. PICK p : p = Matrix(r.matrix.phase)
    OBVIOUS
  <2>3. Recorded(p, content)'
    BY <1>3, <2>1, <2>2, RecordedStays
  <2> QED BY <2>1, <2>2, <2>3
<1>5. OnlyOfPhase(r) => OnlyOfPhase(r)'
  <2> SUFFICES ASSUME OnlyOfPhase(r), NEW id \in OpId \ {r.id},
                      file'[History(id)].content # Absent
               PROVE  file'[History(id)].content.phase # r.matrix.phase
    BY DEF OnlyOfPhase, Exists, Content
  <2>1. CASE file'[History(id)].content = file[History(id)].content
    BY <2>1 DEF OnlyOfPhase, Exists, Content
  <2> QED BY <1>1, <2>1
<1> QED BY <1>1, <1>2, <1>3, <1>4, <1>5 DEF SelectionOK

\* A step of one client is none of the others', and takes its own plan on only after its check.
LEMMA PlansOfClients ==
  ASSUME GovernanceInv, NEW c \in Client, Operate(c), NEW d \in Client,
         d # c \/ ~ CheckPassed(c)
  PROVE  /\ pc'[d] \in Working =>
              pc[d] \in Working /\ task'[d] = task[d] /\ preview'[d] = preview[d]
         /\ pc'[d] = "publish" => pc[d] = "publish"
<1>1. ShapeInv
  BY DEF GovernanceInv
<1>2. CASE d = c
  <2>1. CASE Preview(c)
    BY <1>2, <2>1 DEF Preview, At, Working
  <2>2. CASE Apply(c) \/ RequireWriter(c)
    BY <1>1, <1>2, <2>2 DEF ShapeInv, Apply, RequireWriter, Begin, Goto, Working
  <2>3. CASE Acquire(c)
    BY <1>1, <1>2, <2>3 DEF ShapeInv, Acquire, Goto, Working
  <2>4. CASE \E answer : Return(c, answer)
    BY <1>1, <1>2, <2>4 DEF ShapeInv, Return, Goto, Working
  <2>5. CASE Publish(c) \/ PublishFails(c) \/ VerifyFails(c) \/ Restore(c) \/ RestoreFails(c)
    BY <1>1, <1>2, <2>5
    DEF ShapeInv, Publish, PublishFails, VerifyFails, Restore, RestoreFails, Goto, At, Working
  <2>6. \/ Preview(c) \/ Apply(c) \/ RequireWriter(c) \/ Acquire(c)
        \/ \E answer : Return(c, answer)
        \/ Publish(c) \/ PublishFails(c) \/ VerifyFails(c) \/ Restore(c) \/ RestoreFails(c)
    BY <1>2
    DEF Operate, CheckStale, CheckRefused, CheckNoOp, Permit, Deny, Verify, FinishRollback, Fails,
        Crash
  <2> QED BY <2>1, <2>2, <2>3, <2>4, <2>5, <2>6
<1>3. CASE d # c
  <2>1. \A label : Goto(c, label) => pc'[d] = pc[d]
    BY <1>1, <1>3 DEF ShapeInv, Goto
  <2>2. CASE Preview(c)
    BY <1>1, <1>3, <2>2 DEF ShapeInv, Preview
  <2>3. CASE Apply(c) \/ RequireWriter(c)
    BY <1>1, <1>3, <2>1, <2>3 DEF ShapeInv, Apply, RequireWriter, Begin
  <2>4. ASSUME NEW answer, Return(c, answer), UNCHANGED preview
        PROVE  pc'[d] = pc[d] /\ task'[d] = task[d] /\ preview'[d] = preview[d]
    BY <1>1, <1>3, <2>1, <2>4 DEF ShapeInv, Return
  <2>5. CASE \/ Acquire(c) \/ CheckPassed(c) \/ Publish(c) \/ PublishFails(c) \/ VerifyFails(c)
             \/ Restore(c) \/ RestoreFails(c)
    BY <2>1, <2>5
    DEF Acquire, CheckPassed, Publish, PublishFails, VerifyFails, Restore, RestoreFails
  <2>6. CASE \/ CheckStale(c) \/ CheckRefused(c) \/ CheckNoOp(c) \/ Permit(c) \/ Deny(c)
             \/ Verify(c) \/ FinishRollback(c) \/ Fails(c) \/ Crash(c)
    <3>1. UNCHANGED preview /\ \E answer : Return(c, answer)
      BY <2>6
      DEF CheckStale, CheckRefused, CheckNoOp, Permit, Deny, Verify, FinishRollback, Fails, Crash
    <3> QED BY <2>4, <3>1
  <2> QED BY <2>2, <2>3, <2>5, <2>6 DEF Operate
<1> QED BY <1>2, <1>3

\* Only a publication makes a record.
LEMMA RecordsFall ==
  ASSUME GovernanceInv, NEW c \in Client, Operate(c), ~ Publish(c), NEW id \in OpId
  PROVE  file'[History(id)].content \in {Absent, file[History(id)].content}
<1>1. CASE Restore(c)
  <2>1. PICK p \in Path :
          /\ task[c] \in Request /\ preview[c].request = task[c] /\ PlanOK(preview[c])
          /\ p \in ToSet(Targets(task[c]))
          /\ \E i \in 1..Len(preview[c].writes) : preview[c].writes[i] = p
          /\ file'[p].content = preview[c].inputs[p].content
          /\ \A q \in Path \ {p} : file'[q] = file[q]
    BY <1>1, RestoreDoes
  <2>2. CASE p = History(id)
    <3>1. PICK r \in Request : r = task[c]
      BY <2>1
    <3>2. r.op = "select" /\ r.id = id
      BY <2>1, <2>2, <3>1, TargetKind
    <3> QED BY <2>1, <2>2, <3>1, <3>2 DEF PlanOK
  <2>3. CASE p # History(id)
    BY <2>1, <2>3, PathsExist
  <2> QED BY <2>2, <2>3
<1>2. CASE ~ Restore(c)
  BY <1>2, OtherDoes
<1> QED BY <1>1, <1>2

\* Two clients that work select for different phases.
LEMMA PhasesApart ==
  ASSUME GovernanceInv, NEW c \in Client, NEW d \in Client, c # d,
         pc[c] \in Working, pc[d] \in Working, task[c].op = "select", task[d].op = "select"
  PROVE  task[c].matrix.phase # task[d].matrix.phase
<1>1. PICK a : a = task[c]
  OBVIOUS
<1>2. PICK b : b = task[d]
  OBVIOUS
<1>3. /\ held[c] /\ ToSet(Targets(a)) \subseteq want[c].keys /\ want[c].excl = ToSet(Targets(a))
      /\ held[d] /\ ToSet(Targets(b)) \subseteq want[d].keys
  BY <1>1, <1>2, WorkPlan
<1>4. Matrix(a.matrix.phase) \in ToSet(Targets(a)) /\ Matrix(b.matrix.phase) \in ToSet(Targets(b))
  BY <1>1, <1>2, TargetsSet
<1>5. Apart(c, d)
  BY DEF GovernanceInv, ClientInv
<1> QED BY <1>1, <1>2, <1>3, <1>4, <1>5 DEF Apart

\* Whatever a client does, the plans of selections stay in order.
LEMMA SelectionsKept ==
  ASSUME GovernanceInv, RecordingInv, NEW c \in Client, Operate(c), NEW d \in Client,
         d # c \/ ~ CheckPassed(c)
  PROVE  SelectionOK(d)'
<1>1. [Next]_vars /\ SelectionOK(c) /\ SelectionOK(d)
  BY DEF Next, RecordingInv
<1>2. /\ pc'[d] \in Working => pc[d] \in Working /\ task'[d] = task[d] /\ preview'[d] = preview[d]
      /\ pc'[d] = "publish" => pc[d] = "publish"
  BY PlansOfClients
<1>3. ASSUME pc[d] \in Working, NEW id \in OpId, task[d].op = "select", id # task[d].id
      PROVE  \/ file'[History(id)].content \in {Absent, file[History(id)].content}
             \/ file'[History(id)].content.phase # task[d].matrix.phase
  <2>1. CASE ~ Publish(c)
    BY <2>1, RecordsFall
  <2>2. CASE Publish(c)
    <3>1. PICK p \in Path :
            /\ pc[c] = "publish" /\ task[c] \in Request /\ preview[c].request = task[c]
            /\ p \in ToSet(Targets(task[c]))
            /\ \E i \in 1..Len(preview[c].writes) : preview[c].writes[i] = p
            /\ file'[p].content = preview[c].changes[p]
            /\ \A q \in Path \ {p} : file'[q] = file[q]
      BY <2>2, PublishDoes
    <3>2. CASE p # History(id)
      BY <3>1, <3>2, PathsExist
    <3>3. CASE p = History(id)
      <4>1. PICK r \in Request : r = task[c]
        BY <3>1
      <4>2. r.op = "select" /\ r.id = id
        BY <3>1, <3>3, <4>1, TargetKind
      <4>3. c # d /\ pc[c] \in Working
        BY <1>3, <3>1, <4>1, <4>2 DEF Working
      <4>4. r.matrix.phase # task[d].matrix.phase
        BY <1>3, <4>1, <4>2, <4>3, PhasesApart
      <4>5. WritesRecord(preview[c])
        BY <3>1, <3>3, <4>1, <4>2 DEF WritesRecord
      <4>6. preview[c].changes[History(id)].phase = r.matrix.phase
        BY <1>1, <3>1, <4>1, <4>2, <4>3, <4>5 DEF SelectionOK
      <4> QED BY <3>1, <3>3, <4>4, <4>6
    <3> QED BY <3>2, <3>3
  <2> QED BY <2>1, <2>2
<1> QED BY <1>1, <1>2, <1>3, SelectionKept

\* What a selection proposes is a matrix and its record.
LEMMA SelectionPlan ==
  ASSUME NEW r \in Request, r.op = "select", SelectionPasses(r)
  PROVE  /\ DOMAIN Proposed(r) = {Matrix(r.matrix.phase), History(r.id)}
         /\ Proposed(r)[History(r.id)] # Absent
         /\ Proposed(r)[History(r.id)].selected = r.matrix
         /\ ~ Exists(History(r.id)) =>
              /\ Proposed(r)[History(r.id)].phase = r.matrix.phase
              /\ Proposed(r)[History(r.id)].first => OnlyOfPhase(r)
<1>1. /\ DOMAIN Proposed(r) = {Matrix(r.matrix.phase), History(r.id)}
      /\ Proposed(r)[History(r.id)] = ProposedRecord(r)
  BY DEF Proposed
<1>2. CASE Exists(History(r.id))
  BY <1>1, <1>2 DEF ProposedRecord, Exists, SelectionPasses, ReplayIsExact, RecordMatches
<1>3. CASE ~ Exists(History(r.id))
  <2>1. PICK record : record = FreshRecord(r) /\ record = Proposed(r)[History(r.id)]
    BY <1>1, <1>3 DEF ProposedRecord
  <2>2. record.phase = r.matrix.phase /\ record.selected = r.matrix
    BY <2>1 DEF FreshRecord
  <2>3. record.first = ~ Exists(Matrix(r.matrix.phase))
    BY <2>1 DEF FreshRecord
  <2>4. record.first => ~ Exists(Matrix(r.matrix.phase))
    BY <2>3, Zenon
  <2>5. record # Absent
    <3>1. r \in Selections /\ r.matrix.phase \in Phase
      BY RequestShape DEF Selections
    <3>2. record \in TransitionRecord
      BY <2>1, <3>1 DEF FreshRecord, Exists, TransitionRecord
    <3> QED BY <3>2, RecordAssumption
  <2>6. ~ Exists(Matrix(r.matrix.phase)) => OnlyOfPhase(r)
    BY DEF SelectionPasses, PriorAllowsSelection, Exists, OnlyOfPhase
  <2> QED BY <1>1, <1>3, <2>1, <2>2, <2>4, <2>5, <2>6
<1> QED BY <1>2, <1>3

\* A client that has passed its check has a plan in order: the matrix it replaces is nobody's who
\* works, and so is recorded, and the record it writes is the first of its phase if it says so.
LEMMA PlanMade ==
  ASSUME GovernanceInv, RecordingInv, NEW c \in Client, CheckPassed(c)
  PROVE  SelectionOK(c)'
<1>1. /\ UNCHANGED <<file, task, preview, held, receipts, torn>>
      /\ pc[c] = "check" /\ ~ IsWriter(task[c]) /\ AsPreviewed(c) /\ StillPasses(c)
  BY DEF CheckPassed, At
<1>2. /\ task[c] \in Request \cup WriterTask /\ Fixed(task[c]) \subseteq want[c].keys
      /\ held[c] /\ receipts[c] = <<>>
      /\ task[c] \in Request => preview[c] # None /\ preview[c].request = task[c]
  BY <1>1 DEF GovernanceInv, ClientInv, LocksOK, Working
<1>3. task[c] \in Request /\ preview[c] # None /\ preview[c].request = task[c]
  BY <1>1, <1>2, RequestShape DEF IsWriter
<1>4. PICK r \in Request : r = task[c] /\ r = task'[c]
  BY <1>1, <1>3
<1>5. PICK plan : plan = preview[c] /\ plan = preview'[c]
  BY <1>1
<1> SUFFICES ASSUME r.op = "select" PROVE SelectionOK(c)'
  BY <1>4 DEF SelectionOK
<1>6. SelectionPasses(r) /\ plan.changes = Proposed(r) /\ plan.request = r /\ PlanOK(plan)
  BY <1>1, <1>3, <1>4, <1>5 DEF StillPasses, Passes, GovernanceInv, ClientInv, PreviewOK
<1>7. \A p \in Fixed(r) : plan.inputs[p].content = Content(p)
  BY <1>1, <1>3, <1>4, <1>5, PreviewedContent DEF GovernanceInv, ClientInv
<1>8. Matrix(r.matrix.phase) \in Fixed(r) /\ History(r.id) \in Fixed(r) /\ r.matrix.phase \in Phase
  BY FixedSet, RequestShape
<1>9. ~ Busy(Matrix(r.matrix.phase))
  <2>1. PICK p : p = Matrix(r.matrix.phase)
    OBVIOUS
  <2>2. p \in want[c].keys
    BY <1>2, <1>4, <1>8, <2>1
  <2>3. ASSUME NEW d \in Client, NEW i \in DOMAIN receipts[d], receipts[d][i].path = p PROVE FALSE
    <3>1. CASE d = c
      BY <1>2, <2>3, <3>1
    <3>2. CASE d # c
      BY <1>2, <2>2, <2>3, <3>2, OthersKeepOff
    <3> QED BY <3>1, <3>2
  <2> QED BY <2>1, <2>3 DEF Busy
<1>10. Recorded(Matrix(r.matrix.phase), plan.inputs[Matrix(r.matrix.phase)].content)
  <2>1. Recorded(Matrix(r.matrix.phase), Content(Matrix(r.matrix.phase)))
    BY <1>8, <1>9 DEF RecordingInv, MatricesRecorded
  <2> QED BY <1>7, <1>8, <2>1
<1>11. WritesRecord(plan) => ~ Exists(History(r.id))
  BY <1>6, <1>7, <1>8 DEF WritesRecord, PlanOK, Exists
<1>12. /\ DOMAIN plan.changes = {Matrix(r.matrix.phase), History(r.id)}
       /\ plan.changes[History(r.id)] # Absent /\ plan.changes[History(r.id)].selected = r.matrix
       /\ WritesRecord(plan) =>
            /\ plan.changes[History(r.id)].phase = r.matrix.phase
            /\ plan.changes[History(r.id)].first => OnlyOfPhase(r)
  BY <1>6, <1>11, SelectionPlan
<1>13. [Next]_vars
  BY DEF Next, Operate
<1>14. Recorded(Matrix(r.matrix.phase), plan.inputs[Matrix(r.matrix.phase)].content)'
  <2>1. PICK content : content = plan.inputs[Matrix(r.matrix.phase)].content
    OBVIOUS
  <2>2. PICK p : p = Matrix(r.matrix.phase)
    OBVIOUS
  <2>3. Recorded(p, content)'
    BY <1>10, <1>13, <2>1, <2>2, RecordedStays
  <2> QED BY <2>1, <2>2, <2>3
<1>15. OnlyOfPhase(r) => OnlyOfPhase(r)'
  BY <1>1 DEF OnlyOfPhase, Exists, Content
<1> QED BY <1>4, <1>5, <1>12, <1>14, <1>15 DEF SelectionOK

\* A matrix that is not under way any more is recorded, or was cut off.
LEMMA MatricesKept ==
  ASSUME GovernanceInv, [Next]_vars, MatricesRecorded,
         \A phase \in Phase :
           \/ Busy(Matrix(phase))'
           \/ Recorded(Matrix(phase), Content(Matrix(phase)))'
           \/ /\ file'[Matrix(phase)].content = file[Matrix(phase)].content
              /\ ~ Busy(Matrix(phase))
  PROVE  MatricesRecorded'
<1> SUFFICES ASSUME NEW phase \in Phase, ~ Busy(Matrix(phase)),
                    file'[Matrix(phase)].content = file[Matrix(phase)].content
             PROVE  Recorded(Matrix(phase), Content(Matrix(phase)))'
  BY DEF MatricesRecorded
<1>1. PICK p : p = Matrix(phase)
  OBVIOUS
<1>2. PICK content : content = file[p].content
  OBVIOUS
<1>3. Recorded(p, content)
  BY <1>1, <1>2 DEF MatricesRecorded, Content
<1>4. Recorded(p, content)'
  BY <1>3, RecordedStays
<1> QED BY <1>1, <1>2, <1>4 DEF Content

\* As long as no record is made each phase has been selected first once.
LEMMA FirstKept ==
  ASSUME SelectedFirstOnce,
         \A id \in OpId : file'[History(id)].content \in {Absent, file[History(id)].content}
  PROVE  SelectedFirstOnce'
BY DEF SelectedFirstOnce, Exists, Content

\* The next file is written: a matrix that is under way, or the only record of its phase that
\* says it is the first.
LEMMA PublishRecords ==
  ASSUME GovernanceInv, RecordingInv, NEW c \in Client, Publish(c)
  PROVE  MatricesRecorded' /\ SelectedFirstOnce'
<1>1. [Next]_vars /\ MatricesRecorded /\ SelectedFirstOnce /\ SelectionOK(c)
  BY DEF Next, Operate, RecordingInv
<1>2. PICK p \in Path :
        /\ pc[c] = "publish" /\ task[c] \in Request /\ preview[c].request = task[c]
        /\ p \in ToSet(Targets(task[c]))
        /\ \E i \in 1..Len(preview[c].writes) : preview[c].writes[i] = p
        /\ file'[p].content = preview[c].changes[p]
        /\ \A q \in Path \ {p} : file'[q] = file[q]
        /\ \A q : Busy(q)' <=> Busy(q) \/ q = p
  BY PublishDoes
<1>3. \A phase \in Phase :
        \/ Busy(Matrix(phase))'
        \/ /\ file'[Matrix(phase)].content = file[Matrix(phase)].content
           /\ ~ Busy(Matrix(phase))
  BY <1>2, PathsExist
<1>4. MatricesRecorded'
  BY <1>1, <1>3, MatricesKept
<1>5. PICK r \in Request : r = task[c]
  BY <1>2
<1>6. ASSUME p = History(r.id), r.op = "select" PROVE SelectedFirstOnce'
  <2>1. WritesRecord(preview[c])
    BY <1>2, <1>5, <1>6 DEF WritesRecord
  <2>2. PICK record : record = preview[c].changes[History(r.id)]
    OBVIOUS
  <2>3. record.phase = r.matrix.phase /\ (record.first => OnlyOfPhase(r))
    BY <1>1, <1>2, <1>5, <1>6, <2>1, <2>2 DEF SelectionOK, Working
  <2>4. file'[History(r.id)].content = record
    BY <1>2, <1>6, <2>2
  <2>5. \A id \in OpId \ {r.id} : file'[History(id)].content = file[History(id)].content
    BY <1>2, <1>6, PathsExist, PathsDiffer
  <2> SUFFICES ASSUME NEW i \in OpId, NEW j \in OpId,
                      file'[History(i)].content # Absent, file'[History(i)].content.first,
                      file'[History(j)].content # Absent, file'[History(j)].content.first,
                      file'[History(i)].content.phase = file'[History(j)].content.phase
               PROVE  i = j
    BY DEF SelectedFirstOnce, Exists, Content
  <2>6. CASE i = r.id /\ j # r.id
    BY <2>3, <2>4, <2>5, <2>6 DEF OnlyOfPhase, Exists, Content
  <2>7. CASE i # r.id /\ j = r.id
    BY <2>3, <2>4, <2>5, <2>7 DEF OnlyOfPhase, Exists, Content
  <2>8. CASE i # r.id /\ j # r.id
    BY <1>1, <2>5, <2>8 DEF SelectedFirstOnce, Exists, Content
  <2> QED BY <2>6, <2>7, <2>8
<1>7. ASSUME ~ (p = History(r.id) /\ r.op = "select") PROVE SelectedFirstOnce'
  <2>1. \A id \in OpId : p # History(id)
    BY <1>2, <1>5, <1>7, TargetKind
  <2>2. \A id \in OpId : file'[History(id)].content = file[History(id)].content
    BY <1>2, <2>1, PathsExist
  <2>3. \A id \in OpId : file'[History(id)].content \in {Absent, file[History(id)].content}
    BY <2>2
  <2> QED BY <1>1, <2>3, FirstKept
<1> QED BY <1>4, <1>6, <1>7

\* A file is put back: a matrix that was recorded when the preview read it.
LEMMA RestoreRecords ==
  ASSUME GovernanceInv, RecordingInv, NEW c \in Client, Restore(c)
  PROVE  MatricesRecorded'
<1>1. [Next]_vars /\ MatricesRecorded /\ SelectionOK(c)
  BY DEF Next, Operate, RecordingInv
<1>2. PICK p \in Path :
        /\ pc[c] = "rollback" /\ task[c] \in Request /\ preview[c].request = task[c]
        /\ p \in ToSet(Targets(task[c]))
        /\ file'[p].content = preview[c].inputs[p].content
        /\ \A q \in Path \ {p} : file'[q] = file[q]
        /\ \A q : q # p => (Busy(q)' <=> Busy(q))
  BY RestoreDoes
<1>3. PICK r \in Request : r = task[c]
  BY <1>2
<1>4. ASSUME NEW phase \in Phase, p = Matrix(phase)
      PROVE  Recorded(Matrix(phase), Content(Matrix(phase)))'
  <2>1. r.op = "select" /\ p = Matrix(r.matrix.phase)
    <3>1. r.op = "select"
      BY <1>2, <1>3, <1>4, TargetKind, PathsDiffer
    <3> QED BY <1>2, <1>3, <1>4, <3>1, TargetsSet, PathsDiffer
  <2>2. PICK content : content = preview[c].inputs[p].content
    OBVIOUS
  <2>3. Recorded(p, content)
    BY <1>1, <1>2, <1>3, <2>1, <2>2 DEF SelectionOK, Working
  <2>4. Recorded(p, content)'
    BY <1>1, <2>3, RecordedStays
  <2> QED BY <1>2, <1>4, <2>2, <2>4 DEF Content
<1>5. ASSUME NEW phase \in Phase, p # Matrix(phase)
      PROVE  \/ Busy(Matrix(phase))'
             \/ /\ file'[Matrix(phase)].content = file[Matrix(phase)].content
                /\ ~ Busy(Matrix(phase))
  BY <1>2, <1>5, PathsExist
<1> QED BY <1>1, <1>4, <1>5, MatricesKept

\* A client that ends well leaves the matrix and the record it has read back.
LEMMA VerifyRecords ==
  ASSUME GovernanceInv, RecordingInv, NEW c \in Client, Verify(c)
  PROVE  MatricesRecorded'
<1>1. [Next]_vars /\ MatricesRecorded /\ SelectionOK(c)
  BY DEF Next, Operate, RecordingInv
<1>2. /\ pc[c] \in Working /\ Reread(c) /\ Return(c, "done") /\ UNCHANGED file
  BY DEF Verify, At, Working
<1>3. /\ task[c] \in Request /\ preview[c].request = task[c] /\ PlanOK(preview[c])
      /\ ReceiptsOK(c) /\ held[c] /\ preview[c].writes \in Seq(Path)
      /\ ToSet(Targets(task[c])) \subseteq want[c].keys
      /\ \A i \in 1..Len(preview[c].writes) : preview[c].writes[i] \in ToSet(Targets(task[c]))
  BY <1>2, WorkPlan
<1>4. PICK r \in Request : r = task[c]
  BY <1>3
<1>5. \A q : Busy(q) => Busy(q)' \/ \E i \in DOMAIN receipts[c] : receipts[c][i].path = q
  BY <1>2, BusyReturned
<1>6. \A i \in DOMAIN receipts[c] : receipts[c][i].path \in ToSet(Targets(r))
  <2>1. Len(receipts[c]) \in Nat /\ Len(preview[c].writes) \in Nat
    BY <1>3 DEF ReceiptsOK
  <2>2. DOMAIN receipts[c] = 1..Len(receipts[c])
    BY <1>3 DEF ReceiptsOK
  <2>3. \A i \in 1..Len(receipts[c]) :
          receipts[c][i].path = preview[c].writes[i] /\ i \in 1..Len(preview[c].writes)
    BY <1>3, <2>1 DEF ReceiptsOK
  <2> QED BY <1>3, <1>4, <2>2, <2>3
<1>7. ASSUME NEW phase \in Phase, Matrix(phase) \in ToSet(Targets(r))
      PROVE  Recorded(Matrix(phase), Content(Matrix(phase)))'
  <2>1. r.op = "select" /\ r.matrix.phase = phase /\ r.id \in OpId
    <3>1. r.op = "select"
      BY <1>7, TargetKind, PathsDiffer
    <3> QED BY <1>7, <3>1, TargetsSet, PathsDiffer, RequestShape
  <2>2. PICK matrix : matrix = preview[c].changes[Matrix(phase)]
    OBVIOUS
  <2>3. PICK record : record = preview[c].changes[History(r.id)]
    OBVIOUS
  <2>4. /\ DOMAIN preview[c].changes = {Matrix(phase), History(r.id)}
        /\ record # Absent /\ record.selected = r.matrix
    BY <1>1, <1>2, <1>4, <2>1, <2>3 DEF SelectionOK
  <2>5. file[Matrix(phase)].content = matrix /\ file[History(r.id)].content = record
    BY <1>2, <2>2, <2>3, <2>4 DEF Reread, Content
  <2>6. matrix # Absent => matrix.matrix = r.matrix
    BY <1>3, <1>4, <2>1, <2>2 DEF PlanOK
  <2>7. ~ Busy(History(r.id))'
    <3>1. History(r.id) \in want[c].keys
      BY <1>3, <1>4, <2>1, TargetsSet
    <3>2. receipts'[c] = <<>> /\ \A d \in Client \ {c} : receipts'[d] = receipts[d]
      BY <1>2 DEF Return, GovernanceInv, ShapeInv
    <3>3. DOMAIN receipts'[c] = {}
      BY <3>2
    <3>4. PICK p : p = History(r.id)
      OBVIOUS
    <3>5. \A d \in Client \ {c} : \A i \in DOMAIN receipts[d] : receipts[d][i].path # p
      BY <1>3, <3>1, <3>4, OthersKeepOff
    <3> QED BY <3>2, <3>3, <3>4, <3>5 DEF Busy
  <2>8. Settled(r.matrix)'
    BY <1>2, <2>1, <2>4, <2>5, <2>7 DEF Settled, Exists, Content
  <2>9. CASE matrix = Absent
    BY <1>2, <2>5, <2>9 DEF Recorded, Content
  <2>10. CASE matrix # Absent
    <3>1. PICK m : m = r.matrix
      OBVIOUS
    <3>2. Settled(m)' /\ file'[Matrix(phase)].content.matrix = m
      BY <1>2, <2>5, <2>6, <2>8, <2>10, <3>1
    <3> QED BY <3>2 DEF Recorded, Content, Settled
  <2> QED BY <2>9, <2>10
<1>8. ASSUME NEW phase \in Phase, Matrix(phase) \notin ToSet(Targets(r))
      PROVE  \/ Busy(Matrix(phase))'
             \/ /\ file'[Matrix(phase)].content = file[Matrix(phase)].content
                /\ ~ Busy(Matrix(phase))
  BY <1>2, <1>5, <1>6, <1>8
<1> QED BY <1>1, <1>7, <1>8, MatricesKept

\* A client that dies, or gives a file up, has it cut off.
LEMMA TornRecords ==
  ASSUME GovernanceInv, RecordingInv, NEW c \in Client, Crash(c) \/ RestoreFails(c)
  PROVE  MatricesRecorded'
<1>1. [Next]_vars /\ MatricesRecorded
  BY DEF Next, Operate, RecordingInv
<1>2. UNCHANGED file
  BY DEF Crash, RestoreFails
<1>3. \A q : Busy(q) => Busy(q)' \/ q \in torn'
  <2>1. CASE Crash(c)
    <3>1. /\ \E answer : Return(c, answer)
          /\ torn' = torn \cup { receipts[c][i].path : i \in DOMAIN receipts[c] }
      BY <2>1 DEF Crash
    <3> QED BY <3>1, BusyReturned
  <2>2. CASE RestoreFails(c)
    <3>1. /\ receipts[c] # <<>> /\ pc[c] \in Working /\ DropReceipt(c) /\ UNCHANGED preview
          /\ torn' = torn \cup {Last(receipts[c]).path}
      BY <2>2 DEF RestoreFails, At, Working
    <3>2. \A q : q # Last(receipts[c]).path => (Busy(q)' <=> Busy(q))
      BY <3>1, BusyDropped
    <3> QED BY <3>1, <3>2
  <2> QED BY <2>1, <2>2
<1>4. ASSUME NEW phase \in Phase
      PROVE  \/ Busy(Matrix(phase))'
             \/ Recorded(Matrix(phase), Content(Matrix(phase)))'
             \/ /\ file'[Matrix(phase)].content = file[Matrix(phase)].content
                /\ ~ Busy(Matrix(phase))
  BY <1>2, <1>3 DEF Recorded
<1> QED BY <1>1, <1>4, MatricesKept

\* The other steps of a client end nothing.
LEMMA QuietRecords ==
  ASSUME GovernanceInv, RecordingInv, NEW c \in Client, Operate(c),
         ~ Publish(c), ~ Restore(c), ~ Verify(c), ~ Crash(c), ~ RestoreFails(c)
  PROVE  MatricesRecorded'
<1>1. [Next]_vars /\ MatricesRecorded /\ UNCHANGED file
  BY OtherDoes DEF Next, RecordingInv
<1>2. \/ UNCHANGED receipts
      \/ receipts[c] = <<>> /\ \E answer : Return(c, answer)
  <2>1. pc[c] \in {"lock", "check"} => receipts[c] = <<>>
    BY DEF GovernanceInv, ClientInv, LocksOK, Working
  <2>2. CASE \/ CheckStale(c) \/ CheckRefused(c) \/ CheckNoOp(c) \/ Permit(c) \/ Deny(c)
             \/ FinishRollback(c) \/ Fails(c)
    BY <2>1, <2>2
    DEF CheckStale, CheckRefused, CheckNoOp, Permit, Deny, FinishRollback, Fails, At
  <2>3. CASE \/ Preview(c) \/ Apply(c) \/ RequireWriter(c) \/ Acquire(c) \/ CheckPassed(c)
             \/ PublishFails(c) \/ VerifyFails(c)
    BY <2>3
    DEF Preview, Apply, RequireWriter, Begin, Acquire, CheckPassed, PublishFails, VerifyFails
  <2> QED BY <2>2, <2>3 DEF Operate
<1>3. \A q : Busy(q) => Busy(q)'
  <2>1. CASE UNCHANGED receipts
    BY <2>1 DEF Busy
  <2>2. CASE receipts[c] = <<>> /\ \E answer : Return(c, answer)
    <3>1. DOMAIN receipts[c] = {}
      BY <2>2
    <3> QED BY <2>2, <3>1, BusyReturned
  <2> QED BY <1>2, <2>1, <2>2
<1>4. ASSUME NEW phase \in Phase
      PROVE  \/ Busy(Matrix(phase))'
             \/ /\ file'[Matrix(phase)].content = file[Matrix(phase)].content
                /\ ~ Busy(Matrix(phase))
  BY <1>1, <1>3
<1> QED BY <1>1, <1>4, MatricesKept

\* Whatever a client does, matrices stay recorded.
LEMMA ClientRecords ==
  ASSUME GovernanceInv, RecordingInv, NEW c \in Client, Operate(c)
  PROVE  RecordingInv'
<1>1. MatricesRecorded'
  BY PublishRecords, RestoreRecords, VerifyRecords, TornRecords, QuietRecords
<1>2. SelectedFirstOnce'
  <2>1. CASE Publish(c)
    BY <2>1, PublishRecords
  <2>2. CASE ~ Publish(c)
    <3>1. \A id \in OpId : file'[History(id)].content \in {Absent, file[History(id)].content}
      BY <2>2, RecordsFall
    <3> QED BY <3>1, FirstKept DEF RecordingInv
  <2> QED BY <2>1, <2>2
<1>3. \A d \in Client : SelectionOK(d)'
  BY SelectionsKept, PlanMade
<1> QED BY <1>1, <1>2, <1>3 DEF RecordingInv

\* What happens to the files from outside: the log grows, a matrix is removed or copied.
LEMMA OutsideDoes ==
  ASSUME FileInv, Advance \/ Edit \/ UNCHANGED vars
  PROVE  \E p \in Path :
           /\ p = Log \/ \E phase \in Phase :
                           /\ p = Matrix(phase) /\ file[p].content # Absent
                           /\ \/ file'[p].content = Absent
                              \/ file'[p].content.matrix = file[p].content.matrix
           /\ \A q \in Path \ {p} : file'[q] = file[q]
<1>1. CASE Advance
  <2>1. \E version : file' = [file EXCEPT ![Log] = version]
    BY <1>1 DEF Advance
  <2>2. \A q \in Path \ {Log} : file'[q] = file[q]
    BY <2>1 DEF FileInv
  <2> QED BY <2>2, PathsExist
<1>2. CASE Edit
  <2>1. PICK phase \in Phase :
          /\ Exists(Matrix(phase))
          /\ \/ file' = [file EXCEPT ![Matrix(phase)] = NoFile]
             \/ file' = [file EXCEPT ![Matrix(phase)] =
                          Written([matrix |-> Content(Matrix(phase)).matrix, eol |-> "crlf"])]
    BY <1>2 DEF Edit
  <2>2. Matrix(phase) \in Path /\ \A q \in Path \ {Matrix(phase)} : file'[q] = file[q]
    BY <2>1, PathsExist DEF FileInv
  <2>3. \/ file'[Matrix(phase)].content = Absent
        \/ file'[Matrix(phase)].content.matrix = file[Matrix(phase)].content.matrix
    BY <2>1, <2>2 DEF FileInv, NoFile, Written, Content
  <2> QED BY <2>1, <2>2, <2>3 DEF Exists, Content
<1>3. CASE UNCHANGED vars
  BY <1>3, PathsExist DEF vars
<1> QED BY <1>1, <1>2, <1>3

\* What happens from outside: the log grows, a matrix is removed or copied.
LEMMA OutsideRecords ==
  ASSUME GovernanceInv, RecordingInv, Advance \/ Edit \/ UNCHANGED vars
  PROVE  RecordingInv'
<1>1. [Next]_vars /\ MatricesRecorded /\ SelectedFirstOnce /\ FileInv
  BY DEF Next, RecordingInv, GovernanceInv
<1>2. UNCHANGED clientVars /\ UNCHANGED preview /\ \A q : Busy(q)' <=> Busy(q)
  BY DEF Advance, Edit, vars, clientVars, Busy
<1>4. PICK p \in Path :
        /\ p = Log \/ \E phase \in Phase :
                        /\ p = Matrix(phase) /\ file[p].content # Absent
                        /\ \/ file'[p].content = Absent
                           \/ file'[p].content.matrix = file[p].content.matrix
        /\ \A q \in Path \ {p} : file'[q] = file[q]
  BY <1>1, OutsideDoes
<1>5. \A id \in OpId : file'[History(id)].content = file[History(id)].content
  BY <1>4, PathsExist, PathsDiffer
<1>6. ASSUME NEW phase \in Phase, ~ Busy(Matrix(phase)), p = Matrix(phase)
      PROVE  Recorded(Matrix(phase), Content(Matrix(phase)))'
  <2>1. PICK content : content = file[p].content
    OBVIOUS
  <2>2. PICK copy : copy = file'[p].content
    OBVIOUS
  <2>3. content # Absent /\ (copy = Absent \/ copy.matrix = content.matrix)
    BY <1>4, <1>6, <2>1, <2>2, PathsDiffer
  <2>4. Recorded(p, content)
    BY <1>1, <1>6, <2>1 DEF MatricesRecorded, Content
  <2>5. Recorded(p, copy)
    BY <2>3, <2>4, RecordedCopy
  <2>6. Recorded(p, copy)'
    BY <1>1, <2>5, RecordedStays
  <2> QED BY <1>6, <2>2, <2>6 DEF Content
<1>7. ASSUME NEW phase \in Phase, p # Matrix(phase)
      PROVE  file'[Matrix(phase)].content = file[Matrix(phase)].content
  BY <1>4, <1>7, PathsExist
<1>8. MatricesRecorded'
  BY <1>1, <1>2, <1>6, <1>7, MatricesKept
<1>9. SelectedFirstOnce'
  <2>1. \A id \in OpId : file'[History(id)].content \in {Absent, file[History(id)].content}
    BY <1>5
  <2> QED BY <1>1, <2>1, FirstKept
<1>10. ASSUME NEW d \in Client PROVE SelectionOK(d)'
  <2>1. SelectionOK(d)
    BY DEF RecordingInv
  <2>2. pc'[d] = pc[d] /\ task'[d] = task[d] /\ preview'[d] = preview[d]
    BY <1>2 DEF clientVars
  <2>3. \A id \in OpId : file'[History(id)].content \in {Absent, file[History(id)].content}
    BY <1>5
  <2> QED BY <1>1, <2>1, <2>2, <2>3, SelectionKept
<1> QED BY <1>8, <1>9, <1>10 DEF RecordingInv

\* Every step keeps matrices recorded.
LEMMA RecordingNext == GovernanceInv /\ RecordingInv /\ [Next]_vars => RecordingInv'
BY ClientRecords, OutsideRecords DEF Next, Finished

\* Outside a transaction a matrix that was selected has the record of its selection, and a phase
\* is selected for the first time once, for a store of which that is true at first, whatever is
\* cut off, put back, edited or asked for again (prepare_strategy, apply_multi_file_transaction).
THEOREM SelectionsAreRecorded == Spec /\ SelectionRecorded => []SelectionRecorded
<1>1. Init /\ SelectionRecorded => RecordingInv
  BY RecordingInit
<1>2. GovernanceInv /\ RecordingInv /\ [Next]_vars => RecordingInv'
  BY RecordingNext
<1>3. RecordingInv => SelectionRecorded
  BY RecordingShows
<1> QED BY <1>1, <1>2, <1>3, GovernanceInvariant, PTL DEF Spec

-----------------------------------------------------------------------------
(* Totals of a strategy. *)

\* A set of numbers that has the first and with each its successor has all, up to a bound.
LEMMA UpTo ==
  ASSUME NEW n \in Nat, NEW X, 0 \in X, \A m \in 0..(n - 1) : m \in X => m + 1 \in X
  PROVE  0..n \subseteq X
<1> DEFINE Bad == { m \in Nat : m <= n /\ m \notin X }
<1> SUFFICES ASSUME Bad # {} PROVE FALSE
  OBVIOUS
<1>1. PICK m \in Bad : \A k \in Bad : ~ (<<k, m>> \in OpToRel(<, Nat))
  BY NatLessThanWellFounded, WFMin, Zenon
<1>2. m \in Nat /\ m <= n /\ m \notin X /\ \A k \in Nat : k < m => k \notin Bad
  BY <1>1 DEF OpToRel
<1>3. m # 0
  BY <1>2
<1>4. m - 1 \in Nat /\ m - 1 \in 0..(n - 1) /\ m - 1 < m
  BY <1>2, <1>3
<1>5. m - 1 \in X
  BY <1>2, <1>4
<1>6. (m - 1) + 1 \in X
  BY <1>4, <1>5
<1> QED BY <1>2, <1>6

\* What is defined step by step has a value at each step.
LEMMA StepByStep ==
  ASSUME NEW n \in Nat, NEW step \in [1..n -> [Int -> Int]]
  PROVE  \E g \in [0..n -> Int] : g[0] = 0 /\ \A i \in 1..n : g[i] = step[i][g[i - 1]]
<1> DEFINE Follows(g, m) ==
      g \in [0..m -> Int] /\ g[0] = 0 /\ \A i \in 1..m : g[i] = step[i][g[i - 1]]
    X == { m \in 0..n : \E g : Follows(g, m) }
<1>1. 0 \in X
  <2>1. \A i \in 0..0 : i = 0
    OBVIOUS
  <2>2. PICK g : g = [i \in 0..0 |-> 0]
    OBVIOUS
  <2>3. g \in [0..0 -> Int] /\ g[0] = 0 /\ \A i \in 1..0 : FALSE
    BY <2>2
  <2>4. Follows(g, 0)
    BY <2>3
  <2>5. 0 \in 0..n
    OBVIOUS
  <2> QED BY <2>4, <2>5
<1>2. ASSUME NEW m \in 0..(n - 1), m \in X PROVE m + 1 \in X
  <2>1. PICK g : Follows(g, m)
    BY <1>2
  <2>2. m \in 0..m /\ g[m] \in Int /\ m + 1 \in 1..n
    BY <1>2, <2>1
  <2>3. PICK next : next = step[m + 1][g[m]]
    OBVIOUS
  <2>4. next \in Int
    BY <2>2, <2>3
  <2> DEFINE h == [i \in 0..(m + 1) |-> IF i = m + 1 THEN next ELSE g[i]]
  <2>5. \A i \in 0..m : i \in 0..(m + 1) /\ h[i] = g[i]
    BY <1>2
  <2>6. h[m + 1] = next
    BY <1>2
  <2>7. h \in [0..(m + 1) -> Int]
    <3>1. \A i \in 0..(m + 1) : i # m + 1 => i \in 0..m
      BY <1>2
    <3> QED BY <2>1, <2>4, <3>1
  <2> HIDE DEF h
  <2>8. ASSUME NEW i \in 1..(m + 1) PROVE h[i] = step[i][h[i - 1]]
    <3>1. CASE i = m + 1
      <4>1. i - 1 = m
        BY <1>2, <3>1
      <4>2. h[i - 1] = g[m]
        BY <2>2, <2>5, <4>1
      <4> QED BY <2>3, <2>6, <3>1, <4>2
    <3>2. CASE i # m + 1
      <4>1. i \in 1..m /\ i \in 0..m /\ i - 1 \in 0..m
        BY <1>2, <3>2
      <4>2. h[i] = g[i] /\ h[i - 1] = g[i - 1] /\ g[i] = step[i][g[i - 1]]
        BY <2>1, <2>5, <4>1
      <4> QED BY <4>2
    <3> QED BY <3>1, <3>2
  <2>9. h[0] = 0
    <3>1. 0 \in 0..m
      BY <1>2
    <3> QED BY <2>1, <2>5, <3>1
  <2>10. Follows(h, m + 1)
    BY <2>7, <2>8, <2>9
  <2>11. m + 1 \in 0..n
    BY <1>2
  <2> QED BY <2>10, <2>11
<1>3. n \in X
  <2> HIDE DEF X
  <2>1. 0..n \subseteq X
    BY <1>1, <1>2, UpTo
  <2> QED BY <2>1
<1> QED BY <1>3

\* The minimum of a worker is a number.
LEMMA MinimaAreNumbers ==
  ASSUME NEW workers \in Seq(StrategyWorker)
  PROVE  Len(workers) \in Nat /\ \A i \in 1..Len(workers) : workers[i].minimum \in Nat
<1>1. Len(workers) \in Nat /\ \A i \in 1..Len(workers) : workers[i] \in StrategyWorker
  OBVIOUS
<1>2. \A worker \in StrategyWorker : worker.minimum \in Nat
  BY DEF StrategyWorker
<1> QED BY <1>1, <1>2

\* A checked total adds up one minimum after the other.
LEMMA CheckedTotalUnfold ==
  ASSUME NEW workers \in Seq(StrategyWorker)
  PROVE  \E total :
           /\ total[0] = 0
           /\ \A i \in 1..Len(workers) :
                total[i] = CheckedAdd(total[i - 1], workers[i].minimum)
           /\ CheckedTotal(workers) = total[Len(workers)]
<1> DEFINE n == Len(workers)
           Follows(g) ==
             g = [i \in 0..n |-> IF i = 0 THEN 0 ELSE CheckedAdd(g[i - 1], workers[i].minimum)]
           total == CHOOSE g : Follows(g)
           step == [i \in 1..n |-> [x \in Int |-> CheckedAdd(x, workers[i].minimum)]]
<1>1. n \in Nat /\ \A i \in 1..n : workers[i].minimum \in Nat
  BY MinimaAreNumbers
<1>2. \A x \in Int, word \in Nat : CheckedAdd(x, word) \in Int
  BY DEF CheckedAdd
<1>3. step \in [1..n -> [Int -> Int]]
  BY <1>1, <1>2
<1>4. \A i \in 1..n, x \in Int : step[i][x] = CheckedAdd(x, workers[i].minimum)
  BY <1>1, <1>2
<1> HIDE DEF step, n
<1>5. PICK g \in [0..n -> Int] : g[0] = 0 /\ \A i \in 1..n : g[i] = step[i][g[i - 1]]
  BY <1>1, <1>3, StepByStep
<1>6. \A i \in 0..n : g[i] = IF i = 0 THEN 0 ELSE CheckedAdd(g[i - 1], workers[i].minimum)
  <2> TAKE i \in 0..n
  <2>1. CASE i # 0
    <3>1. i \in 1..n /\ i - 1 \in 0..n /\ g[i - 1] \in Int
      BY <1>1, <1>5, <2>1
    <3> QED BY <1>4, <1>5, <2>1, <3>1
  <2> QED BY <1>5, <2>1
<1>7. g = [i \in 0..n |-> g[i]]
  BY <1>5
<1>8. Follows(g)
  BY <1>6, <1>7
<1>9. Follows(total)
  BY <1>8
<1>10. CheckedTotal(workers) = total[n]
  BY DEF CheckedTotal, n
<1> HIDE DEF total
<1>11. total[0] = 0 /\ \A i \in 1..n : total[i] = CheckedAdd(total[i - 1], workers[i].minimum)
  BY <1>1, <1>9
<1> QED BY <1>10, <1>11 DEF n

\* The demand is the sum of the minima.
LEMMA DemandUnfold ==
  ASSUME NEW workers \in Seq(StrategyWorker)
  PROVE  \E total \in [0..Len(workers) -> Nat] :
           /\ total[0] = 0
           /\ \A i \in 1..Len(workers) : total[i] = total[i - 1] + workers[i].minimum
           /\ Demand(workers) = total[Len(workers)]
<1> DEFINE n == Len(workers)
           Follows(g) ==
             g = [i \in 0..n |-> IF i = 0 THEN 0 ELSE g[i - 1] + workers[i].minimum]
           total == CHOOSE g : Follows(g)
           step == [i \in 1..n |-> [x \in Int |-> x + workers[i].minimum]]
<1>1. n \in Nat /\ \A i \in 1..n : workers[i].minimum \in Nat
  BY MinimaAreNumbers
<1>2. step \in [1..n -> [Int -> Int]]
  BY <1>1
<1>3. \A i \in 1..n, x \in Int : step[i][x] = x + workers[i].minimum
  BY <1>1
<1> HIDE DEF step, n
<1>4. PICK g \in [0..n -> Int] : g[0] = 0 /\ \A i \in 1..n : g[i] = step[i][g[i - 1]]
  BY <1>1, <1>2, StepByStep
<1>5. \A i \in 0..n : g[i] = IF i = 0 THEN 0 ELSE g[i - 1] + workers[i].minimum
  <2> TAKE i \in 0..n
  <2>1. CASE i # 0
    <3>1. i \in 1..n /\ i - 1 \in 0..n /\ g[i - 1] \in Int
      BY <1>1, <1>4, <2>1
    <3> QED BY <1>3, <1>4, <2>1, <3>1
  <2> QED BY <1>4, <2>1
<1>6. g = [i \in 0..n |-> g[i]]
  BY <1>4
<1>7. Follows(g)
  BY <1>5, <1>6
<1>8. Follows(total)
  BY <1>7
<1>9. Demand(workers) = total[n]
  BY DEF Demand, n
<1> HIDE DEF total
<1>10. total[0] = 0 /\ \A i \in 1..n : total[i] = total[i - 1] + workers[i].minimum
  BY <1>1, <1>8
<1>11. total \in [0..n -> Nat]
  <2> DEFINE X == { i \in 0..n : total[i] \in Nat }
  <2>1. 0 \in X
    BY <1>1, <1>10
  <2>2. ASSUME NEW m \in 0..(n - 1), m \in X PROVE m + 1 \in X
    <3>1. m + 1 \in 1..n /\ (m + 1) - 1 = m
      BY <1>1, <2>2
    <3>2. total[m + 1] = total[m] + workers[m + 1].minimum
      BY <1>10, <3>1
    <3> QED BY <1>1, <2>2, <3>1, <3>2
  <2>3. 0..n \subseteq X
    <3> HIDE DEF X
    <3> QED BY <1>1, <2>1, <2>2, UpTo
  <2> QED BY <1>8, <2>3
<1> QED BY <1>9, <1>10, <1>11 DEF n

\* A total that fits is the demand, whatever the size of a word.
LEMMA CheckedTotalMeans ==
  ASSUME NEW workers \in Seq(StrategyWorker), CheckedTotal(workers) # -1
  PROVE  CheckedTotal(workers) = Demand(workers)
<1> DEFINE n == Len(workers)
<1>1. n \in Nat /\ \A i \in 1..n : workers[i].minimum \in Nat
  BY MinimaAreNumbers
<1>2. PICK checked :
        /\ checked[0] = 0
        /\ \A i \in 1..n : checked[i] = CheckedAdd(checked[i - 1], workers[i].minimum)
        /\ CheckedTotal(workers) = checked[n]
  BY CheckedTotalUnfold
<1>3. PICK plain \in [0..n -> Nat] :
        /\ plain[0] = 0
        /\ \A i \in 1..n : plain[i] = plain[i - 1] + workers[i].minimum
        /\ Demand(workers) = plain[n]
  BY DemandUnfold
<1> HIDE DEF n
<1> DEFINE X == { i \in 0..n : checked[i] \in {-1, plain[i]} }
<1>4. 0 \in X
  BY <1>1, <1>2, <1>3
<1>5. ASSUME NEW m \in 0..(n - 1), m \in X PROVE m + 1 \in X
  <2>1. m + 1 \in 1..n /\ (m + 1) - 1 = m /\ m \in 0..n
    BY <1>1, <1>5
  <2>2. /\ checked[m + 1] = CheckedAdd(checked[m], workers[m + 1].minimum)
        /\ plain[m + 1] = plain[m] + workers[m + 1].minimum
    BY <1>2, <1>3, <2>1
  <2>3. checked[m + 1] \in {-1, plain[m + 1]}
    BY <1>5, <2>2 DEF CheckedAdd
  <2> QED BY <1>1, <2>1, <2>3
<1>6. n \in X
  <2>1. 0..n \subseteq X
    <3> HIDE DEF X
    <3> QED BY <1>1, <1>4, <1>5, UpTo
  <2> QED BY <1>1, <2>1
<1> QED BY <1>2, <1>3, <1>6

-----------------------------------------------------------------------------
(* Claims of paths, and the sweep over them. *)

\* A prefix agrees in every place it has.
LEMMA PrefixMeans ==
  ASSUME NEW p \in Seq(Nat), NEW q \in Seq(Nat)
  PROVE  IsPrefix(p, q) <=> Len(p) <= Len(q) /\ \A i \in 1..Len(p) : p[i] = q[i]
<1>1. Len(p) \in Nat /\ Len(q) \in Nat
  OBVIOUS
<1>2. SubSeq(p, 1, Len(p)) = p
  OBVIOUS
<1>3. CASE Len(p) <= Len(q)
  <2>1. PICK s : s = SubSeq(q, 1, Len(p))
    OBVIOUS
  <2>2. s \in Seq(Nat) /\ Len(s) = Len(p) /\ \A i \in 1..Len(p) : s[i] = q[i]
    BY <1>1, <1>3, <2>1
  <2>3. p = s <=> \A i \in 1..Len(p) : p[i] = s[i]
    BY <2>2, SeqEqual
  <2>4. IsPrefix(p, q) <=> p = s
    BY <1>2, <1>3, <2>1 DEF IsPrefix
  <2>5. (\A i \in 1..Len(p) : p[i] = s[i]) <=> (\A i \in 1..Len(p) : p[i] = q[i])
    BY <2>2
  <2> QED BY <1>3, <2>3, <2>4, <2>5
<1>4. CASE ~ (Len(p) <= Len(q))
  BY <1>4 DEF IsPrefix
<1> QED BY <1>3, <1>4

\* Two paths of which neither contains the other part in some component.
LEMMA PathsPart ==
  ASSUME NEW p \in Seq(Nat), NEW q \in Seq(Nat), ~ IsPrefix(p, q), ~ IsPrefix(q, p)
  PROVE  \E i \in DOMAIN p \cap DOMAIN q :
           /\ p[i] < q[i] \/ q[i] < p[i]
           /\ \A j \in 1..(i - 1) : j \in DOMAIN p \cap DOMAIN q /\ p[j] = q[j]
<1>1. /\ Len(p) \in Nat /\ Len(q) \in Nat /\ DOMAIN p = 1..Len(p) /\ DOMAIN q = 1..Len(q)
      /\ \A i \in 1..Len(p) : p[i] \in Nat
      /\ \A i \in 1..Len(q) : q[i] \in Nat
  OBVIOUS
<1> DEFINE Parts == { i \in Nat : i \in DOMAIN p \cap DOMAIN q /\ p[i] # q[i] }
<1>2. Parts # {}
  <2> SUFFICES ASSUME Parts = {} PROVE FALSE
    OBVIOUS
  <2>1. \A i \in Nat : 1 <= i /\ i <= Len(p) /\ i <= Len(q) => p[i] = q[i]
    <3> TAKE i \in Nat
    <3>1. i \notin Parts
      OBVIOUS
    <3> HIDE DEF Parts
    <3>2. 1 <= i /\ i <= Len(p) /\ i <= Len(q) => i \in DOMAIN p \cap DOMAIN q
      BY <1>1
    <3> QED BY <3>1, <3>2 DEF Parts
  <2>2. CASE Len(p) <= Len(q)
    <3>1. \A i \in 1..Len(p) : p[i] = q[i]
      BY <1>1, <2>1, <2>2
    <3> QED BY <2>2, <3>1, PrefixMeans
  <2>3. CASE Len(q) <= Len(p)
    <3>1. \A i \in 1..Len(q) : q[i] = p[i]
      BY <1>1, <2>1, <2>3
    <3> QED BY <2>3, <3>1, PrefixMeans
  <2> QED BY <1>1, <2>2, <2>3
<1>3. PICK i \in Parts : \A k \in Parts : ~ (<<k, i>> \in OpToRel(<, Nat))
  BY <1>2, NatLessThanWellFounded, WFMin, Zenon
<1>4. i \in Nat /\ i \in DOMAIN p \cap DOMAIN q /\ p[i] # q[i]
  BY <1>3
<1>5. \A k \in Nat : k < i => k \notin Parts
  BY <1>3, <1>4 DEF OpToRel
<1>6. ASSUME NEW j \in 1..(i - 1) PROVE j \in DOMAIN p \cap DOMAIN q /\ p[j] = q[j]
  <2>1. j \in Nat /\ j < i /\ j \in DOMAIN p \cap DOMAIN q
    BY <1>1, <1>4
  <2> QED BY <1>5, <2>1
<1>7. p[i] < q[i] \/ q[i] < p[i]
  BY <1>1, <1>4
<1> QED BY <1>4, <1>6, <1>7

\* Component order keeps a subtree together: what lies between a path and one below it is below it.
LEMMA SubtreeTogether ==
  ASSUME NEW p \in Seq(Nat), NEW q \in Seq(Nat), NEW r \in Seq(Nat),
         IsPrefix(p, r), ~ PathBefore(q, p), ~ PathBefore(r, q)
  PROVE  IsPrefix(p, q)
<1> SUFFICES ASSUME ~ IsPrefix(p, q) PROVE FALSE
  OBVIOUS
<1>1. ~ IsPrefix(q, p)
  <2>1. p # q
    <3>1. IsPrefix(p, p)
      BY PrefixMeans
    <3> QED BY <3>1
  <2> QED BY <2>1 DEF PathBefore, IsStrictPrefix
<1>2. PICK i \in DOMAIN p \cap DOMAIN q :
        /\ p[i] < q[i] \/ q[i] < p[i]
        /\ \A j \in 1..(i - 1) : j \in DOMAIN p \cap DOMAIN q /\ p[j] = q[j]
  BY <1>1, PathsPart
<1>3. CASE q[i] < p[i]
  BY <1>2, <1>3 DEF PathBefore
<1>4. CASE p[i] < q[i]
  <2>1. /\ Len(p) \in Nat /\ Len(r) \in Nat /\ DOMAIN p = 1..Len(p) /\ DOMAIN r = 1..Len(r)
        /\ DOMAIN q = 1..Len(q) /\ Len(q) \in Nat
    OBVIOUS
  <2>2. Len(p) <= Len(r) /\ \A k \in 1..Len(p) : p[k] = r[k]
    BY PrefixMeans
  <2>3. i \in DOMAIN r \cap DOMAIN q /\ r[i] = p[i]
    BY <2>1, <2>2
  <2>4. \A j \in 1..(i - 1) : r[j] = q[j]
    BY <1>2, <2>1, <2>2
  <2> QED BY <1>4, <2>3, <2>4 DEF PathBefore
<1> QED BY <1>2, <1>3, <1>4

\* Of two paths that overlap the one that is not after the other contains it.
LEMMA OverlapMeans ==
  ASSUME NEW p \in Seq(Nat), NEW q \in Seq(Nat), Overlap(p, q), ~ PathBefore(q, p)
  PROVE  IsPrefix(p, q)
<1>1. IsPrefix(q, p) /\ q = p => IsPrefix(p, q)
  OBVIOUS
<1> QED BY <1>1 DEF Overlap, PathBefore, IsStrictPrefix

\* A path contains what a path below it contains.
LEMMA PrefixOfPrefix ==
  ASSUME NEW p \in Seq(Nat), NEW q \in Seq(Nat), NEW r \in Seq(Nat),
         IsPrefix(p, q), IsPrefix(q, r)
  PROVE  IsPrefix(p, r)
<1>1. Len(p) \in Nat /\ Len(q) \in Nat /\ Len(r) \in Nat
  OBVIOUS
<1>2. /\ Len(p) <= Len(q) /\ \A i \in 1..Len(p) : p[i] = q[i]
      /\ Len(q) <= Len(r) /\ \A i \in 1..Len(q) : q[i] = r[i]
  BY PrefixMeans
<1>3. Len(p) <= Len(r) /\ \A i \in 1..Len(p) : p[i] = r[i]
  BY <1>1, <1>2
<1> QED BY <1>3, PrefixMeans

\* Which claim covers which: the covering one of the claim before if it overlaps, else itself.
LEMMA CoveringUnfold ==
  ASSUME NEW sorted \in Seq(Claim), NEW cover, cover = Covering(sorted)
  PROVE  /\ cover[0] = 0
         /\ \A i \in 1..Len(sorted) :
              /\ cover[i] \in 1..i
              /\ cover[i] = IF cover[i - 1] # 0
                                 /\ Overlap(sorted[cover[i - 1]].path, sorted[i].path)
                              THEN cover[i - 1] ELSE i
<1> DEFINE n == Len(sorted)
           Outer(outer, i) ==
             IF outer # 0 /\ Overlap(sorted[outer].path, sorted[i].path) THEN outer ELSE i
           Follows(g) == g = [i \in 0..n |-> IF i = 0 THEN 0 ELSE Outer(g[i - 1], i)]
           chosen == CHOOSE g : Follows(g)
           step == [i \in 1..n |-> [x \in Int |-> Outer(x, i)]]
<1>1. n \in Nat
  OBVIOUS
<1>2. step \in [1..n -> [Int -> Int]]
  <2>1. \A i \in 1..n, x \in Int : Outer(x, i) \in Int
    BY <1>1
  <2> HIDE DEF Outer
  <2> QED BY <2>1
<1>3. \A i \in 1..n, x \in Int : step[i][x] = Outer(x, i)
  BY <1>1
<1>4. cover = chosen
  BY DEF Covering
<1>5. \A outer, i : Outer(outer, i) \in {outer, i} /\ Outer(0, i) = i
  OBVIOUS
<1>6. \A outer, i : Outer(outer, i) =
        IF outer # 0 /\ Overlap(sorted[outer].path, sorted[i].path) THEN outer ELSE i
  OBVIOUS
<1> HIDE DEF step, n, Outer
<1>7. PICK g \in [0..n -> Int] : g[0] = 0 /\ \A i \in 1..n : g[i] = step[i][g[i - 1]]
  BY <1>1, <1>2, StepByStep
<1>8. \A i \in 0..n : g[i] = IF i = 0 THEN 0 ELSE Outer(g[i - 1], i)
  <2> TAKE i \in 0..n
  <2>1. CASE i # 0
    <3>1. i \in 1..n /\ i - 1 \in 0..n /\ g[i - 1] \in Int
      BY <1>1, <1>7, <2>1
    <3> QED BY <1>3, <1>7, <2>1, <3>1
  <2> QED BY <1>7, <2>1
<1>9. g = [i \in 0..n |-> g[i]]
  BY <1>7
<1>10. Follows(g)
  BY <1>8, <1>9
<1>11. Follows(cover)
  BY <1>4, <1>10
<1>12. cover[0] = 0 /\ \A i \in 1..n : cover[i] = Outer(cover[i - 1], i)
  <2>1. \A i \in 0..n : cover[i] = IF i = 0 THEN 0 ELSE Outer(cover[i - 1], i)
    BY <1>11
  <2> QED BY <1>1, <2>1
<1> DEFINE X == { i \in 0..n : i = 0 \/ cover[i] \in 1..i }
<1>13. ASSUME NEW m \in 0..(n - 1), m \in X PROVE m + 1 \in X
  <2>1. m + 1 \in 1..n /\ (m + 1) - 1 = m
    BY <1>1, <1>13
  <2>2. cover[m + 1] = Outer(cover[m], m + 1)
    BY <1>12, <2>1
  <2>3. cover[m + 1] \in {cover[m], m + 1} /\ (m = 0 => cover[m + 1] = m + 1)
    BY <1>5, <1>12, <2>2
  <2>4. cover[m + 1] \in 1..(m + 1)
    BY <1>1, <1>13, <2>3
  <2> QED BY <1>1, <2>1, <2>4
<1>14. 0..n \subseteq X
  <2>1. 0 \in X
    BY <1>1
  <2> HIDE DEF X
  <2> QED BY <1>1, <1>13, <2>1, UpTo
<1>15. \A i \in 1..n : cover[i] \in 1..i
  BY <1>1, <1>14
<1> QED BY <1>6, <1>12, <1>15 DEF n

\* No claim is before one that precedes it.
InOrder(sorted) ==
  \A i, j \in 1..Len(sorted) : i < j => ~ PathBefore(sorted[j].path, sorted[i].path)

\* The claim that covers another contains it.
LEMMA CoverContains ==
  ASSUME NEW sorted \in Seq(Claim), InOrder(sorted), NEW i \in 1..Len(sorted)
  PROVE  /\ Covering(sorted)[i] \in 1..i
         /\ IsPrefix(sorted[Covering(sorted)[i]].path, sorted[i].path)
         /\ Covering(sorted)[i] # i =>
              Overlap(sorted[Covering(sorted)[i]].path, sorted[i].path)
<1>1. PICK cover : cover = Covering(sorted)
  OBVIOUS
<1>2. /\ cover[i] \in 1..i
      /\ cover[i] = IF cover[i - 1] # 0
                         /\ Overlap(sorted[cover[i - 1]].path, sorted[i].path)
                      THEN cover[i - 1] ELSE i
  BY <1>1, CoveringUnfold
<1>3. \A k \in 1..Len(sorted) : sorted[k].path \in Seq(Nat)
  <2>1. \A k \in 1..Len(sorted) : sorted[k] \in Claim
    OBVIOUS
  <2> QED BY <2>1 DEF Claim
<1>4. cover[i] # i => Overlap(sorted[cover[i]].path, sorted[i].path)
  BY <1>2
<1>5. cover[i] \in 1..Len(sorted) /\ (cover[i] # i => cover[i] < i)
  BY <1>2
<1>6. CASE cover[i] = i
  <2>1. IsPrefix(sorted[i].path, sorted[i].path)
    BY <1>3, PrefixMeans
  <2> QED BY <1>1, <1>2, <1>4, <1>6, <2>1
<1>7. CASE cover[i] # i
  <2>1. ~ PathBefore(sorted[i].path, sorted[cover[i]].path)
    BY <1>5, <1>7 DEF InOrder
  <2>2. IsPrefix(sorted[cover[i]].path, sorted[i].path)
    BY <1>3, <1>4, <1>5, <1>7, <2>1, OverlapMeans
  <2> QED BY <1>1, <1>2, <1>4, <2>2
<1> QED BY <1>6, <1>7

\* Between two claims that overlap nothing changes the claim that covers the first.
LEMMA CoverStays ==
  ASSUME NEW sorted \in Seq(Claim), InOrder(sorted),
         NEW i \in 1..Len(sorted), NEW j \in 1..Len(sorted), i < j,
         Overlap(sorted[i].path, sorted[j].path)
  PROVE  Covering(sorted)[j] = Covering(sorted)[i]
<1> DEFINE n == Len(sorted)
<1>1. PICK cover : cover = Covering(sorted)
  OBVIOUS
<1>2. PICK k : k = cover[i]
  OBVIOUS
<1>3. n \in Nat /\ i \in 1..n /\ j \in 1..n
  OBVIOUS
<1>4. \A m \in 1..n : sorted[m].path \in Seq(Nat)
  <2>1. \A m \in 1..n : sorted[m] \in Claim
    OBVIOUS
  <2> QED BY <2>1 DEF Claim
<1>5. k \in 1..i /\ k \in 1..n /\ IsPrefix(sorted[k].path, sorted[i].path)
  BY <1>1, <1>2, CoverContains
<1>6. ~ PathBefore(sorted[j].path, sorted[i].path)
  BY DEF InOrder
<1>7. IsPrefix(sorted[i].path, sorted[j].path)
  BY <1>3, <1>4, <1>6, OverlapMeans
<1>8. ASSUME NEW m \in 1..n, i < m, m <= j
      PROVE  Overlap(sorted[k].path, sorted[m].path)
  <2>1. ~ PathBefore(sorted[m].path, sorted[i].path)
    BY <1>3, <1>8 DEF InOrder
  <2>2. m # j => ~ PathBefore(sorted[j].path, sorted[m].path)
    BY <1>3, <1>8 DEF InOrder
  <2>3. IsPrefix(sorted[i].path, sorted[m].path)
    <3>1. CASE m = j
      BY <1>7, <3>1
    <3>2. CASE m # j
      BY <1>3, <1>4, <1>7, <2>1, <2>2, <3>2, SubtreeTogether
    <3> QED BY <3>1, <3>2
  <2>4. IsPrefix(sorted[k].path, sorted[m].path)
    BY <1>3, <1>4, <1>5, <2>3, PrefixOfPrefix
  <2> QED BY <2>4 DEF Overlap
<1>9. \A m \in 1..n : cover[m] = IF cover[m - 1] # 0
                                      /\ Overlap(sorted[cover[m - 1]].path, sorted[m].path)
                                   THEN cover[m - 1] ELSE m
  BY <1>1, CoveringUnfold
<1> HIDE DEF n
<1> DEFINE X == { m \in 0..n : i <= m /\ m <= j => cover[m] = k }
<1>10. 0 \in X
  BY <1>3
<1>11. ASSUME NEW m \in 0..(n - 1), m \in X PROVE m + 1 \in X
  <2>1. m + 1 \in 1..n /\ (m + 1) - 1 = m /\ m \in Nat
    BY <1>3, <1>11
  <2>2. CASE m + 1 = i
    BY <1>2, <2>1, <2>2
  <2>3. CASE i < m + 1 /\ m + 1 <= j
    <3>1. i <= m /\ m <= j
      BY <1>3, <2>1, <2>3
    <3>2. cover[m] = k /\ k # 0
      BY <1>5, <1>11, <3>1
    <3>3. Overlap(sorted[k].path, sorted[m + 1].path)
      BY <1>8, <2>1, <2>3
    <3>4. cover[m + 1] = k
      BY <1>9, <2>1, <3>2, <3>3
    <3> QED BY <2>1, <3>4
  <2>4. CASE m + 1 < i \/ j < m + 1
    BY <1>3, <2>1, <2>4
  <2> QED BY <1>3, <2>1, <2>2, <2>3, <2>4
<1>12. j \in X
  <2>1. j \in 0..n
    BY <1>3
  <2> HIDE DEF X
  <2> QED BY <1>3, <1>10, <1>11, <2>1, UpTo
<1> QED BY <1>1, <1>2, <1>3, <1>12

\* In component order one sweep finds exactly the claims of two owners that overlap.
LEMMA SweepMeans ==
  ASSUME NEW sorted \in Seq(Claim), InOrder(sorted)
  PROVE  Sweep(sorted) <=> OwnersOverlap(sorted)
<1>1. DOMAIN sorted = 1..Len(sorted) /\ Len(sorted) \in Nat
  OBVIOUS
<1>2. ASSUME Sweep(sorted) PROVE OwnersOverlap(sorted)
  <2>1. PICK i \in DOMAIN sorted : sorted[Covering(sorted)[i]].owner # sorted[i].owner
    BY <1>2 DEF Sweep
  <2>2. PICK k : k = Covering(sorted)[i]
    OBVIOUS
  <2>3. k # i /\ k \in 1..i /\ k \in DOMAIN sorted
    BY <1>1, <2>1, <2>2, CoverContains
  <2>4. Overlap(sorted[k].path, sorted[i].path)
    BY <1>1, <2>2, <2>3, CoverContains
  <2> QED BY <2>1, <2>2, <2>3, <2>4 DEF OwnersOverlap
<1>3. ASSUME ~ Sweep(sorted),
             NEW i \in DOMAIN sorted, NEW j \in DOMAIN sorted, i < j,
             Overlap(sorted[i].path, sorted[j].path)
      PROVE  sorted[i].owner = sorted[j].owner
  <2>1. Covering(sorted)[j] = Covering(sorted)[i]
    BY <1>1, <1>3, CoverStays
  <2> QED BY <1>3, <2>1 DEF Sweep
<1>4. ASSUME OwnersOverlap(sorted) PROVE Sweep(sorted)
  <2>1. PICK i, j \in DOMAIN sorted :
          sorted[i].owner # sorted[j].owner /\ Overlap(sorted[i].path, sorted[j].path)
    BY <1>4 DEF OwnersOverlap
  <2>2. Overlap(sorted[j].path, sorted[i].path)
    BY <2>1 DEF Overlap
  <2>3. i < j \/ j < i
    <3>1. i # j
      BY <2>1
    <3> QED BY <1>1, <3>1
  <2> QED BY <1>3, <2>1, <2>2, <2>3
<1> QED BY <1>2, <1>4

\* Sorting puts the same claims in order.
LEMMA SortedMeans ==
  ASSUME NEW claims \in Seq(Claim), NEW sorted \in Sorted(claims)
  PROVE  /\ sorted \in Seq(Claim) /\ InOrder(sorted)
         /\ OwnersOverlap(sorted) <=> OwnersOverlap(claims)
<1> DEFINE D == DOMAIN claims
<1>1. PICK order \in Bijection(D, D) :
        /\ \A i, j \in D : i < j => ~ Before(claims[order[j]], claims[order[i]])
        /\ sorted = [i \in D |-> claims[order[i]]]
  BY DEF Sorted
<1>2. order \in [D -> D] /\ \A w \in D : \E v \in D : order[v] = w
  BY <1>1 DEF Bijection, Injection, Surjection
<1>3. D = 1..Len(claims) /\ Len(claims) \in Nat /\ \A i \in D : claims[i] \in Claim
  OBVIOUS
<1> HIDE DEF D
<1>4. DOMAIN sorted = D /\ \A i \in D : sorted[i] = claims[order[i]] /\ order[i] \in D
  BY <1>1, <1>2
<1>5. sorted \in Seq(Claim) /\ Len(sorted) = Len(claims)
  <2>1. sorted \in [1..Len(claims) -> Claim]
    BY <1>1, <1>2, <1>3
  <2> QED BY <1>3, <2>1
<1>6. InOrder(sorted)
  <2>1. \A i, j \in D : i < j => ~ PathBefore(claims[order[j]].path, claims[order[i]].path)
    BY <1>1 DEF Before
  <2>2. \A i \in D : sorted[i].path = claims[order[i]].path
    BY <1>4
  <2>3. 1..Len(sorted) = D
    BY <1>3, <1>5
  <2>4. \A i, j \in D : i < j => ~ PathBefore(sorted[j].path, sorted[i].path)
    BY <2>1, <2>2
  <2>5. \A i, j \in 1..Len(sorted) : i < j => ~ PathBefore(sorted[j].path, sorted[i].path)
    BY <2>3, <2>4, Zenon
  <2> QED BY <2>5 DEF InOrder
<1>7. ASSUME OwnersOverlap(sorted) PROVE OwnersOverlap(claims)
  <2>1. PICK i, j \in D :
          sorted[i].owner # sorted[j].owner /\ Overlap(sorted[i].path, sorted[j].path)
    BY <1>4, <1>7 DEF OwnersOverlap
  <2>2. PICK v, w \in D : v = order[i] /\ w = order[j]
    BY <1>4, <2>1
  <2>3. sorted[i] = claims[v] /\ sorted[j] = claims[w]
    BY <1>4, <2>1, <2>2
  <2>4. claims[v].owner # claims[w].owner /\ Overlap(claims[v].path, claims[w].path)
    BY <2>1, <2>3
  <2> QED BY <2>4 DEF OwnersOverlap, D
<1>8. ASSUME OwnersOverlap(claims) PROVE OwnersOverlap(sorted)
  <2>1. PICK i, j \in D :
          claims[i].owner # claims[j].owner /\ Overlap(claims[i].path, claims[j].path)
    BY <1>8 DEF OwnersOverlap, D
  <2>2. PICK v, w \in D : order[v] = i /\ order[w] = j
    BY <1>2, <2>1
  <2>3. sorted[v] = claims[i] /\ sorted[w] = claims[j]
    BY <1>4, <2>2
  <2> QED BY <1>4, <2>1, <2>2, <2>3 DEF OwnersOverlap
<1> QED BY <1>5, <1>6, <1>7, <1>8

\* Component order is strict.
LEMMA PathOrder ==
  /\ \A p \in Seq(Nat) : ~ PathBefore(p, p)
  /\ \A p, q, r \in Seq(Nat) : PathBefore(p, q) /\ PathBefore(q, r) => PathBefore(p, r)
<1>1. ASSUME NEW p \in Seq(Nat) PROVE ~ PathBefore(p, p)
  <2>1. \A i \in DOMAIN p : p[i] \in Nat
    OBVIOUS
  <2>2. ~ \E i \in DOMAIN p : p[i] < p[i]
    BY <2>1
  <2> QED BY <2>2 DEF PathBefore, IsStrictPrefix
<1>2. ASSUME NEW p \in Seq(Nat), NEW q \in Seq(Nat), NEW r \in Seq(Nat),
             PathBefore(p, q), PathBefore(q, r)
      PROVE  PathBefore(p, r)
  <2>1. /\ Len(p) \in Nat /\ Len(q) \in Nat /\ Len(r) \in Nat
        /\ DOMAIN p = 1..Len(p) /\ DOMAIN q = 1..Len(q) /\ DOMAIN r = 1..Len(r)
        /\ \A i \in 1..Len(p) : p[i] \in Nat
        /\ \A i \in 1..Len(q) : q[i] \in Nat
        /\ \A i \in 1..Len(r) : r[i] \in Nat
    OBVIOUS
  <2>2. IsPrefix(p, q) <=> Len(p) <= Len(q) /\ \A i \in 1..Len(p) : p[i] = q[i]
    BY PrefixMeans
  <2>3. IsPrefix(q, r) <=> Len(q) <= Len(r) /\ \A i \in 1..Len(q) : q[i] = r[i]
    BY PrefixMeans
  <2>4. CASE IsStrictPrefix(p, q) /\ IsStrictPrefix(q, r)
    <3>1. IsPrefix(p, r)
      BY <2>4, PrefixOfPrefix DEF IsStrictPrefix
    <3>2. Len(p) <= Len(q) /\ Len(q) <= Len(r) /\ \A i \in 1..Len(p) : p[i] = q[i]
      BY <2>2, <2>3, <2>4 DEF IsStrictPrefix
    <3>3. Len(p) # Len(q)
      BY <2>4, <3>2, SeqEqual DEF IsStrictPrefix
    <3>4. Len(p) # Len(r)
      <4>1. PICK a, b, c \in Nat : a = Len(p) /\ b = Len(q) /\ c = Len(r)
        BY <2>1
      <4>2. a <= b /\ b <= c /\ a # b
        BY <3>2, <3>3, <4>1
      <4>3. a # c
        BY <4>2
      <4> QED BY <4>1, <4>3
    <3> QED BY <3>1, <3>4 DEF PathBefore, IsStrictPrefix
  <2>5. ASSUME IsStrictPrefix(p, q),
               NEW i \in DOMAIN q \cap DOMAIN r, q[i] < r[i],
               \A j \in 1..(i - 1) : q[j] = r[j]
        PROVE  PathBefore(p, r)
    <3>1. Len(p) <= Len(q) /\ \A k \in 1..Len(p) : p[k] = q[k]
      BY <2>2, <2>5 DEF IsStrictPrefix
    <3>2. CASE i <= Len(p)
      <4>1. i \in DOMAIN p \cap DOMAIN r /\ p[i] < r[i]
        BY <2>1, <2>5, <3>1, <3>2
      <4>2. \A j \in 1..(i - 1) : p[j] = r[j]
        BY <2>1, <2>5, <3>1, <3>2
      <4> QED BY <4>1, <4>2 DEF PathBefore
    <3>3. CASE Len(p) < i
      <4>1. Len(p) < Len(r) /\ i \in Nat
        BY <2>1, <2>5, <3>3
      <4>2. \A k \in 1..Len(p) : k \in 1..(i - 1)
        BY <2>1, <3>3, <4>1
      <4>3. \A k \in 1..Len(p) : p[k] = r[k]
        BY <2>5, <3>1, <4>2
      <4>4. IsPrefix(p, r)
        <5>1. Len(p) <= Len(r)
          BY <2>1, <4>1
        <5> QED BY <4>3, <5>1, PrefixMeans
      <4>5. p # r
        BY <2>1, <4>1
      <4> QED BY <4>4, <4>5 DEF PathBefore, IsStrictPrefix
    <3> QED BY <2>1, <3>2, <3>3
  <2>6. ASSUME IsStrictPrefix(q, r),
               NEW i \in DOMAIN p \cap DOMAIN q, p[i] < q[i],
               \A j \in 1..(i - 1) : p[j] = q[j]
        PROVE  PathBefore(p, r)
    <3>1. Len(q) <= Len(r) /\ \A k \in 1..Len(q) : q[k] = r[k]
      BY <2>3, <2>6 DEF IsStrictPrefix
    <3>2. i \in DOMAIN p \cap DOMAIN r /\ p[i] < r[i]
      BY <2>1, <2>6, <3>1
    <3>3. \A j \in 1..(i - 1) : p[j] = r[j]
      BY <2>1, <2>6, <3>1
    <3> QED BY <3>2, <3>3 DEF PathBefore
  <2>7. ASSUME NEW i \in DOMAIN p \cap DOMAIN q, p[i] < q[i],
               \A j \in 1..(i - 1) : p[j] = q[j],
               NEW k \in DOMAIN q \cap DOMAIN r, q[k] < r[k],
               \A j \in 1..(k - 1) : q[j] = r[j]
        PROVE  PathBefore(p, r)
    <3>1. CASE i <= k
      <4>1. i \in DOMAIN p \cap DOMAIN r /\ p[i] < r[i]
        <5>1. i < k => q[i] = r[i]
          <6>1. i < k => i \in 1..(k - 1)
            BY <2>1, <2>7
          <6> QED BY <2>7, <6>1
        <5>2. i \in DOMAIN r
          BY <2>1, <2>7, <3>1
        <5>3. CASE i = k
          BY <2>1, <2>7, <5>2, <5>3
        <5>4. CASE i < k
          BY <2>1, <2>7, <5>1, <5>2, <5>4
        <5> QED BY <2>1, <3>1, <5>3, <5>4
      <4>2. \A j \in 1..(i - 1) : p[j] = r[j]
        BY <2>1, <2>7, <3>1
      <4> QED BY <4>1, <4>2 DEF PathBefore
    <3>2. CASE k < i
      <4>1. k \in DOMAIN p \cap DOMAIN r /\ p[k] < r[k]
        <5>1. p[k] = q[k]
          <6>1. k \in 1..(i - 1)
            BY <2>1, <2>7, <3>2
          <6> QED BY <2>7, <6>1
        <5>2. k \in DOMAIN p
          BY <2>1, <2>7, <3>2
        <5> QED BY <2>7, <5>1, <5>2
      <4>2. \A j \in 1..(k - 1) : p[j] = r[j]
        BY <2>1, <2>7, <3>2
      <4> QED BY <4>1, <4>2 DEF PathBefore
    <3> QED BY <2>1, <3>1, <3>2
  <2> QED BY <1>2, <2>4, <2>5, <2>6, <2>7 DEF PathBefore
<1> QED BY <1>1, <1>2

\* There is an order of claims in which none is before one that precedes it.
LEMMA ClaimsCanBeSorted ==
  ASSUME NEW claims \in Seq(Claim)
  PROVE  Sorted(claims) # {}
<1> DEFINE n == Len(claims)
           B(x, y) == PathBefore(claims[x].path, claims[y].path)
           Orders(o, m) ==
             /\ o \in [1..m -> 1..m]
             /\ \A i, j \in 1..m : o[i] = o[j] => i = j
             /\ \A w \in 1..m : \E v \in 1..m : o[v] = w
             /\ \A i, j \in 1..m : i < j => ~ B(o[j], o[i])
           X == { m \in 0..n : \E o : Orders(o, m) }
<1>1. n \in Nat /\ DOMAIN claims = 1..n
  OBVIOUS
<1>2. \A x \in 1..n : claims[x].path \in Seq(Nat)
  <2>1. \A x \in 1..n : claims[x] \in Claim
    OBVIOUS
  <2> QED BY <2>1 DEF Claim
<1>3. /\ \A x \in 1..n : ~ B(x, x)
      /\ \A x, y, z \in 1..n : B(x, y) /\ B(y, z) => B(x, z)
  BY <1>2, PathOrder
<1>4. \A x, y : B(x, y) <=> PathBefore(claims[x].path, claims[y].path)
  OBVIOUS
<1> HIDE DEF B, n
<1>5. 0 \in X
  <2>1. PICK o : o = [i \in 1..0 |-> i]
    OBVIOUS
  <2>2. \A i \in 1..0 : FALSE
    OBVIOUS
  <2>3. o \in [1..0 -> 1..0]
    BY <2>1
  <2>4. Orders(o, 0)
    BY <2>2, <2>3
  <2>5. 0 \in 0..n
    BY <1>1
  <2> QED BY <2>4, <2>5
<1>6. ASSUME NEW m \in 0..(n - 1), m \in X PROVE m + 1 \in X
  <2>1. PICK o : Orders(o, m)
    BY <1>6
  <2>2. /\ m \in Nat /\ m + 1 \in Nat /\ m + 1 \in 0..n /\ m + 1 \in 1..n
        /\ \A i \in 1..m : o[i] \in 1..m /\ o[i] \in 1..n /\ o[i] # m + 1
    <3>1. \A i \in 1..m : o[i] \in 1..m
      BY <2>1
    <3>2. \A x \in 1..m : x \in 1..n /\ x # m + 1
      BY <1>1, <1>6
    <3>3. m \in Nat /\ m + 1 \in Nat /\ m + 1 \in 0..n /\ m + 1 \in 1..n
      BY <1>1, <1>6
    <3> QED BY <3>1, <3>2, <3>3
  <2> DEFINE After == { i \in Nat : i = m + 1 \/ (i \in 1..m /\ B(m + 1, o[i])) }
  <2>3. PICK k \in After : \A i \in After : ~ (<<i, k>> \in OpToRel(<, Nat))
    <3>1. m + 1 \in After
      BY <2>2
    <3> QED BY <3>1, NatLessThanWellFounded, WFMin, Zenon
  <2>4. /\ k \in 1..(m + 1) /\ (k # m + 1 => B(m + 1, o[k]))
        /\ \A i \in 1..m : i < k => ~ B(m + 1, o[i])
    <3>1. k \in Nat /\ (k = m + 1 \/ (k \in 1..m /\ B(m + 1, o[k])))
      BY <2>3
    <3>2. \A i \in Nat : i < k => i \notin After
      BY <2>3, <3>1 DEF OpToRel
    <3>3. \A i \in 1..m : i < k => ~ B(m + 1, o[i])
      <4> TAKE i \in 1..m
      <4>1. i \in Nat /\ (i < k => i \notin After)
        BY <2>2, <3>2
      <4> QED BY <4>1
    <3>4. k \in 1..(m + 1)
      BY <2>2, <3>1
    <3> QED BY <3>1, <3>3, <3>4
  <2>5. ASSUME NEW i \in 1..m, k <= i PROVE ~ B(o[i], m + 1)
    <3>1. k \in 1..m /\ B(m + 1, o[k])
      BY <2>2, <2>4, <2>5
    <3>2. CASE i = k
      BY <1>3, <2>2, <3>1, <3>2
    <3>3. CASE i # k
      <4>1. ~ B(o[i], o[k])
        BY <2>1, <2>2, <2>5, <3>1, <3>3
      <4> QED BY <1>3, <2>2, <3>1, <4>1
    <3> QED BY <3>2, <3>3
  <2> DEFINE e == [i \in 1..(m + 1) |->
                     IF i < k THEN o[i] ELSE IF i = k THEN m + 1 ELSE o[i - 1]]
  <2>6. /\ \A i \in 1..(m + 1) : i < k => i \in 1..m /\ e[i] = o[i]
        /\ e[k] = m + 1
        /\ \A i \in 1..(m + 1) : k < i => i - 1 \in 1..m /\ e[i] = o[i - 1]
        /\ DOMAIN e = 1..(m + 1)
    BY <2>2, <2>4
  <2>7. e = [i \in 1..(m + 1) |-> e[i]]
    OBVIOUS
  <2> HIDE DEF e, After
  <2>8. \A i \in 1..(m + 1) : i < k \/ i = k \/ k < i
    BY <2>2, <2>4
  <2>9. \A i \in 1..(m + 1) : e[i] \in 1..(m + 1)
    <3> TAKE i \in 1..(m + 1)
    <3>1. \A x \in 1..m : x \in 1..(m + 1)
      BY <2>2
    <3>2. \A x \in 1..m : o[x] \in 1..(m + 1)
      BY <2>2, <3>1
    <3>3. m + 1 \in 1..(m + 1)
      BY <2>2
    <3>4. CASE i < k
      BY <2>6, <3>2, <3>4
    <3>5. CASE i = k
      BY <2>6, <3>3, <3>5
    <3>6. CASE k < i
      BY <2>6, <3>2, <3>6
    <3> QED BY <2>8, <3>4, <3>5, <3>6
  <2>10. ASSUME NEW i \in 1..(m + 1), NEW j \in 1..(m + 1), e[i] = e[j] PROVE i = j
    <3>1. i = k <=> j = k
      BY <2>2, <2>6, <2>8, <2>10
    <3>2. CASE i < k /\ j < k
      BY <2>1, <2>6, <2>10, <3>2
    <3>3. CASE k < i /\ k < j
      <4>1. i - 1 = j - 1
        BY <2>1, <2>6, <2>10, <3>3
      <4> QED BY <2>2, <4>1
    <3>4. CASE i < k /\ k < j
      <4>1. i = j - 1
        BY <2>1, <2>6, <2>10, <3>4
      <4> QED BY <2>2, <2>4, <3>4, <4>1
    <3>5. CASE k < i /\ j < k
      <4>1. i - 1 = j
        BY <2>1, <2>6, <2>10, <3>5
      <4> QED BY <2>2, <2>4, <3>5, <4>1
    <3> QED BY <2>8, <3>1, <3>2, <3>3, <3>4, <3>5
  <2>11. ASSUME NEW w \in 1..(m + 1) PROVE \E v \in 1..(m + 1) : e[v] = w
    <3>1. CASE w = m + 1
      BY <2>4, <2>6, <3>1
    <3>2. CASE w # m + 1
      <4>1. w \in 1..m
        BY <2>2, <3>2
      <4>2. PICK v \in 1..m : o[v] = w
        BY <2>1, <4>1
      <4>3. CASE v < k
        <5>1. v \in 1..(m + 1) /\ e[v] = o[v]
          BY <2>2, <2>6, <4>3
        <5> QED BY <4>2, <5>1
      <4>4. CASE k <= v
        <5>1. v + 1 \in 1..(m + 1) /\ k < v + 1 /\ (v + 1) - 1 = v
          BY <2>2, <2>4, <4>4
        <5>2. e[v + 1] = o[v]
          BY <2>6, <5>1
        <5> QED BY <4>2, <5>1, <5>2
      <4> QED BY <2>2, <2>4, <4>3, <4>4
    <3> QED BY <3>1, <3>2
  <2>12. ASSUME NEW i \in 1..(m + 1), NEW j \in 1..(m + 1), i < j PROVE ~ B(e[j], e[i])
    <3>1. CASE j < k
      <4>1. i < k
        BY <2>2, <2>4, <2>12, <3>1
      <4> QED BY <2>1, <2>6, <2>12, <3>1, <4>1
    <3>2. CASE j = k
      BY <2>4, <2>6, <2>12, <3>2
    <3>3. CASE k < j /\ i < k
      <4>1. i \in 1..m /\ j - 1 \in 1..m /\ e[i] = o[i] /\ e[j] = o[j - 1]
        BY <2>6, <3>3
      <4>2. i < j - 1
        BY <2>2, <2>4, <3>3
      <4> QED BY <2>1, <4>1, <4>2
    <3>4. CASE k < j /\ i = k
      <4>1. j - 1 \in 1..m /\ e[j] = o[j - 1] /\ e[i] = m + 1
        BY <2>6, <3>4
      <4>2. k <= j - 1
        BY <2>2, <2>4, <3>4
      <4> QED BY <2>5, <4>1, <4>2
    <3>5. CASE k < j /\ k < i
      <4>1. i - 1 \in 1..m /\ j - 1 \in 1..m /\ e[i] = o[i - 1] /\ e[j] = o[j - 1]
        BY <2>6, <3>5
      <4>2. i - 1 < j - 1
        BY <2>2, <2>12
      <4> QED BY <2>1, <4>1, <4>2
    <3> QED BY <2>8, <3>1, <3>2, <3>3, <3>4, <3>5
  <2>13. e \in [1..(m + 1) -> 1..(m + 1)]
    BY <2>7, <2>9
  <2>14. Orders(e, m + 1)
    BY <2>10, <2>11, <2>12, <2>13
  <2> QED BY <2>2, <2>14
<1>7. PICK o : Orders(o, n)
  <2> HIDE DEF X
  <2>1. n \in X
    <3>1. n \in 0..n
      BY <1>1
    <3> QED BY <1>1, <1>5, <1>6, <3>1, UpTo
  <2> QED BY <2>1 DEF X
<1>8. o \in Bijection(DOMAIN claims, DOMAIN claims)
  BY <1>1, <1>7 DEF Bijection, Injection, Surjection, IsInjective
<1>9. \A i, j \in DOMAIN claims : i < j => ~ Before(claims[o[j]], claims[o[i]])
  BY <1>1, <1>4, <1>7 DEF Before
<1> QED BY <1>8, <1>9 DEF Sorted

\* The sweep finds an overlap exactly where two owners claim paths that overlap
\* (validate_strategy_transition), however deep the claims are nested and however equal ones fall.
THEOREM SweepIsExact ==
  ASSUME NEW claims \in Seq(Claim)
  PROVE  /\ SweepFindsOverlap(claims) <=> OwnersOverlap(claims)
         /\ \A sorted \in Sorted(claims) : Sweep(sorted) <=> OwnersOverlap(claims)
<1>1. \A sorted \in Sorted(claims) : Sweep(sorted) <=> OwnersOverlap(claims)
  BY SortedMeans, SweepMeans
<1>2. Sorted(claims) # {}
  BY ClaimsCanBeSorted
<1> QED BY <1>1, <1>2 DEF SweepFindsOverlap

-----------------------------------------------------------------------------
(* What is selected is lawful. *)

\* A record has no overlapping owners, a selected matrix demands no more agents than it may have.
Lawful(p, content) ==
  content # Absent =>
    /\ \A id \in OpId : p = History(id) => ~ OwnersOverlap(content.claims)
    /\ \A phase \in Phase, r \in Selections :
         p = Matrix(phase) /\ content.matrix = r.matrix =>
           Demand(r.matrix.workers) <= r.matrix.capacity

FilesLawful == \A p \in Path : Lawful(p, Content(p))

\* A preview holds lawful files, and is going to write lawful ones.
PreviewLawful(c) ==
  preview[c] # None =>
    /\ \A p \in DOMAIN preview[c].inputs : Lawful(p, preview[c].inputs[p].content)
    /\ \A i \in 1..Len(preview[c].writes) :
         Lawful(preview[c].writes[i], preview[c].changes[preview[c].writes[i]])

LawInv == FilesLawful /\ \A c \in Client : PreviewLawful(c)

\* A matrix that may be selected demands no more agents than it may have.
LEMMA SelectableFits ==
  ASSUME NEW r \in Selections, Selectable(r.matrix)
  PROVE  Demand(r.matrix.workers) <= r.matrix.capacity
<1>1. r.matrix.workers \in Seq(StrategyWorker)
  BY RequestAssumption
<1>2. CheckedTotal(r.matrix.workers) \in 0..r.matrix.capacity
  BY DEF Selectable
<1>3. CheckedTotal(r.matrix.workers) # -1
  BY <1>2
<1>4. CheckedTotal(r.matrix.workers) = Demand(r.matrix.workers)
  BY <1>1, <1>3, CheckedTotalMeans
<1> QED BY <1>2, <1>4

\* What passes the checks writes lawful files.
LEMMA PassedLawful ==
  ASSUME FilesLawful, NEW r \in Request, Passes(r), NEW p \in ToSet(Targets(r))
  PROVE  Lawful(p, Proposed(r)[p])
<1>1. CASE r.op = "bind"
  <2>1. p = Binding
    BY <1>1, TargetsSet
  <2> QED BY <2>1, PathsDiffer DEF Lawful
<1>2. CASE r.op = "select"
  <2>1. r \in Selections /\ r.id \in OpId
    BY <1>2, RequestShape DEF Selections
  <2>2. SelectionPasses(r)
    BY <1>2 DEF Passes
  <2>3. p = Matrix(r.matrix.phase) \/ p = History(r.id)
    BY <1>2, TargetsSet
  <2>4. CASE p = Matrix(r.matrix.phase)
    <3>1. Proposed(r)[p] = ProposedMatrix(r)
      BY <1>2, <2>4, PathsDiffer DEF Proposed
    <3>2. ProposedMatrix(r).matrix = r.matrix
      BY DEF ProposedMatrix, SameText
    <3>3. Demand(r.matrix.workers) <= r.matrix.capacity
      BY <2>1, <2>2, SelectableFits DEF SelectionPasses
    <3>4. \A id : p # History(id)
      BY <2>4, PathsDiffer
    <3>5. ASSUME NEW s \in Selections, ProposedMatrix(r).matrix = s.matrix
          PROVE  Demand(s.matrix.workers) <= s.matrix.capacity
      BY <3>2, <3>3, <3>5
    <3> QED BY <3>1, <3>4, <3>5 DEF Lawful
  <2>5. CASE p = History(r.id)
    <3>1. Proposed(r)[p] = ProposedRecord(r)
      BY <1>2, <2>5 DEF Proposed
    <3>2. p \in Path /\ \A phase : p # Matrix(phase)
      BY <2>1, <2>5, PathsExist, PathsDiffer
    <3>3. CASE Exists(History(r.id))
      <4>1. ProposedRecord(r) = Content(p)
        BY <2>5, <3>3 DEF ProposedRecord
      <4> QED BY <3>1, <3>2, <4>1 DEF FilesLawful
    <3>4. CASE ~ Exists(History(r.id))
      <4>1. ProposedRecord(r).claims = r.claims
        BY <3>4 DEF ProposedRecord, FreshRecord
      <4>2. ~ SweepFindsOverlap(r.claims)
        BY <2>2, <3>4 DEF SelectionPasses, SelectionIntroduces
      <4>3. ~ OwnersOverlap(r.claims)
        BY <2>1, <4>2, SweepIsExact, RequestAssumption
      <4> QED BY <3>1, <3>2, <4>1, <4>3 DEF Lawful
    <3> QED BY <3>3, <3>4
  <2> QED BY <2>3, <2>4, <2>5
<1> QED BY <1>1, <1>2, RequestShape

\* Nobody starts with a preview.
LEMMA LawInit == Init /\ SelectedIsLawful => LawInv
<1> SUFFICES ASSUME Init, SelectedIsLawful PROVE LawInv
  OBVIOUS
<1>1. \A c \in Client : preview[c] = None
  BY DEF Init
<1>2. ASSUME NEW p \in Path, Content(p) # Absent PROVE Lawful(p, Content(p))
  <2>1. \A id \in OpId : p = History(id) => ~ OwnersOverlap(Content(p).claims)
    BY <1>2 DEF SelectedIsLawful, Exists
  <2>2. \A phase \in Phase, r \in Selections :
          p = Matrix(phase) /\ Content(p).matrix = r.matrix =>
            Demand(r.matrix.workers) <= r.matrix.capacity
    BY <1>2 DEF SelectedIsLawful, Exists
  <2> QED BY <2>1, <2>2 DEF Lawful
<1>3. FilesLawful
  BY <1>2 DEF FilesLawful, Lawful
<1> QED BY <1>1, <1>3 DEF LawInv, PreviewLawful

\* Lawful files are what the property asks for.
LEMMA LawShows == LawInv => SelectedIsLawful
<1> SUFFICES ASSUME FilesLawful PROVE SelectedIsLawful
  BY DEF LawInv
<1>1. ASSUME NEW id \in OpId, Exists(History(id))
      PROVE  ~ OwnersOverlap(Content(History(id)).claims)
  <2>1. Lawful(History(id), Content(History(id)))
    BY PathsExist DEF FilesLawful
  <2> QED BY <1>1, <2>1 DEF Lawful, Exists
<1>2. ASSUME NEW r \in Selections, NEW phase \in Phase,
             Exists(Matrix(phase)), Content(Matrix(phase)).matrix = r.matrix
      PROVE  Demand(r.matrix.workers) <= r.matrix.capacity
  <2>1. Lawful(Matrix(phase), Content(Matrix(phase)))
    BY PathsExist DEF FilesLawful
  <2> QED BY <1>2, <2>1 DEF Lawful, Exists
<1> QED BY <1>1, <1>2 DEF SelectedIsLawful

\* One file is written with a lawful content, and the previews stay.
LEMMA LawfulWrite ==
  ASSUME LawInv, UNCHANGED preview, NEW p \in Path, Lawful(p, file'[p].content),
         \A q \in Path \ {p} : file'[q] = file[q]
  PROVE  LawInv'
<1>1. \A q \in Path : Lawful(q, file'[q].content)
  BY DEF LawInv, FilesLawful, Content
<1>2. FilesLawful'
  BY <1>1 DEF FilesLawful, Content, Lawful
<1>3. \A c \in Client : PreviewLawful(c)'
  BY DEF LawInv, PreviewLawful, Lawful
<1> QED BY <1>2, <1>3 DEF LawInv

\* A preview that passes is of lawful files and writes lawful ones.
LEMMA PreviewLaw ==
  ASSUME GovernanceInv, LawInv, NEW c \in Client, Preview(c)
  PROVE  LawInv'
<1>1. PICK r \in Request :
        preview' = [preview EXCEPT ![c] = IF Passes(r) THEN Prepared(r) ELSE None]
  BY DEF Preview
<1>2. UNCHANGED file /\ FilesLawful /\ DOMAIN preview = Client
  BY DEF Preview, LawInv, GovernanceInv, ShapeInv
<1>3. FilesLawful'
  BY <1>2 DEF FilesLawful, Content, Lawful
<1>4. ASSUME NEW d \in Client, d # c PROVE PreviewLawful(d)'
  <2>1. preview'[d] = preview[d] /\ PreviewLawful(d)
    BY <1>1, <1>2, <1>4 DEF LawInv
  <2> QED BY <2>1 DEF PreviewLawful, Lawful
<1>5. PreviewLawful(c)'
  <2>1. CASE ~ Passes(r)
    <3>1. preview'[c] = None
      BY <1>1, <1>2, <2>1
    <3> QED BY <3>1 DEF PreviewLawful
  <2>2. CASE Passes(r)
    <3>1. PICK plan : plan = Prepared(r)
      OBVIOUS
    <3>2. preview'[c] = plan
      BY <1>1, <1>2, <2>2, <3>1
    <3>3. /\ plan.changes = Proposed(r) /\ plan.writes = Writes(r)
          /\ plan.inputs = [p \in Reads(r) |-> file[p]]
      BY <3>1 DEF Prepared
    <3>4. \A p \in Reads(r) : p \in Path /\ plan.inputs[p].content = Content(p)
      BY <3>3, ReadsSet DEF Content
    <3>5. \A p \in DOMAIN plan.inputs : Lawful(p, plan.inputs[p].content)
      BY <1>2, <3>3, <3>4 DEF FilesLawful
    <3>6. \A i \in 1..Len(plan.writes) : Lawful(plan.writes[i], plan.changes[plan.writes[i]])
      BY <1>2, <2>2, <3>3, PassedLawful, WritesShape
    <3> QED BY <3>2, <3>5, <3>6 DEF PreviewLawful, Lawful
  <2> QED BY <2>1, <2>2
<1> QED BY <1>3, <1>4, <1>5 DEF LawInv

\* What a client does keeps the files and the previews lawful.
LEMMA ClientLaw ==
  ASSUME GovernanceInv, LawInv, NEW c \in Client, Operate(c)
  PROVE  LawInv'
<1>1. CASE Preview(c)
  BY <1>1, PreviewLaw
<1>2. CASE Publish(c)
  <2>1. PICK p \in Path :
          /\ pc[c] = "publish" /\ file'[p].content = preview[c].changes[p]
          /\ \E i \in 1..Len(preview[c].writes) : preview[c].writes[i] = p
          /\ \A q \in Path \ {p} : file'[q] = file[q]
    BY <1>2, PublishDoes
  <2>2. preview[c] # None /\ PreviewLawful(c) /\ UNCHANGED preview
    BY <1>2, <2>1, WorkPlan DEF LawInv, Working, Publish
  <2>3. Lawful(p, file'[p].content)
    BY <2>1, <2>2 DEF PreviewLawful
  <2> QED BY <2>1, <2>2, <2>3, LawfulWrite
<1>3. CASE Restore(c)
  <2>1. PICK p \in Path :
          /\ pc[c] = "rollback" /\ task[c] \in Request /\ preview[c].request = task[c]
          /\ p \in ToSet(Targets(task[c])) /\ file'[p].content = preview[c].inputs[p].content
          /\ \A q \in Path \ {p} : file'[q] = file[q]
    BY <1>3, RestoreDoes
  <2>2. preview[c] # None /\ PreviewLawful(c) /\ PreviewOK(c) /\ UNCHANGED preview
    BY <1>3, <2>1, WorkPlan DEF LawInv, Working, Restore, GovernanceInv, ClientInv
  <2>3. p \in DOMAIN preview[c].inputs
    BY <2>1, <2>2, ReadsSet DEF PreviewOK
  <2>4. Lawful(p, file'[p].content)
    BY <2>1, <2>2, <2>3 DEF PreviewLawful
  <2> QED BY <2>1, <2>2, <2>4, LawfulWrite
<1>4. CASE ~ Preview(c) /\ ~ Publish(c) /\ ~ Restore(c)
  <2>1. UNCHANGED file
    BY <1>4, OtherDoes
  <2>2. UNCHANGED preview
    BY <1>4
    DEF Operate, Apply, RequireWriter, Begin, Acquire, CheckStale, CheckRefused, CheckNoOp,
        CheckPassed, Permit, Deny, PublishFails, Verify, VerifyFails, RestoreFails,
        FinishRollback, Fails, Crash
  <2> QED BY <2>1, <2>2 DEF LawInv, FilesLawful, PreviewLawful, Lawful, Content
<1> QED BY <1>1, <1>2, <1>3, <1>4

\* What happens from outside does as well: a matrix that is converted says what it said.
LEMMA OutsideLaw ==
  ASSUME GovernanceInv, LawInv, Advance \/ Edit \/ UNCHANGED vars
  PROVE  LawInv'
<1>1. PICK p \in Path :
        /\ p = Log \/ \E phase \in Phase :
                        /\ p = Matrix(phase) /\ file[p].content # Absent
                        /\ \/ file'[p].content = Absent
                           \/ file'[p].content.matrix = file[p].content.matrix
        /\ \A q \in Path \ {p} : file'[q] = file[q]
  BY OutsideDoes DEF GovernanceInv
<1>2. UNCHANGED preview
  BY DEF Advance, Edit, vars
<1>3. Lawful(p, file'[p].content)
  <2>1. CASE p = Log
    BY <2>1, PathsDiffer DEF Lawful
  <2>2. CASE p # Log
    <3>1. PICK phase \in Phase :
            /\ p = Matrix(phase) /\ file[p].content # Absent
            /\ \/ file'[p].content = Absent
               \/ file'[p].content.matrix = file[p].content.matrix
      BY <1>1, <2>2
    <3>2. Lawful(p, file[p].content)
      BY DEF LawInv, FilesLawful, Content
    <3>3. \A id : p # History(id)
      BY <3>1, PathsDiffer
    <3> QED BY <3>1, <3>2, <3>3 DEF Lawful
  <2> QED BY <2>1, <2>2
<1> QED BY <1>1, <1>2, <1>3, LawfulWrite

\* No record of a selection lets two owners claim overlapping paths, and no selected matrix demands
\* more agents than it may have, for a store of which that is true at first, whatever is cut off,
\* put back, edited or asked for again (validate_strategy_transition, parse_projection_table).
THEOREM WhatIsSelectedIsLawful == Spec /\ SelectedIsLawful => []SelectedIsLawful
<1>1. GovernanceInv /\ LawInv /\ [Next]_vars => LawInv'
  BY ClientLaw, OutsideLaw DEF Next, Finished
<1> QED BY <1>1, LawInit, LawShows, GovernanceInvariant, PTL DEF Spec
=============================================================================
