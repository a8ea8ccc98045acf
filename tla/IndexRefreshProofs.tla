-------------------------- MODULE IndexRefreshProofs --------------------------
(***************************************************************************)
(* Proofs about reads of the Store and of its index, for any number of     *)
(* processes, files, calls and events.  The argument: revisions do not     *)
(* recur, so what was collected and is in place again was in place all     *)
(* along; and an index that bears the revision of the Store says what no   *)
(* process that trusts it was told to be outdated.                         *)
(***************************************************************************)
EXTENDS IndexRefresh, TLAPS, SequenceTheorems

-----------------------------------------------------------------------------
(* What holds between the files, the index and the processes. *)

Scanning == {"open", "read", "verify", "compare", "publish"}

Projecting == {"project", "project again", "confirm"}

Trusting == {"baseline", "inspect"} \cup Projecting

Answering == {"check", "reconcile"}

Index == [id : 0..(clock - 1), legacy : BOOLEAN, rev : [File -> 0..(clock - 1)],
          data : [File -> Nat]]

\* The index is of this schema and bears the revision of the Store.
Usable == index # None /\ ~ index.legacy /\ index.rev = Revs

\* Nothing was reported to the process since it last reconciled, or since it last observed.
Reliable(p) == watch[p].epoch = watch[p].reconciled

Unreported(p) == watch[p].epoch = work[p].epoch /\ ~ watch[p].error

\* The Store as it is was recorded last, every revision is older than the clock, and a usable index
\* says what the Store was.
StoreInv ==
  /\ clock \in Nat \ {0}
  /\ file \in [File -> [rev : 0..(clock - 1), data : 0..(clock - 1)]]
  /\ \A v \in versions :
       v.at \in 0..(clock - 1) /\ v.rev \in [File -> 0..(clock - 1)] /\ v.data \in [File -> Nat]
  /\ \E v \in versions :
       v.rev = Revs /\ v.data = Datas /\ \A w \in versions : w.at <= v.at
  /\ index # None => index \in Index
  /\ Usable /\ ~ muddled => \E v \in versions : v.rev = Revs /\ v.data = index.data

ShapeInv ==
  /\ DOMAIN upgrade = Process /\ DOMAIN watch = Process /\ DOMAIN pending = Process
  /\ DOMAIN pc = Process /\ DOMAIN walk = Process /\ DOMAIN work = Process
  /\ DOMAIN answer = Process /\ DOMAIN seen = Process /\ DOMAIN noticed = Process
  /\ DOMAIN synced = Process /\ DOMAIN disturbed = Process

Work == [kind : {"none", "index", "files"}, epoch : Nat, inv : [File -> 0..(clock - 1)],
         scan : [File -> Nat] \cup {None}, source : [File -> 0..(clock - 1)] \cup {None},
         id : 0..(clock - 1), read : Seq([File -> Nat])]

\* What a process has, by what it does next.
ProcessInv(p) ==
  /\ pc[p] \in Label
  /\ walk[p] \in Seq(File) /\ walk[p] # <<>>
  /\ work[p] \in Work
  /\ work[p].kind = "files" => pc[p] \in {"idle", "collect", "open", "read", "verify"}
  /\ work[p].kind = "none" => pc[p] = "idle"
  /\ pc[p] = "observe" => ~ Scanned(p)
  /\ noticed[p] \subseteq 0..(clock - 1)
  /\ disturbed[p] \in BOOLEAN
  /\ index # None /\ index.legacy => upgrade[p]
  /\ answer[p].kind # "none" => pc[p] = "idle"

\* A watcher that failed has an epoch of its own, and whoever has looked at the watcher has one
\* that runs or failed.
WatchInv(p) ==
  /\ watch[p] \in [running : BOOLEAN, epoch : Nat, reconciled : Nat, error : BOOLEAN]
  /\ watch[p].reconciled <= watch[p].epoch
  /\ watch[p].error => ~ Reliable(p)
  /\ pending[p] \in Seq(0..(clock - 1))
  /\ synced[p] # None \/ (work[p].kind = "index" /\ pc[p] # "observe") =>
       watch[p].running \/ watch[p].error
  /\ work[p].kind = "index" /\ pc[p] # "observe" =>
       watch[p].reconciled <= work[p].epoch /\ work[p].epoch <= watch[p].epoch

\* The files that a scan has read.
Visited(p) ==
  CASE pc[p] \in {"open", "read"} -> File \ ToSet(walk[p])
    [] pc[p] \in {"verify", "compare", "publish"} -> File
    [] OTHER -> {}

Source(p) == IF pc[p] \in {"compare", "publish"} THEN work[p].source ELSE work[p].inv

\* A scan for the index in which nothing has changed since it began has what is in the files.
ScanInv(p) ==
  /\ pc[p] \in {"verify", "compare", "publish"} => work[p].scan # None
  /\ pc[p] \in {"compare", "publish"} => work[p].source # None
  /\ pc[p] \in {"open", "read"} /\ Visited(p) # {} => work[p].scan # None
  /\ work[p].kind = "index" /\ pc[p] \in Scanning /\ ~ muddled /\ Source(p) = Revs =>
       \A f \in Visited(p) : work[p].scan[f] = file[f].data

\* A read of the files in which no revision has changed has one state of them, though one quiet
\* edit may have come in between.
ReadInv(p) ==
  work[p].kind = "files" =>
    /\ pc[p] \in {"open", "read"} /\ work[p].inv = Revs =>
         \/ \A f \in Visited(p) : work[p].scan[f] = file[f].data
         \/ /\ \E v, w \in versions : v.rev = w.rev /\ v # w
            /\ \E data \in seen[p] :
                 /\ \A f \in Visited(p) : work[p].scan[f] = data[f]
                 /\ \A f \in File \ Visited(p) : file[f].data = data[f]
    /\ pc[p] = "verify" =>
         \/ work[p].scan \in seen[p]
         \/ \E f \in ToSet(walk[p]) : work[p].inv[f] # file[f].rev

\* A usable index says what those who trust it may answer.
IndexInv(p) ==
  Usable /\ ~ muddled =>
    /\ Reliable(p) => index.data \in Unnoticed(p)
    /\ pc[p] \in Trusting \/ (pc[p] = "observe" /\ Reliable(p)) => index.data \in seen[p]
    /\ pc[p] \in Trusting \cup Answering /\ Unreported(p) => index.data \in Unnoticed(p)

\* A projection that counts was read from one publication.
ProjectInv(p) ==
  /\ pc[p] = "project" => work[p].read = <<>>
  /\ pc[p] = "project again" =>
       \E d : work[p].read = <<d>> /\ (index # None /\ index.id = work[p].id => d = index.data)
  /\ pc[p] = "confirm" =>
       \E d, e :
         /\ work[p].read = <<d, e>>
         /\ index # None /\ index.id = work[p].id => d = index.data /\ e = index.data
  /\ pc[p] \in {"observe", "collect", "baseline", "inspect"} \cup Scanning => work[p].read = <<>>

\* What is about to be answered was a state of the Store during the call.
AnswerInv(p) ==
  /\ pc[p] = "check" =>
       \E d :
         /\ work[p].read = <<d, d>>
         /\ ~ muddled /\ work[p].inv = Revs => d \in seen[p]
         /\ ~ muddled /\ work[p].inv = Revs /\ Unreported(p) => d \in Unnoticed(p)
  /\ pc[p] = "reconcile" =>
       \E d :
         /\ work[p].read = <<d, d>>
         /\ ~ muddled => d \in seen[p]
         /\ ~ muddled /\ Unreported(p) /\ pending[p] = <<>> => d \in Unnoticed(p)
  /\ answer[p].kind = "value" /\ ~ muddled =>
       \E data \in seen[p] : ToSet(answer[p].data) = {data}
  /\ synced[p] # None /\ ~ muddled /\ Reliable(p) /\ pending[p] = <<>> =>
       synced[p] \in Unnoticed(p)

\* While the process is looking at the Store, the Store as it is is one that it may answer.
SeenInv(p) ==
  /\ seen[p] \subseteq [File -> Nat]
  /\ pc[p] # "idle" => Datas \in seen[p]

\* While nothing interferes, what a call has collected is what is there.
QuietInv(p) ==
  ~ disturbed[p] =>
    /\ answer[p].kind \notin {"degraded", "error"}
    /\ work[p].kind = "index" /\ pc[p] # "observe" => Unreported(p)
    /\ pc[p] = "collect" =>
         \A f \in File \ ToSet(walk[p]) : work[p].inv[f] = file[f].rev
    /\ pc[p] \in {"open", "read", "verify", "publish", "inspect"} \cup Projecting \cup {"check"} =>
         work[p].inv = Revs
    /\ pc[p] \in {"compare", "publish"} => work[p].source = Revs
    /\ pc[p] \in {"baseline", "inspect"} /\ Scanned(p) =>
         work[p].source = Revs /\ index # None /\ ~ upgrade[p] /\ index.rev = Revs
    /\ pc[p] \in Projecting =>
         index # None /\ ~ upgrade[p] /\ index.rev = Revs /\ index.id = work[p].id

CallInv(p) ==
  /\ ProcessInv(p) /\ WatchInv(p) /\ ScanInv(p) /\ ReadInv(p) /\ IndexInv(p)
  /\ ProjectInv(p) /\ AnswerInv(p) /\ SeenInv(p) /\ QuietInv(p)

RefreshInv == StoreInv /\ ShapeInv /\ \A p \in Process : CallInv(p)

-----------------------------------------------------------------------------
(* Walks, and what a step leaves of the other processes. *)

\* The rest of a walk.
LEMMA WalkFacts ==
  ASSUME NEW w \in Seq(File), w # <<>>
  PROVE  /\ Head(w) \in File /\ Tail(w) \in Seq(File)
         /\ Len(w) \in Nat \ {0}
         /\ Len(w) # 1 => Tail(w) # <<>>
         /\ ToSet(w) \subseteq File
         /\ ToSet(w) \subseteq {Head(w)} \cup ToSet(Tail(w))
         /\ ToSet(Tail(w)) \subseteq ToSet(w)
         /\ Len(w) = 1 => ToSet(w) = {Head(w)}
<1>1. Len(w) \in Nat \ {0} /\ DOMAIN w = 1..Len(w)
  BY EmptySeq, LenProperties
<1>2. Head(w) = w[1] /\ \A i \in 1..Len(w) : w[i] \in File
  BY <1>1, HeadTailProperties, ElementOfSeq
<1>3. /\ Tail(w) \in Seq(File) /\ Len(Tail(w)) = Len(w) - 1
      /\ \A i \in 1..Len(Tail(w)) : Tail(w)[i] = w[i + 1]
  BY HeadTailProperties
<1>4. Len(w) # 1 => Tail(w) # <<>>
  <2>1. Len(w) # 1 => Len(Tail(w)) # 0
    BY <1>1, <1>3
  <2>2. Tail(w) = <<>> => Len(Tail(w)) = 0
    BY <1>3, EmptySeq
  <2> QED BY <2>1, <2>2
<1>5. DOMAIN Tail(w) = 1..Len(Tail(w))
  BY <1>3, LenProperties
<1>6. ToSet(w) \subseteq File
  BY <1>1, <1>2 DEF ToSet
<1>7. ASSUME NEW f \in ToSet(w) PROVE f = Head(w) \/ f \in ToSet(Tail(w))
  <2>1. PICK i \in 1..Len(w) : f = w[i]
    BY <1>1 DEF ToSet
  <2>2. CASE i = 1
    BY <1>2, <2>1, <2>2
  <2>3. CASE i # 1
    <3>1. i - 1 \in 1..Len(Tail(w)) /\ Tail(w)[i - 1] = w[i]
      BY <1>1, <1>3, <2>1, <2>3
    <3> QED BY <1>5, <2>1, <3>1 DEF ToSet
  <2> QED BY <2>2, <2>3
<1>8. ASSUME NEW f \in ToSet(Tail(w)) PROVE f \in ToSet(w)
  <2>1. PICK i \in 1..Len(Tail(w)) : f = Tail(w)[i]
    BY <1>5 DEF ToSet
  <2>2. i + 1 \in 1..Len(w) /\ f = w[i + 1]
    BY <1>1, <1>3, <2>1
  <2> QED BY <1>1, <2>2 DEF ToSet
<1>9. Len(w) = 1 => ToSet(w) = {Head(w)}
  BY <1>1, <1>2 DEF ToSet
<1> QED BY <1>1, <1>2, <1>3, <1>4, <1>6, <1>7, <1>8, <1>9

\* The revisions and the data of the files.
LEMMA StoreFacts ==
  ASSUME StoreInv
  PROVE  /\ Revs \in [File -> 0..(clock - 1)] /\ Datas \in [File -> Nat]
         /\ \A f \in File : Revs[f] = file[f].rev /\ Datas[f] = file[f].data
         /\ \A r \in [File -> Nat] : r = Revs <=> \A f \in File : r[f] = file[f].rev
         /\ \A d \in [File -> Nat] : d = Datas <=> \A f \in File : d[f] = file[f].data
<1>1. \A f \in File : file[f].rev \in 0..(clock - 1) /\ file[f].data \in 0..(clock - 1)
  BY DEF StoreInv
<1> QED BY <1>1 DEF Revs, Datas

\* The state of the Store as it is may always be answered by a call that begins.
LEMMA NowUnnoticed ==
  ASSUME StoreInv, NEW p \in Process
  PROVE  Datas \in Unnoticed(p) /\ Unnoticed(p) \subseteq [File -> Nat]
<1>1. PICK v \in versions : v.rev = Revs /\ v.data = Datas /\ \A w \in versions : w.at <= v.at
  BY DEF StoreInv
<1>2. v.at \in 0..(clock - 1) /\ clock \in Nat \ {0} /\ \A w \in versions : w.at \in 0..(clock - 1)
  BY DEF StoreInv
<1>3. \A w \in versions : ~ (w.at > v.at)
  BY <1>1, <1>2
<1>4. Datas \in Unnoticed(p)
  BY <1>1, <1>3 DEF Unnoticed
<1>5. Unnoticed(p) \subseteq [File -> Nat]
  BY DEF Unnoticed, StoreInv
<1> QED BY <1>4, <1>5

\* Nothing of a process has changed, nor anything that all share.
Shared == <<file, clock, index, versions, muddled>>

SameFor(q) ==
  /\ upgrade'[q] = upgrade[q] /\ watch'[q] = watch[q] /\ pending'[q] = pending[q]
  /\ pc'[q] = pc[q] /\ walk'[q] = walk[q] /\ work'[q] = work[q] /\ answer'[q] = answer[q]
  /\ seen'[q] = seen[q] /\ noticed'[q] = noticed[q] /\ synced'[q] = synced[q]
  /\ disturbed'[q] = disturbed[q]

\* What is derived from what is shared.
LEMMA SharedKept ==
  ASSUME UNCHANGED Shared
  PROVE  /\ Revs' = Revs /\ Datas' = Datas /\ (Usable' <=> Usable) /\ Work' = Work
         /\ \A q : noticed'[q] = noticed[q] => Unnoticed(q)' = Unnoticed(q)
<1>1. /\ file' = file /\ clock' = clock /\ index' = index /\ versions' = versions
      /\ muddled' = muddled
  BY DEF Shared
<1>2. Revs' = Revs /\ Datas' = Datas /\ Work' = Work
  BY <1>1 DEF Revs, Datas, Work
<1>3. Usable' <=> Usable
  BY <1>1, <1>2 DEF Usable
<1>4. ASSUME NEW q, noticed'[q] = noticed[q] PROVE Unnoticed(q)' = Unnoticed(q)
  BY <1>1, <1>2, <1>4 DEF Unnoticed
<1> QED BY <1>2, <1>3, <1>4

\* A process that nothing of has changed keeps its invariant.
LEMMA OthersKept ==
  ASSUME UNCHANGED Shared, NEW q \in Process, CallInv(q), SameFor(q)
  PROVE  CallInv(q)'
<1>1. /\ file' = file /\ clock' = clock /\ index' = index /\ versions' = versions
      /\ muddled' = muddled
  BY DEF Shared
<1>2. /\ upgrade'[q] = upgrade[q] /\ watch'[q] = watch[q] /\ pending'[q] = pending[q]
      /\ pc'[q] = pc[q] /\ walk'[q] = walk[q] /\ work'[q] = work[q] /\ answer'[q] = answer[q]
      /\ seen'[q] = seen[q] /\ noticed'[q] = noticed[q] /\ synced'[q] = synced[q]
      /\ disturbed'[q] = disturbed[q]
  BY DEF SameFor
<1>3. /\ Revs' = Revs /\ Datas' = Datas /\ (Usable' <=> Usable) /\ Work' = Work
      /\ Unnoticed(q)' = Unnoticed(q)
  BY <1>2, SharedKept
<1>4. /\ (Reliable(q)' <=> Reliable(q)) /\ (Unreported(q)' <=> Unreported(q))
      /\ Visited(q)' = Visited(q) /\ Source(q)' = Source(q) /\ (Scanned(q)' <=> Scanned(q))
  BY <1>2 DEF Reliable, Unreported, Visited, Source, Scanned
<1>5. ProcessInv(q)'
  BY <1>1, <1>2, <1>3, <1>4 DEF CallInv, ProcessInv
<1>6. WatchInv(q)'
  BY <1>1, <1>2, <1>4 DEF CallInv, WatchInv
<1>7. ScanInv(q)'
  BY <1>1, <1>2, <1>3, <1>4 DEF CallInv, ScanInv
<1>8. ReadInv(q)'
  BY <1>1, <1>2, <1>3, <1>4 DEF CallInv, ReadInv
<1>9. IndexInv(q)'
  BY <1>1, <1>2, <1>3, <1>4 DEF CallInv, IndexInv
<1>10. ProjectInv(q)'
  BY <1>1, <1>2 DEF CallInv, ProjectInv
<1>11. AnswerInv(q)'
  BY <1>1, <1>2, <1>3, <1>4 DEF CallInv, AnswerInv
<1>12. SeenInv(q)'
  BY <1>2, <1>3 DEF CallInv, SeenInv
<1>13. QuietInv(q)'
  BY <1>1, <1>2, <1>3, <1>4 DEF CallInv, QuietInv
<1> QED BY <1>5, <1>6, <1>7, <1>8, <1>9, <1>10, <1>11, <1>12, <1>13 DEF CallInv

\* A step of one process that leaves alone what is shared.
LEMMA LocalStep ==
  ASSUME RefreshInv, UNCHANGED Shared, NEW p \in Process, ShapeInv', CallInv(p)',
         \A q \in Process \ {p} : SameFor(q)
  PROVE  RefreshInv'
<1>1. StoreInv'
  <2>1. UNCHANGED <<file, clock, index, versions>>
    BY DEF Shared
  <2>2. Revs' = Revs /\ Datas' = Datas
    BY SharedKept
  <2>3. Index' = Index
    BY <2>1 DEF Index
  <2>4. (Usable' <=> Usable) /\ muddled' = muddled
    BY SharedKept DEF Shared
  <2>5. StoreInv
    BY DEF RefreshInv
  <2> QED BY <2>1, <2>2, <2>3, <2>4, <2>5 DEF StoreInv
<1>2. \A q \in Process : CallInv(q)'
  BY OthersKept DEF RefreshInv
<1> QED BY <1>1, <1>2 DEF RefreshInv

-----------------------------------------------------------------------------
(* A call begins, and a call ends. *)

\* The initial states.
LEMMA InitInv == Init => RefreshInv
<1> SUFFICES ASSUME Init PROVE RefreshInv
  OBVIOUS
<1>1. /\ file = [f \in File |-> [rev |-> 1, data |-> 1]] /\ clock = 2
      /\ index \in Index0 /\ upgrade = [p \in Process |-> index # None /\ index.legacy]
      /\ versions = {[at |-> 1, rev |-> Revs, data |-> Datas]}
  BY DEF Init
<1>2. /\ Revs = [f \in File |-> 1] /\ Datas = [f \in File |-> 1]
      /\ Revs \in [File -> 0..1] /\ Datas \in [File -> Nat]
  BY <1>1 DEF Revs, Datas
<1>3. index # None =>
        index \in [id : {0}, legacy : BOOLEAN, rev : [File -> 0..1], data : [File -> Nat]]
  BY <1>1, RefreshAssumption
<1>4. index # None => index \in Index
  BY <1>1, <1>3 DEF Index
<1>5. StoreInv
  <2>1. Usable => index.data = Datas
    BY <1>1, <1>2, RefreshAssumption DEF Usable
  <2> QED BY <1>1, <1>2, <1>4, <2>1 DEF StoreInv
<1>6. ShapeInv
  BY DEF Init, ShapeInv
<1>7. ASSUME NEW p \in Process PROVE CallInv(p)
  <2>1. /\ upgrade[p] = (index # None /\ index.legacy) /\ watch[p] = NoWatch /\ pending[p] = <<>>
        /\ pc[p] = "idle" /\ walk[p] = Files /\ work[p] = NoWork
        /\ answer[p].kind = "none" /\ seen[p] = {} /\ noticed[p] = {} /\ synced[p] = None
        /\ disturbed[p] = FALSE /\ muddled = FALSE
    BY DEF Init
  <2>2. NoWork \in Work
    BY <1>1, EmptySeq DEF NoWork, Work
  <2>3. work[p].kind = "none"
    BY <2>1 DEF NoWork
  <2>4. ProcessInv(p)
    BY <2>1, <2>2, <2>3, RefreshAssumption DEF ProcessInv, Label
  <2>5. WatchInv(p)
    BY <2>1, <2>3, EmptySeq DEF WatchInv, NoWatch
  <2>6. ScanInv(p) /\ ReadInv(p)
    BY <2>1, <2>3 DEF ScanInv, ReadInv, Scanning
  <2>7. ProjectInv(p) /\ AnswerInv(p) /\ SeenInv(p)
    BY <2>1 DEF ProjectInv, AnswerInv, SeenInv, Scanning
  <2>8. QuietInv(p)
    BY <2>1, <2>3 DEF QuietInv, Projecting
  <2>9. Usable => index.data = Datas
    BY <1>1, <1>2, RefreshAssumption DEF Usable
  <2>10. IndexInv(p)
    BY <1>5, <2>1, <2>9, NowUnnoticed DEF IndexInv, Trusting, Projecting, Answering
  <2> QED BY <2>4, <2>5, <2>6, <2>7, <2>8, <2>10 DEF CallInv
<1> QED BY <1>5, <1>6, <1>7 DEF RefreshInv

\* A call begins: it may answer what a usable index says, if the process trusts it.
LEMMA CallStep ==
  ASSUME RefreshInv, NEW p \in Process, Call(p)
  PROVE  RefreshInv'
<1>1. PICK kind \in {"index", "files"} :
        /\ pc[p] = "idle"
        /\ pc' = [pc EXCEPT ![p] = IF kind = "index" THEN "observe" ELSE "collect"]
        /\ walk' = [walk EXCEPT ![p] = Files]
        /\ work' = [work EXCEPT ![p] = [NoWork EXCEPT !.kind = kind]]
        /\ answer' = [answer EXCEPT ![p] = [kind |-> "none", data |-> <<>>]]
        /\ seen' = [seen EXCEPT ![p] = Unnoticed(p)]
        /\ disturbed' = [disturbed EXCEPT ![p] = FALSE]
        /\ UNCHANGED <<file, clock, index, upgrade, watch, pending, versions, noticed, synced,
                       muddled>>
  BY DEF Call, At, Goto, indexVars, watchVars
<1>2. StoreInv /\ ShapeInv /\ CallInv(p)
  BY DEF RefreshInv
<1>3. ShapeInv'
  BY <1>1, <1>2 DEF ShapeInv
<1>4. UNCHANGED Shared
  BY <1>1 DEF Shared
<1>5. \A q \in Process \ {p} : SameFor(q)
  BY <1>1, <1>2 DEF ShapeInv, SameFor
<1>6. /\ pc'[p] = IF kind = "index" THEN "observe" ELSE "collect"
      /\ walk'[p] = Files /\ work'[p] = [NoWork EXCEPT !.kind = kind]
      /\ answer'[p].kind = "none" /\ seen'[p] = Unnoticed(p) /\ disturbed'[p] = FALSE
      /\ upgrade'[p] = upgrade[p] /\ watch'[p] = watch[p] /\ pending'[p] = pending[p]
      /\ noticed'[p] = noticed[p] /\ synced'[p] = synced[p]
  BY <1>1, <1>2 DEF ShapeInv
<1>7. /\ Datas' = Datas /\ (Usable' <=> Usable) /\ Work' = Work
      /\ Unnoticed(p)' = Unnoticed(p)
      /\ clock' = clock /\ index' = index /\ muddled' = muddled /\ clock \in Nat \ {0}
  BY <1>1, <1>2, <1>4, <1>6, SharedKept DEF StoreInv
<1>8. work'[p] \in Work /\ work'[p].kind = kind /\ work'[p].read = <<>> /\ ~ Scanned(p)'
  <2>1. NoWork \in Work /\ NoWork.read = <<>> /\ NoWork.source = None
    BY <1>7, EmptySeq DEF NoWork, Work
  <2>2. [NoWork EXCEPT !.kind = kind] \in Work
    BY <2>1 DEF Work
  <2>3. /\ work'[p].read = NoWork.read /\ work'[p].source = NoWork.source
        /\ work'[p].kind = kind
    BY <1>6, <2>1 DEF NoWork
  <2> QED BY <1>6, <1>7, <2>1, <2>2, <2>3 DEF Scanned
<1>9. ProcessInv(p)'
  BY <1>2, <1>6, <1>7, <1>8, RefreshAssumption DEF CallInv, ProcessInv, Label
<1>10. WatchInv(p)'
  BY <1>2, <1>6, <1>7, <1>8 DEF CallInv, WatchInv, Reliable
<1>11. ScanInv(p)'
  BY <1>6 DEF ScanInv, Scanning
<1>12. ReadInv(p)'
  BY <1>6 DEF ReadInv
<1>13. IndexInv(p)'
  BY <1>2, <1>6, <1>7 DEF CallInv, IndexInv, Reliable, Trusting, Projecting, Answering
<1>14. ProjectInv(p)'
  BY <1>6, <1>8 DEF ProjectInv
<1>15. AnswerInv(p)'
  BY <1>2, <1>6, <1>7 DEF CallInv, AnswerInv, Reliable
<1>16. SeenInv(p)'
  BY <1>2, <1>6, <1>7, NowUnnoticed DEF CallInv, SeenInv
<1>17. QuietInv(p)'
  <2>1. \A f \in File : f \in ToSet(Files)
    BY DEF File
  <2> QED BY <1>6, <1>8, <2>1 DEF QuietInv, Projecting
<1>18. CallInv(p)'
  BY <1>9, <1>10, <1>11, <1>12, <1>13, <1>14, <1>15, <1>16, <1>17 DEF CallInv
<1> QED BY <1>3, <1>4, <1>5, <1>18, LocalStep

\* A call ends, and may have changed the watcher and what was answered last.
LEMMA ReturnKeeps ==
  ASSUME RefreshInv, NEW p \in Process, pc[p] # "idle",
         NEW kind \in {"value", "degraded", "error"}, NEW data, Return(p, kind, data),
         UNCHANGED <<file, clock, index, upgrade, pending, seen, versions, noticed, disturbed,
                     muddled>>,
         DOMAIN watch' = Process, DOMAIN synced' = Process,
         \A q \in Process \ {p} : watch'[q] = watch[q] /\ synced'[q] = synced[q],
         watch'[p] \in [running : BOOLEAN, epoch : Nat, reconciled : Nat, error : BOOLEAN],
         watch'[p].reconciled <= watch'[p].epoch,
         watch'[p].error => ~ Reliable(p)',
         synced'[p] # None => watch'[p].running \/ watch'[p].error,
         synced'[p] # None /\ ~ muddled /\ Reliable(p)' /\ pending[p] = <<>> =>
           synced'[p] \in Unnoticed(p),
         Usable /\ ~ muddled /\ Reliable(p)' => index.data \in Unnoticed(p),
         kind = "value" /\ ~ muddled => \E d \in seen[p] : ToSet(data) = {d},
         kind # "value" => disturbed[p]
  PROVE  RefreshInv'
<1>1. StoreInv /\ ShapeInv /\ CallInv(p)
  BY DEF RefreshInv
<1>2. /\ pc' = [pc EXCEPT ![p] = "idle"] /\ walk' = [walk EXCEPT ![p] = Files]
      /\ work' = [work EXCEPT ![p] = NoWork]
      /\ answer' = [answer EXCEPT ![p] = [kind |-> kind, data |-> data]]
  BY DEF Return, Goto
<1>3. ShapeInv'
  BY <1>1, <1>2 DEF ShapeInv
<1>4. UNCHANGED Shared
  BY DEF Shared
<1>5. \A q \in Process \ {p} : SameFor(q)
  BY <1>1, <1>2 DEF ShapeInv, SameFor
<1>6. /\ pc'[p] = "idle" /\ walk'[p] = Files /\ work'[p] = NoWork
      /\ answer'[p].kind = kind /\ answer'[p].data = data
  BY <1>1, <1>2 DEF ShapeInv
<1>7. /\ Datas' = Datas /\ (Usable' <=> Usable) /\ Work' = Work
      /\ Unnoticed(p)' = Unnoticed(p) /\ clock \in Nat \ {0}
  BY <1>1, <1>4, SharedKept DEF StoreInv
<1>8. work'[p] \in Work /\ work'[p].kind = "none"
  BY <1>6, <1>7, EmptySeq DEF NoWork, Work
<1>9. ProcessInv(p)'
  BY <1>1, <1>6, <1>7, <1>8, RefreshAssumption DEF CallInv, ProcessInv, Label
<1>10. WatchInv(p)'
  BY <1>1, <1>6, <1>8 DEF CallInv, WatchInv
<1>11. ScanInv(p)' /\ ReadInv(p)'
  BY <1>6, <1>8 DEF ScanInv, ReadInv, Scanning
<1>12. IndexInv(p)'
  BY <1>6, <1>7 DEF IndexInv, Trusting, Projecting, Answering
<1>13. ProjectInv(p)' /\ SeenInv(p)'
  BY <1>1, <1>6 DEF CallInv, ProjectInv, SeenInv, Scanning
<1>14. AnswerInv(p)'
  BY <1>6, <1>7 DEF AnswerInv
<1>15. QuietInv(p)'
  BY <1>6, <1>8 DEF QuietInv, Projecting
<1>16. CallInv(p)'
  BY <1>9, <1>10, <1>11, <1>12, <1>13, <1>14, <1>15 DEF CallInv
<1> QED BY <1>3, <1>4, <1>5, <1>16, LocalStep

\* A call ends and leaves the watcher alone.
LEMMA PlainReturn ==
  ASSUME RefreshInv, NEW p \in Process, pc[p] # "idle",
         NEW kind \in {"value", "degraded", "error"}, NEW data, Return(p, kind, data),
         UNCHANGED <<file, clock, index, upgrade, watch, pending, seen, versions, noticed, synced,
                     disturbed, muddled>>,
         kind = "value" /\ ~ muddled => \E d \in seen[p] : ToSet(data) = {d},
         kind # "value" => disturbed[p]
  PROVE  RefreshInv'
<1>1. ShapeInv /\ WatchInv(p) /\ AnswerInv(p) /\ IndexInv(p)
  BY DEF RefreshInv, CallInv
<1>2. /\ DOMAIN watch' = Process /\ DOMAIN synced' = Process
      /\ \A q \in Process : watch'[q] = watch[q] /\ synced'[q] = synced[q]
      /\ (Reliable(p)' <=> Reliable(p))
  BY <1>1 DEF ShapeInv, Reliable
<1>3. /\ watch'[p] \in [running : BOOLEAN, epoch : Nat, reconciled : Nat, error : BOOLEAN]
      /\ watch'[p].reconciled <= watch'[p].epoch
      /\ watch'[p].error => ~ Reliable(p)'
      /\ synced'[p] # None => watch'[p].running \/ watch'[p].error
  BY <1>1, <1>2 DEF WatchInv
<1>4. synced'[p] # None /\ ~ muddled /\ Reliable(p)' /\ pending[p] = <<>> =>
        synced'[p] \in Unnoticed(p)
  BY <1>1, <1>2 DEF AnswerInv
<1>5. Usable /\ ~ muddled /\ Reliable(p)' => index.data \in Unnoticed(p)
  BY <1>1, <1>2 DEF IndexInv
<1> QED BY <1>2, <1>3, <1>4, <1>5, ReturnKeeps

-----------------------------------------------------------------------------
(* The steps within a call: only what the process does next, its walk and  *)
(* its work change.                                                        *)

Inner(p, label, rest, has) ==
  /\ ShapeInv'
  /\ pc'[p] = label /\ walk'[p] = rest /\ work'[p] = has
  /\ \A q \in Process \ {p} : pc'[q] = pc[q] /\ walk'[q] = walk[q] /\ work'[q] = work[q]
  /\ UNCHANGED <<file, clock, index, upgrade, watch, pending, answer, versions, seen, noticed,
                 synced, disturbed, muddled>>

\* What such a step leaves alone.
LEMMA InnerFacts ==
  ASSUME RefreshInv, NEW p \in Process, NEW label, NEW rest, NEW has, Inner(p, label, rest, has)
  PROVE  /\ pc'[p] = label /\ walk'[p] = rest /\ work'[p] = has
         /\ UNCHANGED <<file, clock, index, upgrade, watch, pending, answer, versions, seen,
                        noticed, synced, disturbed, muddled>>
         /\ Revs' = Revs /\ Datas' = Datas /\ (Usable' <=> Usable)
         /\ Work' = Work /\ Unnoticed(p)' = Unnoticed(p) /\ (Reliable(p)' <=> Reliable(p))
         /\ ShapeInv' /\ UNCHANGED Shared /\ \A q \in Process \ {p} : SameFor(q)
<1>1. ShapeInv
  BY DEF RefreshInv
<1>2. pc'[p] = label /\ walk'[p] = rest /\ work'[p] = has /\ ShapeInv'
  BY DEF Inner
<1>3. UNCHANGED Shared
  BY DEF Inner, Shared
<1>4. \A q \in Process \ {p} : SameFor(q)
  BY <1>1 DEF Inner, ShapeInv, SameFor
<1>5. noticed'[p] = noticed[p] /\ (Reliable(p)' <=> Reliable(p))
  BY DEF Inner, Reliable
<1>6. /\ Revs' = Revs /\ Datas' = Datas /\ (Usable' <=> Usable) /\ Work' = Work
      /\ Unnoticed(p)' = Unnoticed(p)
  BY <1>3, <1>5, SharedKept
<1>7. UNCHANGED <<file, clock, index, upgrade, watch, pending, answer, versions, seen, noticed,
                  synced, disturbed, muddled>>
  BY DEF Inner
<1> QED BY <1>2, <1>3, <1>4, <1>5, <1>6, <1>7

\* It is left to see to the scan, the projection, and what is answered; a process that trusts the
\* index has done so before.
LEMMA InnerStep ==
  ASSUME RefreshInv, NEW p \in Process, pc[p] \notin {"idle", "observe"},
         NEW label \in Label \ {"idle", "observe"}, NEW rest \in Seq(File), rest # <<>>,
         NEW has \in Work, Inner(p, label, rest, has),
         has.kind = work[p].kind, has.epoch = work[p].epoch,
         has.kind = "files" => label \in {"collect", "open", "read", "verify"},
         label \in Trusting \cup Answering => pc[p] \in Trusting \cup Answering,
         label \in Trusting => pc[p] \in Trusting,
         ScanInv(p)', ReadInv(p)', ProjectInv(p)', QuietInv(p)',
         label \in Answering => AnswerInv(p)'
  PROVE  RefreshInv'
<1>1. StoreInv /\ ShapeInv /\ CallInv(p)
  BY DEF RefreshInv
<1>2. /\ pc'[p] = label /\ walk'[p] = rest /\ work'[p] = has
      /\ UNCHANGED <<file, clock, index, upgrade, watch, pending, answer, versions, seen,
                     noticed, synced, disturbed, muddled>>
  BY InnerFacts
<1>3. /\ Revs' = Revs /\ Datas' = Datas /\ (Usable' <=> Usable)
      /\ Work' = Work /\ Unnoticed(p)' = Unnoticed(p) /\ (Reliable(p)' <=> Reliable(p))
  BY InnerFacts
<1>4. ShapeInv' /\ UNCHANGED Shared /\ \A q \in Process \ {p} : SameFor(q)
  BY InnerFacts
<1>5. ProcessInv(p)'
  <2>1. has.kind # "none"
    BY <1>1 DEF CallInv, ProcessInv
  <2>2. answer[p].kind = "none"
    BY <1>1 DEF CallInv, ProcessInv
  <2> QED BY <1>1, <1>2, <1>3, <2>1, <2>2 DEF CallInv, ProcessInv
<1>6. WatchInv(p)'
  BY <1>1, <1>2, <1>3 DEF CallInv, WatchInv
<1>7. IndexInv(p)'
  <2>1. Unreported(p)' <=> Unreported(p)
    BY <1>2 DEF Unreported
  <2>2. Usable /\ ~ muddled /\ Reliable(p) => index.data \in Unnoticed(p)
    BY <1>1 DEF CallInv, IndexInv
  <2>3. Usable /\ ~ muddled /\ label \in Trusting => index.data \in seen[p]
    BY <1>1 DEF CallInv, IndexInv
  <2>4. Usable /\ ~ muddled /\ label \in Trusting \cup Answering /\ Unreported(p) =>
          index.data \in Unnoticed(p)
    BY <1>1 DEF CallInv, IndexInv
  <2> QED BY <1>2, <1>3, <2>1, <2>2, <2>3, <2>4 DEF IndexInv
<1>8. AnswerInv(p)'
  <2>1. CASE label \in Answering
    BY <2>1
  <2>2. CASE label \notin Answering
    <3>1. answer[p].kind = "none"
      BY <1>1 DEF CallInv, ProcessInv
    <3>2. synced[p] # None /\ ~ muddled /\ Reliable(p) /\ pending[p] = <<>> =>
            synced[p] \in Unnoticed(p)
      BY <1>1 DEF CallInv, AnswerInv
    <3> QED BY <1>2, <1>3, <2>2, <3>1, <3>2 DEF AnswerInv, Answering
  <2> QED BY <2>1, <2>2
<1>9. SeenInv(p)'
  BY <1>1, <1>2, <1>3 DEF CallInv, SeenInv
<1>10. CallInv(p)'
  BY <1>5, <1>6, <1>7, <1>8, <1>9 DEF CallInv
<1> QED BY <1>4, <1>10, LocalStep

\* The revision is collected before the index is looked up.
LEMMA BaselineStep ==
  ASSUME RefreshInv, NEW p \in Process, CollectAll(p, "baseline", "inspect")
  PROVE  RefreshInv'
<1> DEFINE has == [work[p] EXCEPT !.inv = Revs]
<1>1. StoreInv /\ ShapeInv /\ CallInv(p) /\ pc[p] = "baseline"
  BY DEF RefreshInv, CollectAll, At
<1>2. Inner(p, "inspect", Files, has)
  BY <1>1 DEF CollectAll, Goto, Inner, ShapeInv, indexVars, watchVars, histVars
<1>3. /\ has \in Work /\ has.kind = work[p].kind /\ has.epoch = work[p].epoch
      /\ has.read = work[p].read /\ has.source = work[p].source /\ has.inv = Revs
  <2>1. Revs \in [File -> 0..(clock - 1)] /\ work[p] \in Work
    BY <1>1, StoreFacts DEF CallInv, ProcessInv
  <2> QED BY <2>1 DEF Work
<1>4. has.kind = "index"
  BY <1>1, <1>3 DEF CallInv, ProcessInv, Work
<1> HIDE DEF has
<1>5. /\ pc'[p] = "inspect" /\ work'[p] = has
      /\ UNCHANGED <<file, clock, index, upgrade, watch, pending, answer, versions, seen,
                     noticed, synced, disturbed, muddled>>
      /\ Revs' = Revs
  BY <1>2, InnerFacts
<1>6. ScanInv(p)' /\ ReadInv(p)'
  BY <1>4, <1>5 DEF ScanInv, ReadInv, Scanning
<1>7. ProjectInv(p)'
  BY <1>1, <1>3, <1>5 DEF CallInv, ProjectInv, Scanning
<1>8. QuietInv(p)'
  <2>1. (Unreported(p)' <=> Unreported(p)) /\ (Scanned(p)' <=> Scanned(p))
    BY <1>3, <1>5 DEF Unreported, Scanned
  <2> QED BY <1>1, <1>3, <1>5, <2>1 DEF CallInv, QuietInv, Projecting
<1> QED BY <1>1, <1>2, <1>3, <1>4, <1>5, <1>6, <1>7, <1>8, RefreshAssumption, InnerStep
        DEF Label, Trusting, Projecting, Answering

\* The revision is collected once more before the index is renamed into place.
LEMMA CompareStep ==
  ASSUME RefreshInv, NEW p \in Process, CollectAll(p, "compare", "publish")
  PROVE  RefreshInv'
<1> DEFINE has == [work[p] EXCEPT !.inv = Revs]
<1>1. StoreInv /\ ShapeInv /\ CallInv(p) /\ pc[p] = "compare"
  BY DEF RefreshInv, CollectAll, At
<1>2. Inner(p, "publish", Files, has)
  BY <1>1 DEF CollectAll, Goto, Inner, ShapeInv, indexVars, watchVars, histVars
<1>3. /\ has \in Work /\ has.kind = work[p].kind /\ has.epoch = work[p].epoch
      /\ has.read = work[p].read /\ has.source = work[p].source /\ has.inv = Revs
      /\ has.scan = work[p].scan
  <2>1. Revs \in [File -> 0..(clock - 1)] /\ work[p] \in Work
    BY <1>1, StoreFacts DEF CallInv, ProcessInv
  <2> QED BY <2>1 DEF Work
<1>4. has.kind = "index"
  BY <1>1, <1>3 DEF CallInv, ProcessInv, Work
<1> HIDE DEF has
<1>5. /\ pc'[p] = "publish" /\ work'[p] = has
      /\ UNCHANGED <<file, clock, index, upgrade, watch, pending, answer, versions, seen,
                     noticed, synced, disturbed, muddled>>
      /\ Revs' = Revs
  BY <1>2, InnerFacts
<1>6. ReadInv(p)'
  BY <1>4, <1>5 DEF ReadInv
<1>7. ScanInv(p)'
  <2>1. Visited(p) = File /\ Visited(p)' = File /\ Source(p)' = Source(p)
    BY <1>1, <1>3, <1>5 DEF Visited, Source
  <2> QED BY <1>1, <1>3, <1>5, <2>1 DEF CallInv, ScanInv, Scanning
<1>8. ProjectInv(p)'
  BY <1>1, <1>3, <1>5 DEF CallInv, ProjectInv, Scanning
<1>9. QuietInv(p)'
  <2>1. (Unreported(p)' <=> Unreported(p)) /\ (Scanned(p)' <=> Scanned(p))
    BY <1>3, <1>5 DEF Unreported, Scanned
  <2> QED BY <1>1, <1>3, <1>5, <2>1 DEF CallInv, QuietInv, Projecting
<1> QED BY <1>1, <1>2, <1>3, <1>4, <1>5, <1>6, <1>7, <1>8, <1>9, RefreshAssumption, InnerStep
        DEF Label, Trusting, Projecting, Answering

-----------------------------------------------------------------------------
(* The steps that look at the index. *)

\* What an index step finds: a process of this kind reads the index, and an index that is current
\* for it is of this schema.
LEMMA CurrentFacts ==
  ASSUME RefreshInv, NEW p \in Process, Current(p)
  PROVE  /\ index # None /\ index \in Index /\ ~ index.legacy /\ ~ upgrade[p]
         /\ index.rev = work[p].inv
         /\ work[p].inv = Revs => Usable
<1>1. index # None /\ ~ upgrade[p] /\ index.rev = work[p].inv
  BY DEF Current
<1>2. index \in Index /\ (index.legacy => upgrade[p])
  BY <1>1 DEF RefreshInv, StoreInv, CallInv, ProcessInv
<1> QED BY <1>1, <1>2 DEF Usable

\* What a sequence of one has.
LEMMA OneOf ==
  ASSUME NEW S, NEW d, <<d>> \in Seq(S)
  PROVE  d \in S
<1>1. Len(<<d>>) = 1 /\ <<d>>[1] = d
  OBVIOUS
<1>2. 1 \in 1..1
  OBVIOUS
<1> QED BY <1>1, <1>2, ElementOfSeq

\* One thing was read, and another after it.
LEMMA ReadOneMore ==
  ASSUME NEW S, NEW d \in S, NEW e \in S
  PROVE  Append(<<>>, d) = <<d>> /\ Append(<<d>>, e) = <<d, e>>
<1>1. Append(<<>>, d) = <<d>>
  OBVIOUS
<1>2. <<d>> \in Seq(S) /\ Len(<<d>>) = 1 /\ <<d>>[1] = d
  OBVIOUS
<1>3. /\ Append(<<d>>, e) \in Seq(S) /\ Len(Append(<<d>>, e)) = 2
      /\ Append(<<d>>, e)[1] = d /\ Append(<<d>>, e)[2] = e
  BY <1>2, AppendProperties
<1>4. <<d, e>> \in Seq(S) /\ Len(<<d, e>>) = 2 /\ <<d, e>>[1] = d /\ <<d, e>>[2] = e
  OBVIOUS
<1>5. \A i \in 1..2 : i = 1 \/ i = 2
  OBVIOUS
<1> QED BY <1>1, <1>3, <1>4, <1>5, SeqEqual

\* The collected revision is looked up in the index.
LEMMA InspectStep ==
  ASSUME RefreshInv, NEW p \in Process, Inspect(p)
  PROVE  RefreshInv'
<1>1. StoreInv /\ ShapeInv /\ CallInv(p) /\ pc[p] = "inspect"
  BY DEF RefreshInv, Inspect, At
<1>2. UNCHANGED <<file, clock, index, upgrade, watch, pending, versions, seen, noticed, synced,
                  disturbed, muddled>>
  BY DEF Inspect, indexVars, watchVars, histVars
<1>3. /\ work[p] \in Work /\ work[p].kind = "index" /\ work[p].read = <<>>
  BY <1>1 DEF CallInv, ProcessInv, ProjectInv, Work
<1>4. ~ disturbed[p] => /\ work[p].inv = Revs /\ Unreported(p)
                        /\ Scanned(p) => work[p].source = Revs /\ Current(p)
  BY <1>1, <1>3 DEF CallInv, QuietInv, Current
<1>5. CASE /\ Return(p, "degraded", <<>>) /\ Scanned(p)
           /\ ~ Current(p) \/ work[p].inv # work[p].source
  BY <1>1, <1>2, <1>4, <1>5, PlainReturn
<1>6. CASE Current(p) /\ work' = [work EXCEPT ![p].id = index.id] /\ Goto(p, "project")
           /\ UNCHANGED answer
  <2> DEFINE has == [work[p] EXCEPT !.id = index.id]
  <2>1. Inner(p, "project", Files, has)
    BY <1>1, <1>2, <1>6 DEF Goto, Inner, ShapeInv
  <2>2. /\ has \in Work /\ has.kind = "index" /\ has.epoch = work[p].epoch
        /\ has.read = <<>> /\ has.inv = work[p].inv /\ has.id = index.id
    <3>1. index.id \in 0..(clock - 1)
      BY <1>6, CurrentFacts DEF Index
    <3> QED BY <1>3, <3>1 DEF Work
  <2> HIDE DEF has
  <2>3. pc'[p] = "project" /\ work'[p] = has /\ Revs' = Revs /\ answer' = answer
    BY <2>1, InnerFacts
  <2>4. ScanInv(p)' /\ ReadInv(p)'
    BY <2>2, <2>3 DEF ScanInv, ReadInv, Scanning
  <2>5. ProjectInv(p)'
    BY <2>2, <2>3 DEF ProjectInv, Scanning
  <2>6. QuietInv(p)'
    <3>1. Unreported(p)' <=> Unreported(p)
      BY <1>2, <2>2, <2>3 DEF Unreported
    <3>2. index # None /\ ~ upgrade[p] /\ index.rev = work[p].inv
      BY <1>6, CurrentFacts
    <3> QED BY <1>1, <1>2, <1>4, <2>2, <2>3, <3>1, <3>2
            DEF CallInv, QuietInv, Projecting
  <2> QED BY <1>1, <1>3, <2>1, <2>2, <2>3, <2>4, <2>5, <2>6, RefreshAssumption, InnerStep
          DEF Label, Trusting, Projecting, Answering
<1>7. CASE ~ Scanned(p) /\ Goto(p, "collect") /\ UNCHANGED <<work, answer>>
  <2>1. Inner(p, "collect", Files, work[p])
    BY <1>1, <1>2, <1>7 DEF Goto, Inner, ShapeInv
  <2>2. /\ pc'[p] = "collect" /\ work'[p] = work[p] /\ walk'[p] = Files /\ Revs' = Revs
        /\ answer' = answer
    BY <2>1, InnerFacts
  <2>3. ScanInv(p)' /\ ReadInv(p)'
    BY <1>3, <2>2 DEF ScanInv, ReadInv, Scanning
  <2>4. ProjectInv(p)'
    BY <1>3, <2>2 DEF ProjectInv, Scanning
  <2>5. QuietInv(p)'
    <3>1. Unreported(p)' <=> Unreported(p)
      BY <1>2, <2>2 DEF Unreported
    <3>2. File \ ToSet(Files) = {}
      BY DEF File
    <3> QED BY <1>1, <1>2, <1>4, <2>2, <3>1, <3>2
            DEF CallInv, QuietInv, Projecting
  <2> QED BY <1>1, <1>3, <2>1, <2>2, <2>3, <2>4, <2>5, RefreshAssumption, InnerStep
          DEF Label, Trusting, Projecting, Answering
<1> QED BY <1>5, <1>6, <1>7 DEF Inspect

\* The projection reads the index once.
LEMMA ProjectStep ==
  ASSUME RefreshInv, NEW p \in Process,
         Project(p, "project", "project again") \/ Project(p, "project again", "confirm")
  PROVE  RefreshInv'
<1>1. StoreInv /\ ShapeInv /\ CallInv(p) /\ pc[p] \in {"project", "project again"}
  BY DEF RefreshInv, Project, At
<1>2. UNCHANGED <<file, clock, index, upgrade, watch, pending, versions, seen, noticed, synced,
                  disturbed, muddled>>
  BY DEF Project, indexVars, watchVars, histVars
<1>3. work[p] \in Work /\ work[p].kind = "index"
  BY <1>1 DEF CallInv, ProcessInv, Work
<1>4. ~ disturbed[p] => work[p].inv = Revs /\ Unreported(p) /\ Current(p)
  BY <1>1, <1>3 DEF CallInv, QuietInv, Current, Projecting
<1>5. CASE ~ Current(p)
  BY <1>1, <1>2, <1>4, <1>5, PlainReturn DEF Project
<1>6. CASE Current(p)
  <2> DEFINE has == [work[p] EXCEPT !.read = Append(@, index.data)]
             next == IF pc[p] = "project" THEN "project again" ELSE "confirm"
  <2>1. Inner(p, next, Files, has)
    BY <1>1, <1>2, <1>6 DEF Project, At, Goto, Inner, ShapeInv
  <2>2. index.data \in [File -> Nat] /\ index # None /\ index.rev = work[p].inv /\ ~ upgrade[p]
    BY <1>6, CurrentFacts DEF Index
  <2>3. /\ has \in Work /\ has.kind = "index" /\ has.epoch = work[p].epoch
        /\ has.read = Append(work[p].read, index.data) /\ has.inv = work[p].inv
        /\ has.id = work[p].id
    <3>1. Append(work[p].read, index.data) \in Seq([File -> Nat])
      BY <1>3, <2>2, AppendProperties DEF Work
    <3> QED BY <1>3, <3>1 DEF Work
  <2> HIDE DEF has
  <2>4. pc'[p] = next /\ work'[p] = has /\ Revs' = Revs /\ answer' = answer
    BY <2>1, InnerFacts
  <2>5. next \in {"project again", "confirm"}
    OBVIOUS
  <2>6. ScanInv(p)' /\ ReadInv(p)'
    BY <2>3, <2>4, <2>5 DEF ScanInv, ReadInv, Scanning
  <2>7. ProjectInv(p)'
    <3>1. CASE pc[p] = "project"
      <4>1. work[p].read = <<>>
        BY <1>1, <3>1 DEF CallInv, ProjectInv
      <4>2. has.read = <<index.data>>
        BY <2>2, <2>3, <4>1, ReadOneMore
      <4> QED BY <1>2, <2>4, <3>1, <4>2 DEF ProjectInv, Scanning
    <3>2. CASE pc[p] = "project again"
      <4>1. PICK d : /\ work[p].read = <<d>>
                     /\ index # None /\ index.id = work[p].id => d = index.data
        BY <1>1, <3>2 DEF CallInv, ProjectInv
      <4>2. d \in [File -> Nat]
        <5>1. work[p].read \in Seq([File -> Nat])
          BY <1>3 DEF Work
        <5> QED BY <4>1, <5>1, OneOf
      <4>3. has.read = <<d, index.data>>
        BY <2>2, <2>3, <4>1, <4>2, ReadOneMore
      <4> QED BY <1>2, <2>3, <2>4, <3>2, <4>1, <4>3 DEF ProjectInv, Scanning
    <3> QED BY <1>1, <3>1, <3>2
  <2>8. QuietInv(p)'
    <3>1. Unreported(p)' <=> Unreported(p)
      BY <1>2, <2>3, <2>4 DEF Unreported
    <3>2. ~ disturbed[p] => index.id = work[p].id
      BY <1>1 DEF CallInv, QuietInv, Projecting
    <3> QED BY <1>1, <1>2, <1>4, <2>2, <2>3, <2>4, <2>5, <3>1, <3>2
            DEF CallInv, QuietInv, Projecting
  <2> HIDE DEF next
  <2> QED BY <1>1, <1>3, <2>1, <2>3, <2>4, <2>5, <2>6, <2>7, <2>8, RefreshAssumption, InnerStep
          DEF Label, Trusting, Projecting, Answering
<1> QED BY <1>5, <1>6

\* The index file is still the publication that the projection started from.
LEMMA ConfirmStep ==
  ASSUME RefreshInv, NEW p \in Process, Confirm(p)
  PROVE  RefreshInv'
<1>1. StoreInv /\ ShapeInv /\ CallInv(p) /\ pc[p] = "confirm"
  BY DEF RefreshInv, Confirm, At
<1>2. UNCHANGED <<file, clock, index, upgrade, watch, pending, versions, seen, noticed, synced,
                  disturbed, muddled>>
  BY DEF Confirm, indexVars, watchVars, histVars
<1>3. work[p] \in Work /\ work[p].kind = "index"
  BY <1>1 DEF CallInv, ProcessInv, Work
<1>4. ~ disturbed[p] => work[p].inv = Revs /\ Unreported(p) /\ Current(p) /\ index.id = work[p].id
  BY <1>1, <1>3 DEF CallInv, QuietInv, Current, Projecting
<1>5. CASE ~ (Current(p) /\ index.id = work[p].id)
  BY <1>1, <1>2, <1>4, <1>5, PlainReturn DEF Confirm
<1>6. CASE Current(p) /\ index.id = work[p].id
  <2>1. Inner(p, "check", Files, work[p])
    BY <1>1, <1>2, <1>6 DEF Confirm, Goto, Inner, ShapeInv
  <2>2. pc'[p] = "check" /\ work'[p] = work[p] /\ Revs' = Revs /\ Unnoticed(p)' = Unnoticed(p)
    BY <2>1, InnerFacts
  <2>3. /\ answer' = answer /\ (Reliable(p)' <=> Reliable(p)) /\ (Unreported(p)' <=> Unreported(p))
    BY <1>2, <2>1, <2>2, InnerFacts DEF Unreported
  <2>4. ScanInv(p)' /\ ReadInv(p)' /\ ProjectInv(p)'
    BY <1>3, <2>2 DEF ScanInv, ReadInv, ProjectInv, Scanning
  <2>5. QuietInv(p)'
    BY <1>1, <1>2, <1>3, <1>4, <2>2, <2>3 DEF CallInv, QuietInv, Projecting
  <2>6. work[p].read = <<index.data, index.data>>
    BY <1>1, <1>6, CurrentFacts DEF CallInv, ProjectInv
  <2>7. /\ ~ muddled /\ work[p].inv = Revs => index.data \in seen[p]
        /\ ~ muddled /\ work[p].inv = Revs /\ Unreported(p) => index.data \in Unnoticed(p)
    BY <1>1, <1>6, CurrentFacts DEF CallInv, IndexInv, Trusting, Projecting
  <2>8. answer[p].kind = "none"
    BY <1>1 DEF CallInv, ProcessInv
  <2>9. AnswerInv(p)'
    <3>1. synced[p] # None /\ ~ muddled /\ Reliable(p) /\ pending[p] = <<>> =>
            synced[p] \in Unnoticed(p)
      BY <1>1 DEF CallInv, AnswerInv
    <3> QED BY <1>2, <2>2, <2>3, <2>6, <2>7, <2>8, <3>1 DEF AnswerInv
  <2> QED BY <1>1, <1>3, <2>1, <2>4, <2>5, <2>9, RefreshAssumption, InnerStep
          DEF Label, Trusting, Projecting, Answering
<1> QED BY <1>5, <1>6

\* The Store still has the revision that the projection was compared with.
LEMMA CheckStep ==
  ASSUME RefreshInv, NEW p \in Process, Check(p)
  PROVE  RefreshInv'
<1>1. StoreInv /\ ShapeInv /\ CallInv(p) /\ pc[p] = "check"
  BY DEF RefreshInv, Check, At
<1>2. UNCHANGED <<file, clock, index, upgrade, watch, pending, versions, seen, noticed, synced,
                  disturbed, muddled>>
  BY DEF Check, indexVars, watchVars, histVars
<1>3. work[p] \in Work /\ work[p].kind = "index"
  BY <1>1 DEF CallInv, ProcessInv, Work
<1>4. ~ disturbed[p] => work[p].inv = Revs /\ Unreported(p)
  BY <1>1, <1>3 DEF CallInv, QuietInv
<1>5. CASE work[p].inv # Revs
  BY <1>1, <1>2, <1>4, <1>5, PlainReturn DEF Check
<1>6. CASE work[p].inv = Revs
  <2>1. Inner(p, "reconcile", Files, work[p])
    BY <1>1, <1>2, <1>6 DEF Check, Goto, Inner, ShapeInv
  <2>2. pc'[p] = "reconcile" /\ work'[p] = work[p] /\ Revs' = Revs /\ Unnoticed(p)' = Unnoticed(p)
    BY <2>1, InnerFacts
  <2>3. /\ answer' = answer /\ (Reliable(p)' <=> Reliable(p)) /\ (Unreported(p)' <=> Unreported(p))
    BY <1>2, <2>1, <2>2, InnerFacts DEF Unreported
  <2>4. ScanInv(p)' /\ ReadInv(p)' /\ ProjectInv(p)'
    BY <1>3, <2>2 DEF ScanInv, ReadInv, ProjectInv, Scanning
  <2>5. QuietInv(p)'
    BY <1>1, <1>2, <1>3, <1>4, <2>2, <2>3 DEF CallInv, QuietInv, Projecting
  <2>6. PICK d : /\ work[p].read = <<d, d>>
                 /\ ~ muddled => d \in seen[p]
                 /\ ~ muddled /\ Unreported(p) => d \in Unnoticed(p)
    BY <1>1, <1>6 DEF CallInv, AnswerInv
  <2>8. answer[p].kind = "none"
    BY <1>1 DEF CallInv, ProcessInv
  <2>9. AnswerInv(p)'
    <3>1. synced[p] # None /\ ~ muddled /\ Reliable(p) /\ pending[p] = <<>> =>
            synced[p] \in Unnoticed(p)
      BY <1>1 DEF CallInv, AnswerInv
    <3> QED BY <1>2, <2>2, <2>3, <2>6, <2>8, <3>1 DEF AnswerInv
  <2> QED BY <1>1, <1>3, <2>1, <2>4, <2>5, <2>9, RefreshAssumption, InnerStep
          DEF Label, Trusting, Projecting, Answering
<1> QED BY <1>5, <1>6

-----------------------------------------------------------------------------
(* The steps of a scan. *)

\* The observed epoch is reconciled, unless the watcher has reported something since.
LEMMA ReconcileStep ==
  ASSUME RefreshInv, NEW p \in Process, Reconcile(p)
  PROVE  RefreshInv'
<1>1. StoreInv /\ ShapeInv /\ CallInv(p) /\ pc[p] = "reconcile"
  BY DEF RefreshInv, Reconcile, At
<1>2. UNCHANGED <<file, clock, index, upgrade, pending, versions, seen, noticed, disturbed,
                  muddled>>
  BY DEF Reconcile, indexVars
<1>3. /\ work[p] \in Work /\ work[p].kind = "index"
      /\ watch[p] \in [running : BOOLEAN, epoch : Nat, reconciled : Nat, error : BOOLEAN]
      /\ watch[p].reconciled <= work[p].epoch /\ work[p].epoch <= watch[p].epoch
      /\ work[p].epoch \in Nat
  BY <1>1 DEF CallInv, ProcessInv, WatchInv, Work
<1>4. watch' = [watch EXCEPT ![p] = Reconciled(p)]
  BY DEF Reconcile
<1>5. watch'[p] = Reconciled(p) /\ DOMAIN watch' = Process
      /\ \A q \in Process \ {p} : watch'[q] = watch[q]
  BY <1>1, <1>4 DEF ShapeInv
<1>6. CASE Unreported(p)
  <2>1. Reconciled(p) = [watch[p] EXCEPT !.reconciled = work[p].epoch]
    BY <1>6 DEF Reconciled, Unreported
  <2>2. /\ watch'[p] \in [running : BOOLEAN, epoch : Nat, reconciled : Nat, error : BOOLEAN]
        /\ watch'[p].reconciled = work[p].epoch /\ watch'[p].epoch = work[p].epoch
        /\ watch'[p].error = FALSE /\ watch'[p].running = watch[p].running
    BY <1>3, <1>5, <1>6, <2>1 DEF Unreported
  <2>3. ~ Dirty(watch'[p])
    BY <2>2 DEF Dirty
  <2>4. Return(p, "value", work[p].read) /\ synced' = [synced EXCEPT ![p] = Head(work[p].read)]
    BY <2>3 DEF Reconcile
  <2>5. PICK d : /\ work[p].read = <<d, d>>
                 /\ ~ muddled => d \in seen[p]
                 /\ ~ muddled /\ Unreported(p) /\ pending[p] = <<>> => d \in Unnoticed(p)
    BY <1>1 DEF CallInv, AnswerInv
  <2>6. Head(work[p].read) = d /\ ToSet(work[p].read) = {d}
    <3>1. Head(<<d, d>>) = d
      OBVIOUS
    <3>2. ToSet(<<d, d>>) = {d}
      <4>1. DOMAIN <<d, d>> = {1, 2} /\ <<d, d>>[1] = d /\ <<d, d>>[2] = d
        OBVIOUS
      <4> QED BY <4>1 DEF ToSet
    <3> QED BY <2>5, <3>1, <3>2
  <2>7. /\ synced'[p] = d /\ DOMAIN synced' = Process
        /\ \A q \in Process \ {p} : synced'[q] = synced[q]
    BY <1>1, <2>4, <2>6 DEF ShapeInv
  <2>8. watch'[p].running \/ watch'[p].error
    BY <1>1, <1>3, <1>6, <2>2 DEF CallInv, WatchInv, Unreported
  <2>9. ~ muddled /\ pending[p] = <<>> => synced'[p] \in Unnoticed(p)
    BY <1>6, <2>5, <2>7
  <2>10. Usable /\ ~ muddled => index.data \in Unnoticed(p)
    BY <1>1, <1>6 DEF CallInv, IndexInv, Answering
  <2>11. ~ muddled => \E e \in seen[p] : ToSet(work[p].read) = {e}
    BY <2>5, <2>6
  <2>12. watch'[p].reconciled <= watch'[p].epoch
    BY <1>3, <2>2
  <2> QED BY <1>1, <1>2, <1>5, <2>2, <2>4, <2>7, <2>8, <2>9, <2>10, <2>11, <2>12, ReturnKeeps
<1>7. CASE ~ Unreported(p)
  <2>1. Reconciled(p) = watch[p]
    BY <1>7 DEF Reconciled, Unreported
  <2>2. Dirty(watch'[p])
    BY <1>3, <1>5, <1>7, <2>1 DEF Dirty, Unreported
  <2>3. Return(p, "degraded", <<>>) /\ UNCHANGED synced
    BY <2>2 DEF Reconcile
  <2>4. disturbed[p]
    BY <1>1, <1>3, <1>7 DEF CallInv, QuietInv
  <2>5. /\ DOMAIN synced' = Process
        /\ \A q \in Process : watch'[q] = watch[q] /\ synced'[q] = synced[q]
        /\ (Reliable(p)' <=> Reliable(p))
    BY <1>1, <1>5, <2>1, <2>3 DEF ShapeInv, Reliable
  <2>6. /\ watch'[p] \in [running : BOOLEAN, epoch : Nat, reconciled : Nat, error : BOOLEAN]
        /\ watch'[p].reconciled <= watch'[p].epoch
        /\ watch'[p].error => ~ Reliable(p)'
        /\ synced'[p] # None => watch'[p].running \/ watch'[p].error
    BY <1>1, <2>5 DEF CallInv, WatchInv
  <2>7. synced'[p] # None /\ ~ muddled /\ Reliable(p)' /\ pending[p] = <<>> =>
          synced'[p] \in Unnoticed(p)
    BY <1>1, <2>5 DEF CallInv, AnswerInv
  <2>8. Usable /\ ~ muddled /\ Reliable(p)' => index.data \in Unnoticed(p)
    BY <1>1, <2>5 DEF CallInv, IndexInv
  <2> QED BY <1>1, <1>2, <1>5, <2>3, <2>4, <2>5, <2>6, <2>7, <2>8, ReturnKeeps
<1> QED BY <1>6, <1>7

\* The revision of the next file is collected.
LEMMA CollectStep ==
  ASSUME RefreshInv, NEW p \in Process, Collect(p)
  PROVE  RefreshInv'
<1>1. StoreInv /\ ShapeInv /\ CallInv(p) /\ pc[p] = "collect"
  BY DEF RefreshInv, Collect, At
<1> DEFINE f == Head(walk[p])
           has == [work[p] EXCEPT !.inv[f] = file[f].rev]
           last == Len(walk[p]) = 1
           next == IF last THEN "open" ELSE "collect"
           rest == IF last THEN Files ELSE Tail(walk[p])
<1>2. /\ walk[p] \in Seq(File) /\ walk[p] # <<>> /\ work[p] \in Work /\ work[p].kind # "none"
      /\ work[p].read = <<>> \/ work[p].kind = "files"
  BY <1>1 DEF CallInv, ProcessInv, ProjectInv
<1>3. /\ f \in File /\ Tail(walk[p]) \in Seq(File) /\ (~ last => Tail(walk[p]) # <<>>)
      /\ ToSet(walk[p]) \subseteq {f} \cup ToSet(Tail(walk[p]))
      /\ (last => ToSet(walk[p]) = {f})
  BY <1>2, WalkFacts
<1>4. rest \in Seq(File) /\ rest # <<>> /\ next \in {"open", "collect"}
  BY <1>3, RefreshAssumption
<1>5. Inner(p, next, rest, has)
  <2>1. /\ work' = [work EXCEPT ![p] = has]
        /\ UNCHANGED <<file, clock, index, upgrade, watch, pending, answer, versions, seen,
                       noticed, synced, disturbed, muddled>>
    BY DEF Collect, indexVars, watchVars, histVars
  <2>2. CASE last
    BY <1>1, <2>1, <2>2 DEF Collect, Goto, Inner, ShapeInv
  <2>3. CASE ~ last
    <3>1. walk' = [walk EXCEPT ![p] = Tail(@)] /\ UNCHANGED pc
      BY <2>3 DEF Collect
    <3> QED BY <1>1, <2>1, <2>3, <3>1 DEF Inner, ShapeInv
  <2> QED BY <2>2, <2>3
<1>6. /\ has \in Work /\ has.kind = work[p].kind /\ has.epoch = work[p].epoch
      /\ has.read = work[p].read /\ has.inv = [work[p].inv EXCEPT ![f] = file[f].rev]
      /\ has.inv \in [File -> Nat]
  <2>1. file[f].rev \in 0..(clock - 1) /\ work[p].inv \in [File -> 0..(clock - 1)]
    BY <1>1, <1>2, <1>3 DEF StoreInv, Work
  <2>2. [work[p].inv EXCEPT ![f] = file[f].rev] \in [File -> 0..(clock - 1)]
    BY <1>3, <2>1
  <2>3. /\ has.kind = work[p].kind /\ has.epoch = work[p].epoch /\ has.read = work[p].read
        /\ has.inv = [work[p].inv EXCEPT ![f] = file[f].rev]
    BY <1>2 DEF Work
  <2>4. has \in Work
    <3>1. has = [work[p] EXCEPT !.inv = [work[p].inv EXCEPT ![f] = file[f].rev]]
      OBVIOUS
    <3> HIDE DEF has
    <3> QED BY <1>2, <2>2, <3>1 DEF Work
  <2>5. has.inv \in [File -> Nat]
    BY <1>1, <2>2, <2>3 DEF StoreInv
  <2> QED BY <2>3, <2>4, <2>5
<1> HIDE DEF has, next, rest
<1>7. /\ pc'[p] = next /\ work'[p] = has /\ walk'[p] = rest /\ Revs' = Revs
      /\ UNCHANGED <<file, clock, index, upgrade, watch, pending, answer, versions, seen,
                     noticed, synced, disturbed, muddled>>
  BY <1>5, InnerFacts
<1>8. next = "open" => ToSet(rest) = File
  BY DEF next, rest, File
<1>9. ScanInv(p)' /\ ReadInv(p)'
  <2>1. next = "open" => Visited(p)' = {}
    BY <1>7, <1>8 DEF Visited
  <2> QED BY <1>4, <1>7, <2>1 DEF ScanInv, ReadInv, Scanning
<1>10. ProjectInv(p)'
  BY <1>1, <1>4, <1>6, <1>7 DEF CallInv, ProjectInv, Scanning
<1>11. QuietInv(p)'
  <2>1. Unreported(p)' <=> Unreported(p)
    BY <1>6, <1>7 DEF Unreported
  <2>2. ASSUME ~ disturbed[p], NEW g \in File, g \notin ToSet(Tail(walk[p])) \/ last
        PROVE  has.inv[g] = file[g].rev
    <3>1. CASE g = f
      BY <1>2, <1>6, <3>1 DEF Work
    <3>2. CASE g # f
      <4>1. g \notin ToSet(walk[p])
        BY <1>3, <2>2, <3>2
      <4>2. work[p].inv[g] = file[g].rev
        BY <1>1, <2>2, <4>1 DEF CallInv, QuietInv
      <4> QED BY <1>2, <1>6, <3>2, <4>2 DEF Work
    <3> QED BY <3>1, <3>2
  <2>3. ~ disturbed[p] /\ next = "open" => has.inv = Revs
    BY <1>1, <1>6, <2>2, StoreFacts DEF next
  <2>4. ~ disturbed[p] /\ next = "collect" => \A g \in File \ ToSet(rest) : has.inv[g] = file[g].rev
    BY <2>2 DEF next, rest
  <2> QED BY <1>1, <1>4, <1>6, <1>7, <2>1, <2>3, <2>4 DEF CallInv, QuietInv, Projecting
<1> QED BY <1>1, <1>2, <1>4, <1>5, <1>6, <1>9, <1>10, <1>11, InnerStep
        DEF Label, Trusting, Projecting, Answering

\* The next file is opened if its revision is the one collected.
LEMMA OpenStep ==
  ASSUME RefreshInv, NEW p \in Process, Open(p)
  PROVE  RefreshInv'
<1>1. StoreInv /\ ShapeInv /\ CallInv(p) /\ pc[p] = "open"
  BY DEF RefreshInv, Open, At
<1>2. UNCHANGED <<file, clock, index, upgrade, watch, pending, versions, seen, noticed, synced,
                  disturbed, muddled>>
  BY DEF Open, indexVars, watchVars, histVars
<1>3. /\ walk[p] \in Seq(File) /\ walk[p] # <<>> /\ work[p] \in Work /\ work[p].kind # "none"
      /\ Head(walk[p]) \in File
  BY <1>1, WalkFacts DEF CallInv, ProcessInv
<1>4. CASE ~ Unchanged(p)
  <2>1. disturbed[p]
    BY <1>1, <1>3, <1>4, StoreFacts DEF CallInv, QuietInv, Unchanged
  <2> QED BY <1>1, <1>2, <1>4, <2>1, PlainReturn DEF Open
<1>5. CASE Unchanged(p)
  <2>1. Inner(p, "read", walk[p], work[p])
    BY <1>1, <1>2, <1>5 DEF Open, Inner, ShapeInv
  <2>2. /\ pc'[p] = "read" /\ work'[p] = work[p] /\ walk'[p] = walk[p] /\ Revs' = Revs
        /\ UNCHANGED <<file, clock, index, upgrade, watch, pending, answer, versions, seen,
                       noticed, synced, disturbed, muddled>>
    BY <2>1, InnerFacts
  <2>3. /\ Visited(p)' = Visited(p) /\ Source(p)' = Source(p)
        /\ (Unreported(p)' <=> Unreported(p))
    BY <1>1, <2>2 DEF Visited, Source, Unreported
  <2>4. ScanInv(p)'
    BY <1>1, <2>2, <2>3 DEF CallInv, ScanInv, Scanning
  <2>5. ReadInv(p)'
    BY <1>1, <2>2, <2>3 DEF CallInv, ReadInv
  <2>6. ProjectInv(p)'
    BY <1>1, <2>2 DEF CallInv, ProjectInv, Scanning
  <2>7. QuietInv(p)'
    BY <1>1, <2>2, <2>3 DEF CallInv, QuietInv, Projecting
  <2> QED BY <1>1, <1>3, <2>1, <2>4, <2>5, <2>6, <2>7, InnerStep
          DEF Label, Trusting, Projecting, Answering
<1> QED BY <1>4, <1>5

\* The next file is read: where no revision has changed, what was read so far is of one state.
LEMMA ReadStep ==
  ASSUME RefreshInv, NEW p \in Process, Read(p)
  PROVE  RefreshInv'
<1>1. StoreInv /\ ShapeInv /\ CallInv(p) /\ pc[p] = "read"
  BY DEF RefreshInv, Read, At
<1> DEFINE f == Head(walk[p])
           before == IF work[p].scan = None THEN [g \in File |-> 0] ELSE work[p].scan
           scan == [before EXCEPT ![f] = file[f].data]
           has == [work[p] EXCEPT !.scan = scan]
           last == Len(walk[p]) = 1
           next == IF last THEN "verify" ELSE "open"
           rest == IF last THEN Files ELSE Tail(walk[p])
<1>2. /\ walk[p] \in Seq(File) /\ walk[p] # <<>> /\ work[p] \in Work /\ work[p].kind # "none"
      /\ work[p].read = <<>>
  BY <1>1 DEF CallInv, ProcessInv, ProjectInv, Scanning
<1>3. /\ f \in File /\ Tail(walk[p]) \in Seq(File) /\ (~ last => Tail(walk[p]) # <<>>)
      /\ ToSet(walk[p]) \subseteq {f} \cup ToSet(Tail(walk[p]))
      /\ (last => ToSet(walk[p]) = {f}) /\ ToSet(walk[p]) \subseteq File
      /\ f \in ToSet(walk[p])
  <2>1. f \in ToSet(walk[p])
    BY <1>2, HeadTailProperties, EmptySeq, LenProperties DEF ToSet
  <2> QED BY <1>2, <2>1, WalkFacts
<1>4. rest \in Seq(File) /\ rest # <<>> /\ next \in {"verify", "open"} /\ ToSet(Files) = File
  BY <1>3, RefreshAssumption DEF File
<1>5. Inner(p, next, rest, has)
  <2>1. /\ work' = [work EXCEPT ![p] = has]
        /\ UNCHANGED <<file, clock, index, upgrade, watch, pending, answer, versions, seen,
                       noticed, synced, disturbed, muddled>>
    BY DEF Read, indexVars, watchVars, histVars
  <2>2. CASE last
    BY <1>1, <2>1, <2>2 DEF Read, Goto, Inner, ShapeInv
  <2>3. CASE ~ last
    <3>1. walk' = [walk EXCEPT ![p] = Tail(@)] /\ pc' = [pc EXCEPT ![p] = "open"]
      BY <2>3 DEF Read
    <3> QED BY <1>1, <2>1, <2>3, <3>1 DEF Inner, ShapeInv
  <2> QED BY <2>2, <2>3
<1>6. before \in [File -> Nat] /\ (Visited(p) # {} => before = work[p].scan)
  <2>1. Visited(p) # {} => work[p].scan # None
    BY <1>1 DEF CallInv, ScanInv
  <2>2. work[p].scan # None => work[p].scan \in [File -> Nat]
    BY <1>2 DEF Work
  <2> QED BY <2>1, <2>2
<1>7. /\ scan \in [File -> Nat] /\ scan[f] = file[f].data
      /\ \A g \in Visited(p) : g # f => scan[g] = work[p].scan[g]
  <2>1. file[f].data \in Nat
    BY <1>1, <1>3 DEF StoreInv
  <2>2. Visited(p) \subseteq File
    BY <1>1 DEF Visited
  <2> QED BY <1>3, <1>6, <2>1, <2>2
<1> HIDE DEF before, scan
<1>8. /\ has \in Work /\ has.kind = work[p].kind /\ has.epoch = work[p].epoch
      /\ has.read = <<>> /\ has.inv = work[p].inv /\ has.scan = scan
  BY <1>2, <1>7 DEF Work
<1> HIDE DEF has, next, rest
<1>9. /\ pc'[p] = next /\ work'[p] = has /\ walk'[p] = rest /\ Revs' = Revs
      /\ UNCHANGED <<file, clock, index, upgrade, watch, pending, answer, versions, seen,
                     noticed, synced, disturbed, muddled>>
  BY <1>5, InnerFacts
<1>10. /\ Visited(p) = File \ ToSet(walk[p]) /\ Visited(p)' \subseteq Visited(p) \cup {f}
       /\ Visited(p) \subseteq Visited(p)' /\ (next = "verify" => Visited(p)' = File)
       /\ f \notin Visited(p) /\ Visited(p)' \subseteq File
  <2>1. Visited(p) = File \ ToSet(walk[p])
    BY <1>1 DEF Visited
  <2>2. CASE last
    <3>1. next = "verify" /\ Visited(p)' = File
      BY <1>9, <2>2 DEF next, Visited
    <3> QED BY <1>3, <2>1, <2>2, <3>1
  <2>3. CASE ~ last
    <3>1. next = "open" /\ rest = Tail(walk[p]) /\ Visited(p)' = File \ ToSet(Tail(walk[p]))
      BY <1>9, <2>3 DEF next, rest, Visited
    <3>2. ToSet(Tail(walk[p])) \subseteq ToSet(walk[p])
      BY <1>2, WalkFacts
    <3> QED BY <1>3, <2>1, <3>1, <3>2
  <2> QED BY <2>2, <2>3
<1>11. Source(p) = work[p].inv /\ Source(p)' = work[p].inv
  BY <1>1, <1>4, <1>8, <1>9 DEF Source
<1>12. has.scan # None
  BY <1>7, <1>8, RefreshAssumption
<1>13. ScanInv(p)'
  <2>1. ASSUME work[p].kind = "index", ~ muddled, work[p].inv = Revs, NEW g \in Visited(p)'
        PROVE  scan[g] = file[g].data
    <3>1. CASE g = f
      BY <1>7, <3>1
    <3>2. CASE g # f
      <4>1. g \in Visited(p)
        BY <1>10, <2>1, <3>2
      <4>2. work[p].scan[g] = file[g].data
        BY <1>1, <1>11, <2>1, <4>1 DEF CallInv, ScanInv, Scanning
      <4> QED BY <1>7, <3>2, <4>1, <4>2
    <3> QED BY <3>1, <3>2
  <2> QED BY <1>4, <1>8, <1>9, <1>11, <1>12, <2>1 DEF ScanInv
<1>14. ReadInv(p)'
  <2> SUFFICES ASSUME work[p].kind = "files" PROVE ReadInv(p)'
    BY <1>8, <1>9 DEF ReadInv
  <2>1. ASSUME work[p].inv = Revs
        PROVE  \/ \A g \in Visited(p)' : scan[g] = file[g].data
               \/ /\ \E v, w \in versions : v.rev = w.rev /\ v # w
                  /\ \E data \in seen[p] :
                       /\ \A g \in Visited(p)' : scan[g] = data[g]
                       /\ \A g \in File \ Visited(p)' : file[g].data = data[g]
    <3>1. CASE \A g \in Visited(p) : work[p].scan[g] = file[g].data
      BY <1>7, <1>10, <3>1
    <3>2. CASE /\ \E v, w \in versions : v.rev = w.rev /\ v # w
               /\ \E data \in seen[p] :
                    /\ \A g \in Visited(p) : work[p].scan[g] = data[g]
                    /\ \A g \in File \ Visited(p) : file[g].data = data[g]
      <4>1. PICK data \in seen[p] :
              /\ \A g \in Visited(p) : work[p].scan[g] = data[g]
              /\ \A g \in File \ Visited(p) : file[g].data = data[g]
        BY <3>2
      <4>2. scan[f] = data[f]
        BY <1>3, <1>7, <1>10, <4>1
      <4>3. \A g \in Visited(p)' : scan[g] = data[g]
        BY <1>7, <1>10, <4>1, <4>2
      <4>4. \A g \in File \ Visited(p)' : file[g].data = data[g]
        BY <1>10, <4>1
      <4> QED BY <3>2, <4>3, <4>4
    <3> QED BY <1>1, <2>1, <3>1, <3>2 DEF CallInv, ReadInv
  <2>2. CASE next = "open"
    BY <1>8, <1>9, <2>1, <2>2 DEF ReadInv
  <2>3. CASE next = "verify"
    <3>1. Visited(p)' = File /\ rest = Files
      BY <1>4, <1>10, <2>3 DEF next, rest
    <3>2. CASE work[p].inv = Revs
      <4>1. seen[p] \subseteq [File -> Nat] /\ Datas \in seen[p] /\ Datas \in [File -> Nat]
            /\ \A g \in File : Datas[g] = file[g].data
        BY <1>1, StoreFacts DEF CallInv, SeenInv
      <4>2. scan \in seen[p]
        BY <1>7, <2>1, <3>1, <3>2, <4>1
      <4> QED BY <1>8, <1>9, <2>3, <4>2 DEF ReadInv
    <3>3. CASE work[p].inv # Revs
      <4>1. work[p].inv \in [File -> Nat]
        <5>1. work[p].inv \in [File -> 0..(clock - 1)] /\ clock \in Nat
          BY <1>1, <1>2 DEF Work, StoreInv
        <5> QED BY <5>1
      <4>2. \E g \in File : work[p].inv[g] # file[g].rev
        BY <1>1, <3>3, <4>1, StoreFacts
      <4> QED BY <1>4, <1>8, <1>9, <2>3, <3>1, <4>2 DEF ReadInv
    <3> QED BY <3>2, <3>3
  <2> QED BY <1>4, <2>2, <2>3
<1>15. ProjectInv(p)'
  BY <1>4, <1>8, <1>9 DEF ProjectInv, Scanning
<1>16. QuietInv(p)'
  <2>1. Unreported(p)' <=> Unreported(p)
    BY <1>8, <1>9 DEF Unreported
  <2> QED BY <1>1, <1>4, <1>8, <1>9, <2>1 DEF CallInv, QuietInv, Projecting
<1> QED BY <1>1, <1>2, <1>4, <1>5, <1>8, <1>13, <1>14, <1>15, <1>16, InnerStep
        DEF Label, Trusting, Projecting, Answering

\* A file that was read is looked at again.
LEMMA VerifyStep ==
  ASSUME RefreshInv, NEW p \in Process, Verify(p)
  PROVE  RefreshInv'
<1>1. StoreInv /\ ShapeInv /\ CallInv(p) /\ pc[p] = "verify"
  BY DEF RefreshInv, Verify, At
<1>2. UNCHANGED <<file, clock, index, upgrade, watch, pending, versions, seen, noticed, synced,
                  disturbed, muddled>>
  BY DEF Verify, indexVars, watchVars, histVars
<1>3. /\ walk[p] \in Seq(File) /\ walk[p] # <<>> /\ work[p] \in Work
      /\ work[p].kind \in {"index", "files"} /\ work[p].read = <<>> /\ work[p].scan # None
  BY <1>1 DEF CallInv, ProcessInv, ProjectInv, ScanInv, Scanning, Work
<1>4. /\ Head(walk[p]) \in File /\ Tail(walk[p]) \in Seq(File) /\ Len(walk[p]) \in Nat \ {0}
      /\ ToSet(walk[p]) \subseteq {Head(walk[p])} \cup ToSet(Tail(walk[p]))
      /\ (Len(walk[p]) # 1 => Tail(walk[p]) # <<>>)
      /\ (Len(walk[p]) = 1 => ToSet(walk[p]) = {Head(walk[p])})
  BY <1>3, WalkFacts
<1>5. CASE ~ Verified(p)
  <2>1. disturbed[p]
    BY <1>1, <1>4, <1>5, StoreFacts DEF CallInv, QuietInv, Verified, Unchanged
  <2> QED BY <1>1, <1>2, <1>5, <2>1, PlainReturn DEF Verify
<1>6. ASSUME Verified(p) PROVE work[p].inv[Head(walk[p])] = file[Head(walk[p])].rev
  BY <1>6 DEF Verified, Unchanged
<1>7. CASE Verified(p) /\ Len(walk[p]) > 1
  <2>1. walk' = [walk EXCEPT ![p] = Tail(@)] /\ UNCHANGED <<pc, work, answer>>
    BY <1>7 DEF Verify
  <2>2. Inner(p, "verify", Tail(walk[p]), work[p])
    BY <1>1, <1>2, <2>1 DEF Inner, ShapeInv
  <2>3. /\ pc'[p] = "verify" /\ work'[p] = work[p] /\ walk'[p] = Tail(walk[p]) /\ Revs' = Revs
        /\ UNCHANGED <<file, clock, index, upgrade, watch, pending, answer, versions, seen,
                       noticed, synced, disturbed, muddled>>
    BY <2>2, InnerFacts
  <2>4. /\ Visited(p)' = Visited(p) /\ Source(p)' = Source(p)
        /\ (Unreported(p)' <=> Unreported(p))
    BY <1>1, <2>3 DEF Visited, Source, Unreported
  <2>5. ScanInv(p)'
    BY <1>1, <2>3, <2>4 DEF CallInv, ScanInv, Scanning
  <2>6. ReadInv(p)'
    <3>1. work[p].kind = "files" => \/ work[p].scan \in seen[p]
                                    \/ \E f \in ToSet(walk[p]) : work[p].inv[f] # file[f].rev
      BY <1>1 DEF CallInv, ReadInv
    <3>2. work[p].kind = "files" =>
            \/ work[p].scan \in seen[p]
            \/ \E f \in ToSet(Tail(walk[p])) : work[p].inv[f] # file[f].rev
      BY <1>4, <1>6, <1>7, <3>1
    <3> QED BY <2>3, <3>2 DEF ReadInv
  <2>7. ProjectInv(p)'
    BY <1>1, <2>3 DEF CallInv, ProjectInv, Scanning
  <2>8. QuietInv(p)'
    BY <1>1, <2>3, <2>4 DEF CallInv, QuietInv, Projecting
  <2>9. Tail(walk[p]) # <<>> /\ "verify" \in Label \ {"idle", "observe"}
    <3>1. \A n \in Nat : n > 1 => n # 1
      OBVIOUS
    <3>2. Len(walk[p]) \in Nat /\ Len(walk[p]) > 1
      BY <1>4, <1>7
    <3>3. Len(walk[p]) # 1
      BY <3>1, <3>2
    <3> QED BY <1>4, <3>3 DEF Label
  <2> QED BY <1>1, <1>3, <1>4, <2>2, <2>5, <2>6, <2>7, <2>8, <2>9, InnerStep
          DEF Trusting, Projecting, Answering
<1>8. CASE Verified(p) /\ Len(walk[p]) = 1 /\ work[p].kind = "files"
  <2>1. Return(p, "value", <<work[p].scan>>)
    BY <1>8 DEF Verify
  <2>2. work[p].scan \in seen[p]
    BY <1>1, <1>4, <1>6, <1>8 DEF CallInv, ReadInv
  <2>3. ToSet(<<work[p].scan>>) = {work[p].scan}
    <3>1. DOMAIN <<work[p].scan>> = {1} /\ <<work[p].scan>>[1] = work[p].scan
      OBVIOUS
    <3> QED BY <3>1 DEF ToSet
  <2> QED BY <1>1, <1>2, <2>1, <2>2, <2>3, PlainReturn
<1>9. CASE Verified(p) /\ Len(walk[p]) = 1 /\ work[p].kind = "index"
  <2> DEFINE has == [work[p] EXCEPT !.source = work[p].inv]
  <2>1. Inner(p, "compare", Files, has)
    BY <1>1, <1>2, <1>9 DEF Verify, Goto, Inner, ShapeInv
  <2>2. /\ has \in Work /\ has.kind = "index" /\ has.epoch = work[p].epoch
        /\ has.read = <<>> /\ has.source = work[p].inv /\ has.scan = work[p].scan
    BY <1>3, <1>9 DEF Work
  <2> HIDE DEF has
  <2>3. /\ pc'[p] = "compare" /\ work'[p] = has /\ Revs' = Revs
        /\ UNCHANGED <<file, clock, index, upgrade, watch, pending, answer, versions, seen,
                       noticed, synced, disturbed, muddled>>
    BY <2>1, InnerFacts
  <2>4. /\ Visited(p)' = Visited(p) /\ Source(p)' = Source(p)
        /\ (Unreported(p)' <=> Unreported(p))
    BY <1>1, <2>2, <2>3 DEF Visited, Source, Unreported
  <2>5. work[p].inv # None
    <3>1. work[p].inv \in [File -> Nat]
      <4>1. work[p].inv \in [File -> 0..(clock - 1)] /\ clock \in Nat
        BY <1>1, <1>3 DEF Work, StoreInv
      <4> QED BY <4>1
    <3> QED BY <3>1, RefreshAssumption
  <2>6. ScanInv(p)'
    <3>1. Source(p) = work[p].inv
      BY <1>1 DEF Source
    <3>2. ~ muddled /\ work[p].inv = Revs => \A f \in Visited(p) : work[p].scan[f] = file[f].data
      BY <1>1, <1>9, <3>1 DEF CallInv, ScanInv, Scanning
    <3>3. work'[p].source # None /\ work'[p].scan # None
      BY <1>3, <2>2, <2>3, <2>5
    <3> QED BY <2>2, <2>3, <2>4, <3>1, <3>2, <3>3 DEF ScanInv
  <2>7. ReadInv(p)' /\ ProjectInv(p)'
    BY <2>2, <2>3 DEF ReadInv, ProjectInv
  <2>8. QuietInv(p)'
    BY <1>1, <1>9, <2>2, <2>3, <2>4 DEF CallInv, QuietInv, Projecting
  <2> QED BY <1>1, <1>9, <2>1, <2>2, <2>6, <2>7, <2>8, RefreshAssumption, InnerStep
          DEF Label, Trusting, Projecting, Answering
<1> QED BY <1>3, <1>4, <1>5, <1>7, <1>8, <1>9

-----------------------------------------------------------------------------
(* The steps of a watcher, and a crash. *)

Watch == [running : BOOLEAN, epoch : Nat, reconciled : Nat, error : BOOLEAN]

\* A watcher that fails.
LEMMA FailedWatch ==
  ASSUME NEW w \in Watch, NEW runs \in BOOLEAN,
         NEW u, u = [w EXCEPT !.running = runs, !.epoch = @ + 1, !.error = TRUE]
  PROVE  /\ u \in Watch /\ u.reconciled = w.reconciled /\ u.epoch = w.epoch + 1
         /\ u.error = TRUE /\ u.running = runs
<1>1. w.epoch + 1 \in Nat
  BY DEF Watch
<1>2. u = [running |-> runs, epoch |-> w.epoch + 1, reconciled |-> w.reconciled, error |-> TRUE]
  BY DEF Watch
<1>3. w.reconciled \in Nat
  BY DEF Watch
<1> QED BY <1>1, <1>2, <1>3 DEF Watch

\* A call that observes a watcher, started anew if need be.
LEMMA ObserveStep ==
  ASSUME RefreshInv, NEW p \in Process, Observe(p)
  PROVE  RefreshInv'
<1>1. StoreInv /\ ShapeInv /\ CallInv(p) /\ pc[p] = "observe"
  BY DEF RefreshInv, Observe, At
<1>2. UNCHANGED <<file, clock, index, upgrade, answer, versions, seen, noticed, synced, muddled>>
  BY DEF Observe, indexVars
<1> DEFINE next == IF Dirty(watch'[p]) THEN "collect" ELSE "baseline"
<1>3. /\ pc' = [pc EXCEPT ![p] = next] /\ walk' = [walk EXCEPT ![p] = Files]
      /\ work' = [work EXCEPT ![p].epoch = watch'[p].epoch]
  BY DEF Observe, Goto
<1>4. /\ work[p] \in Work /\ work[p].kind = "index" /\ ~ Scanned(p) /\ work[p].read = <<>>
      /\ watch[p] \in [running : BOOLEAN, epoch : Nat, reconciled : Nat, error : BOOLEAN]
      /\ watch[p].reconciled <= watch[p].epoch /\ (watch[p].error => ~ Reliable(p))
      /\ pending[p] \in Seq(0..(clock - 1))
      /\ (synced[p] # None => watch[p].running \/ watch[p].error)
      /\ answer[p].kind = "none" /\ disturbed[p] \in BOOLEAN
  BY <1>1 DEF CallInv, ProcessInv, WatchInv, ProjectInv, Work
<1>5. /\ DOMAIN watch' = Process /\ DOMAIN pending' = Process /\ DOMAIN disturbed' = Process
      /\ \A q \in Process \ {p} :
           watch'[q] = watch[q] /\ pending'[q] = pending[q] /\ disturbed'[q] = disturbed[q]
  BY <1>1 DEF Observe, ShapeInv, watchVars
<1>6. ShapeInv' /\ UNCHANGED Shared /\ \A q \in Process \ {p} : SameFor(q)
  BY <1>1, <1>2, <1>3, <1>5 DEF ShapeInv, Shared, SameFor
<1>7. /\ watch'[p] \in [running : BOOLEAN, epoch : Nat, reconciled : Nat, error : BOOLEAN]
      /\ watch'[p].reconciled = watch[p].reconciled /\ watch[p].epoch <= watch'[p].epoch
      /\ watch'[p].running \/ watch'[p].error
      /\ pending'[p] \in Seq(0..(clock - 1)) /\ disturbed'[p] \in BOOLEAN
      /\ Reliable(p)' => Reliable(p)
      /\ watch'[p].error => ~ Reliable(p)' /\ disturbed'[p]
      /\ synced[p] # None /\ Reliable(p)' => pending'[p] = pending[p]
  <2>1. CASE NeedsStart(watch[p]) /\ watch' = [watch EXCEPT ![p] = Started(@)]
             /\ UNCHANGED <<budget, disturbed>> /\ pending' = [pending EXCEPT ![p] = <<>>]
    <3>1. /\ watch'[p] = [watch[p] EXCEPT !.running = TRUE, !.error = FALSE]
          /\ pending'[p] = <<>> /\ disturbed'[p] = disturbed[p]
      BY <1>1, <2>1 DEF ShapeInv, Started
    <3>2. /\ watch'[p] \in [running : BOOLEAN, epoch : Nat, reconciled : Nat, error : BOOLEAN]
          /\ watch'[p].reconciled = watch[p].reconciled /\ watch[p].epoch = watch'[p].epoch
          /\ watch'[p].running /\ ~ watch'[p].error
      BY <1>4, <3>1
    <3>3. Reliable(p)' <=> Reliable(p)
      BY <3>2 DEF Reliable
    <3>4. synced[p] # None => ~ Reliable(p)
      BY <1>4, <2>1 DEF NeedsStart
    <3> QED BY <1>4, <3>1, <3>2, <3>3, <3>4, EmptySeq
  <2>2. CASE watch' = [watch EXCEPT ![p] = FailedStart(@)]
             /\ disturbed' = [disturbed EXCEPT ![p] = TRUE]
             /\ pending' = [pending EXCEPT ![p] = <<>>]
    <3>1. /\ watch'[p] = [watch[p] EXCEPT !.running = FALSE, !.epoch = @ + 1, !.error = TRUE]
          /\ pending'[p] = <<>> /\ disturbed'[p]
      BY <1>1, <2>2 DEF ShapeInv, FailedStart
    <3>2. /\ watch'[p] \in [running : BOOLEAN, epoch : Nat, reconciled : Nat, error : BOOLEAN]
          /\ watch'[p].reconciled = watch[p].reconciled /\ watch'[p].epoch = watch[p].epoch + 1
          /\ watch'[p].error
      BY <1>4, <3>1, FailedWatch DEF Watch
    <3>3. ~ Reliable(p)' /\ watch[p].epoch <= watch'[p].epoch
      BY <1>4, <3>2 DEF Reliable
    <3> QED BY <2>2, <1>1, <3>1, <3>2, <3>3, EmptySeq DEF ShapeInv
  <2>3. CASE ~ NeedsStart(watch[p]) /\ UNCHANGED <<watchVars, budget, disturbed>>
    <3>1. watch'[p] = watch[p] /\ pending'[p] = pending[p] /\ disturbed'[p] = disturbed[p]
      BY <2>3 DEF watchVars
    <3>2. Reliable(p)' <=> Reliable(p)
      BY <3>1 DEF Reliable
    <3> QED BY <1>4, <2>3, <3>1, <3>2 DEF NeedsStart
  <2> QED BY <2>1, <2>2, <2>3 DEF Observe
<1>8. /\ pc'[p] = next /\ next \in {"collect", "baseline"} /\ walk'[p] = Files
      /\ work'[p] = [work[p] EXCEPT !.epoch = watch'[p].epoch]
  BY <1>1, <1>3 DEF ShapeInv
<1>9. next = "baseline" => Reliable(p)' /\ ~ watch'[p].error
  BY DEF Dirty, Reliable
<1> HIDE DEF next
<1>10. /\ work'[p] \in Work /\ work'[p].kind = "index" /\ work'[p].epoch = watch'[p].epoch
       /\ work'[p].source = work[p].source /\ work'[p].read = <<>>
  BY <1>4, <1>7, <1>8 DEF Work
<1>11. /\ Revs' = Revs /\ Datas' = Datas /\ (Usable' <=> Usable) /\ Work' = Work
       /\ Unnoticed(p)' = Unnoticed(p)
  BY <1>2, <1>6, SharedKept
<1>12. ProcessInv(p)'
  BY <1>1, <1>2, <1>4, <1>7, <1>8, <1>10, <1>11, RefreshAssumption DEF CallInv, ProcessInv, Label
<1>13. WatchInv(p)'
  BY <1>2, <1>4, <1>7, <1>8, <1>10 DEF WatchInv
<1>14. ScanInv(p)' /\ ReadInv(p)'
  BY <1>8, <1>10 DEF ScanInv, ReadInv, Scanning
<1>15. IndexInv(p)'
  <2>1. Usable /\ ~ muddled /\ Reliable(p) => index.data \in Unnoticed(p) /\ index.data \in seen[p]
    BY <1>1 DEF CallInv, IndexInv
  <2> QED BY <1>2, <1>7, <1>8, <1>9, <1>11, <2>1 DEF IndexInv, Trusting, Projecting, Answering
<1>16. ProjectInv(p)'
  BY <1>8, <1>10 DEF ProjectInv, Scanning
<1>17. AnswerInv(p)'
  <2>1. synced[p] # None /\ ~ muddled /\ Reliable(p) /\ pending[p] = <<>> =>
          synced[p] \in Unnoticed(p)
    BY <1>1 DEF CallInv, AnswerInv
  <2> QED BY <1>2, <1>4, <1>7, <1>8, <1>11, <2>1 DEF AnswerInv
<1>18. SeenInv(p)'
  BY <1>1, <1>2, <1>11 DEF CallInv, SeenInv
<1>19. QuietInv(p)'
  <2>1. ~ disturbed'[p] => Unreported(p)'
    BY <1>7, <1>10 DEF Unreported
  <2>2. ~ Scanned(p)' /\ File \ ToSet(Files) = {}
    BY <1>4, <1>10 DEF Scanned, File
  <2> QED BY <1>2, <1>4, <1>8, <2>1, <2>2 DEF QuietInv, Projecting
<1>20. CallInv(p)'
  BY <1>12, <1>13, <1>14, <1>15, <1>16, <1>17, <1>18, <1>19 DEF CallInv
<1> QED BY <1>6, <1>20, LocalStep

\* An event or an error of the watcher starts an epoch.
LEMMA ReportKeeps ==
  ASSUME RefreshInv, NEW p \in Process,
         UNCHANGED <<file, clock, index, upgrade, pc, walk, work, answer, versions, seen, synced,
                     muddled>>,
         DOMAIN watch' = Process, DOMAIN pending' = Process, DOMAIN noticed' = Process,
         DOMAIN disturbed' = Process,
         \A q \in Process \ {p} :
           /\ watch'[q] = watch[q] /\ pending'[q] = pending[q]
           /\ noticed'[q] = noticed[q] /\ disturbed'[q] = disturbed[q],
         watch'[p] \in [running : BOOLEAN, epoch : Nat, reconciled : Nat, error : BOOLEAN],
         watch'[p].epoch = watch[p].epoch + 1, watch'[p].reconciled = watch[p].reconciled,
         watch[p].running \/ watch[p].error => watch'[p].running \/ watch'[p].error,
         pending'[p] \in Seq(0..(clock - 1)), noticed'[p] \subseteq 0..(clock - 1),
         disturbed'[p] = TRUE
  PROVE  RefreshInv'
<1>1. StoreInv /\ ShapeInv /\ CallInv(p)
  BY DEF RefreshInv
<1>2. ShapeInv' /\ UNCHANGED Shared /\ \A q \in Process \ {p} : SameFor(q)
  BY <1>1 DEF ShapeInv, Shared, SameFor
<1>3. /\ Revs' = Revs /\ Datas' = Datas /\ (Usable' <=> Usable) /\ Work' = Work
  BY <1>2, SharedKept
<1>4. /\ watch[p] \in [running : BOOLEAN, epoch : Nat, reconciled : Nat, error : BOOLEAN]
      /\ watch[p].reconciled <= watch[p].epoch
      /\ work[p].kind = "index" /\ pc[p] # "observe" =>
           watch[p].reconciled <= work[p].epoch /\ work[p].epoch <= watch[p].epoch
      /\ work[p] \in Work
  BY <1>1 DEF CallInv, WatchInv, ProcessInv
<1>5. work[p].epoch \in Nat
  BY <1>4 DEF Work
<1>6. ~ Reliable(p)' /\ (work[p].kind = "index" /\ pc[p] # "observe" => ~ Unreported(p)')
  BY <1>4, <1>5 DEF Reliable, Unreported
<1>7. ProcessInv(p)'
  BY <1>1, <1>3 DEF CallInv, ProcessInv, Scanned
<1>8. WatchInv(p)'
  BY <1>1, <1>4, <1>5, <1>6 DEF CallInv, WatchInv
<1>9. Visited(p)' = Visited(p) /\ Source(p)' = Source(p)
  BY DEF Visited, Source
<1>10. ScanInv(p)' /\ ReadInv(p)'
  BY <1>1, <1>3, <1>9 DEF CallInv, ScanInv, ReadInv
<1>11. work[p].kind # "index" => pc[p] \in {"idle", "collect", "open", "read", "verify"}
  BY <1>1, <1>4 DEF CallInv, ProcessInv, Work
<1>12. IndexInv(p)'
  BY <1>1, <1>3, <1>6, <1>11 DEF CallInv, IndexInv, Trusting, Projecting, Answering
<1>13. ProjectInv(p)'
  BY <1>1 DEF CallInv, ProjectInv
<1>14. AnswerInv(p)'
  <2>1. pc[p] \in {"check", "reconcile"} => ~ Unreported(p)'
    BY <1>6, <1>11
  <2>2. pc[p] = "check" => \E d : /\ work[p].read = <<d, d>>
                                  /\ ~ muddled /\ work[p].inv = Revs => d \in seen[p]
    BY <1>1 DEF CallInv, AnswerInv
  <2>3. pc[p] = "reconcile" => \E d : work[p].read = <<d, d>> /\ (~ muddled => d \in seen[p])
    BY <1>1 DEF CallInv, AnswerInv
  <2>4. answer[p].kind = "value" /\ ~ muddled =>
          \E data \in seen[p] : ToSet(answer[p].data) = {data}
    BY <1>1 DEF CallInv, AnswerInv
  <2> QED BY <1>3, <1>6, <2>1, <2>2, <2>3, <2>4 DEF AnswerInv
<1>15. SeenInv(p)' /\ QuietInv(p)'
  BY <1>1, <1>3 DEF CallInv, SeenInv, QuietInv
<1>16. CallInv(p)'
  BY <1>7, <1>8, <1>10, <1>12, <1>13, <1>14, <1>15 DEF CallInv
<1> QED BY <1>2, <1>16, LocalStep

\* An event reaches its process.
LEMMA DeliverStep ==
  ASSUME RefreshInv, NEW p \in Process, Deliver(p)
  PROVE  RefreshInv'
<1>1. StoreInv /\ ShapeInv /\ CallInv(p)
  BY DEF RefreshInv
<1>2. /\ pending[p] # <<>> /\ pending[p] \in Seq(0..(clock - 1))
      /\ watch[p] \in [running : BOOLEAN, epoch : Nat, reconciled : Nat, error : BOOLEAN]
      /\ noticed[p] \subseteq 0..(clock - 1)
  BY <1>1 DEF Deliver, CallInv, WatchInv, ProcessInv
<1>3. Head(pending[p]) \in 0..(clock - 1) /\ Tail(pending[p]) \in Seq(0..(clock - 1))
  BY <1>2, HeadTailProperties
<1>4. /\ watch' = [watch EXCEPT ![p].epoch = @ + 1]
      /\ pending' = [pending EXCEPT ![p] = Tail(@)]
      /\ noticed' = [noticed EXCEPT ![p] = @ \cup {Head(pending[p])}]
      /\ disturbed' = [disturbed EXCEPT ![p] = TRUE]
      /\ UNCHANGED <<file, clock, index, upgrade, pc, walk, work, answer, versions, seen, synced,
                     muddled>>
  BY DEF Deliver, indexVars
<1>5. /\ DOMAIN watch' = Process /\ DOMAIN pending' = Process /\ DOMAIN noticed' = Process
      /\ DOMAIN disturbed' = Process /\ disturbed'[p] = TRUE
      /\ \A q \in Process \ {p} :
           /\ watch'[q] = watch[q] /\ pending'[q] = pending[q]
           /\ noticed'[q] = noticed[q] /\ disturbed'[q] = disturbed[q]
      /\ watch'[p] = [watch[p] EXCEPT !.epoch = @ + 1] /\ pending'[p] = Tail(pending[p])
      /\ noticed'[p] = noticed[p] \cup {Head(pending[p])}
  BY <1>1, <1>4 DEF ShapeInv
<1>6. /\ watch'[p] \in [running : BOOLEAN, epoch : Nat, reconciled : Nat, error : BOOLEAN]
      /\ watch'[p].epoch = watch[p].epoch + 1 /\ watch'[p].reconciled = watch[p].reconciled
      /\ watch'[p].running = watch[p].running /\ watch'[p].error = watch[p].error
  BY <1>2, <1>5
<1>7. pending'[p] \in Seq(0..(clock - 1)) /\ noticed'[p] \subseteq 0..(clock - 1)
  BY <1>2, <1>3, <1>5
<1> QED BY <1>4, <1>5, <1>6, <1>7, ReportKeeps

\* The watcher reports an error.
LEMMA WatchErrorStep ==
  ASSUME RefreshInv, NEW p \in Process, WatchError(p)
  PROVE  RefreshInv'
<1>1. StoreInv /\ ShapeInv /\ CallInv(p)
  BY DEF RefreshInv
<1>2. watch[p] \in [running : BOOLEAN, epoch : Nat, reconciled : Nat, error : BOOLEAN]
  BY <1>1 DEF CallInv, WatchInv
<1>3. /\ watch' = [watch EXCEPT ![p].epoch = @ + 1, ![p].error = TRUE]
      /\ pending' = [pending EXCEPT ![p] = <<>>]
      /\ noticed' = [noticed EXCEPT ![p] = { v.at : v \in versions }]
      /\ disturbed' = [disturbed EXCEPT ![p] = TRUE]
      /\ UNCHANGED <<file, clock, index, upgrade, pc, walk, work, answer, versions, seen, synced,
                     muddled>>
  BY DEF WatchError, indexVars
<1>4. /\ DOMAIN watch' = Process /\ DOMAIN pending' = Process /\ DOMAIN noticed' = Process
      /\ DOMAIN disturbed' = Process /\ disturbed'[p] = TRUE
      /\ \A q \in Process \ {p} :
           /\ watch'[q] = watch[q] /\ pending'[q] = pending[q]
           /\ noticed'[q] = noticed[q] /\ disturbed'[q] = disturbed[q]
      /\ watch'[p] = [watch[p] EXCEPT !.epoch = @ + 1, !.error = TRUE] /\ pending'[p] = <<>>
      /\ noticed'[p] = { v.at : v \in versions }
  BY <1>1, <1>3 DEF ShapeInv
<1>5. /\ watch'[p] \in [running : BOOLEAN, epoch : Nat, reconciled : Nat, error : BOOLEAN]
      /\ watch'[p].epoch = watch[p].epoch + 1 /\ watch'[p].reconciled = watch[p].reconciled
      /\ watch'[p].error
  <2>1. watch'[p] = [watch[p] EXCEPT !.running = watch[p].running, !.epoch = @ + 1, !.error = TRUE]
    BY <1>2, <1>4
  <2>2. watch[p] \in Watch /\ watch[p].running \in BOOLEAN
    BY <1>2 DEF Watch
  <2>3. /\ watch'[p] \in Watch /\ watch'[p].reconciled = watch[p].reconciled
        /\ watch'[p].epoch = watch[p].epoch + 1 /\ watch'[p].error = TRUE
    <3>1. PICK r \in BOOLEAN : r = watch[p].running
      BY <2>2
    <3>2. watch'[p] = [watch[p] EXCEPT !.running = r, !.epoch = @ + 1, !.error = TRUE]
      BY <2>1, <3>1
    <3>3. PICK w \in Watch : w = watch[p]
      BY <2>2
    <3>4. PICK u : u = watch'[p]
      OBVIOUS
    <3>5. u = [w EXCEPT !.running = r, !.epoch = @ + 1, !.error = TRUE]
      BY <3>2, <3>3, <3>4
    <3>6. /\ u \in Watch /\ u.reconciled = w.reconciled /\ u.epoch = w.epoch + 1 /\ u.error = TRUE
      BY <3>5, FailedWatch, ZenonT(40)
    <3> QED BY <3>3, <3>4, <3>6
  <2> QED BY <2>3 DEF Watch
<1>6. pending'[p] \in Seq(0..(clock - 1)) /\ noticed'[p] \subseteq 0..(clock - 1)
  BY <1>1, <1>4, EmptySeq DEF StoreInv
<1> QED BY <1>3, <1>4, <1>5, <1>6, ReportKeeps

\* A process dies: what it was told is forgotten with it, and its index is to be trusted no more
\* than any that bears the revision of the Store.
LEMMA CrashStep ==
  ASSUME RefreshInv, NEW p \in Process, Crash(p)
  PROVE  RefreshInv'
<1>1. StoreInv /\ ShapeInv /\ CallInv(p)
  BY DEF RefreshInv
<1>2. /\ UNCHANGED <<file, clock, index, versions, seen, disturbed, muddled>>
      /\ upgrade' = [upgrade EXCEPT ![p] = index # None /\ index.legacy]
      /\ watch' = [watch EXCEPT ![p] = NoWatch] /\ pending' = [pending EXCEPT ![p] = <<>>]
      /\ noticed' = [noticed EXCEPT ![p] = {}] /\ synced' = [synced EXCEPT ![p] = None]
      /\ pc' = [pc EXCEPT ![p] = "idle"] /\ walk' = [walk EXCEPT ![p] = Files]
      /\ work' = [work EXCEPT ![p] = NoWork]
      /\ answer' = [answer EXCEPT ![p] = [kind |-> "none", data |-> <<>>]]
  BY DEF Crash, Return, Goto
<1>3. ShapeInv' /\ UNCHANGED Shared /\ \A q \in Process \ {p} : SameFor(q)
  BY <1>1, <1>2 DEF ShapeInv, Shared, SameFor
<1>4. /\ upgrade'[p] = (index # None /\ index.legacy) /\ watch'[p] = NoWatch /\ pending'[p] = <<>>
      /\ noticed'[p] = {} /\ synced'[p] = None /\ pc'[p] = "idle" /\ walk'[p] = Files
      /\ work'[p] = NoWork /\ answer'[p].kind = "none"
      /\ disturbed'[p] = disturbed[p] /\ seen'[p] = seen[p]
  BY <1>1, <1>2 DEF ShapeInv
<1>5. /\ Revs' = Revs /\ (Usable' <=> Usable) /\ Work' = Work
  BY <1>3, SharedKept
<1>6. NoWork \in Work /\ NoWork.kind = "none"
  BY <1>1, EmptySeq DEF NoWork, Work, StoreInv
<1>7. ProcessInv(p)'
  <2>1. index' # None /\ index'.legacy => upgrade'[p]
    BY <1>2, <1>4
  <2>2. noticed'[p] \subseteq 0..(clock' - 1) /\ disturbed'[p] \in BOOLEAN
    BY <1>1, <1>4 DEF CallInv, ProcessInv
  <2>3. work'[p] \in Work' /\ work'[p].kind = "none" /\ "idle" \in Label
    BY <1>4, <1>5, <1>6 DEF Label
  <2> QED BY <1>4, <2>1, <2>2, <2>3, RefreshAssumption DEF ProcessInv
<1>8. WatchInv(p)'
  BY <1>4, <1>6, EmptySeq DEF WatchInv, NoWatch
<1>9. ScanInv(p)' /\ ReadInv(p)' /\ ProjectInv(p)' /\ AnswerInv(p)'
  BY <1>4, <1>6 DEF ScanInv, ReadInv, ProjectInv, AnswerInv, Scanning
<1>10. IndexInv(p)'
  <2>1. Usable /\ ~ muddled => \E v \in versions : v.rev = Revs /\ v.data = index.data
    BY <1>1 DEF StoreInv
  <2>2. Usable /\ ~ muddled => index.data \in Unnoticed(p)'
    BY <1>2, <1>4, <1>5, <2>1 DEF Unnoticed
  <2> QED BY <1>2, <1>4, <1>5, <2>2 DEF IndexInv, Trusting, Projecting, Answering
<1>11. SeenInv(p)' /\ QuietInv(p)'
  BY <1>1, <1>4, <1>6 DEF CallInv, SeenInv, QuietInv, Projecting
<1>12. CallInv(p)'
  BY <1>7, <1>8, <1>9, <1>10, <1>11 DEF CallInv
<1> QED BY <1>3, <1>12, LocalStep

-----------------------------------------------------------------------------
(* The steps that all processes see: a publication, and an edit. *)

\* What a later clock leaves of the shapes.
LEMMA Later ==
  ASSUME clock \in Nat \ {0}, clock' = clock + 1
  PROVE  /\ clock' \in Nat \ {0} /\ 0..(clock - 1) \subseteq 0..(clock' - 1)
         /\ clock \in 0..(clock' - 1) /\ clock \notin 0..(clock - 1)
         /\ Work \subseteq Work' /\ Index \subseteq Index'
         /\ Seq(0..(clock - 1)) \subseteq Seq(0..(clock' - 1))
<1>1. /\ clock' \in Nat \ {0} /\ 0..(clock - 1) \subseteq 0..(clock' - 1)
      /\ clock \in 0..(clock' - 1) /\ clock \notin 0..(clock - 1)
  OBVIOUS
<1>2. Work \subseteq Work'
  <2> SUFFICES ASSUME NEW x \in Work PROVE x \in Work'
    OBVIOUS
  <2>1. /\ x.inv \in [File -> 0..(clock' - 1)] /\ x.id \in 0..(clock' - 1)
        /\ x.source \in [File -> 0..(clock' - 1)] \cup {None}
    BY <1>1 DEF Work
  <2> QED BY <2>1 DEF Work
<1>3. Index \subseteq Index'
  <2> SUFFICES ASSUME NEW x \in Index PROVE x \in Index'
    OBVIOUS
  <2>1. x.rev \in [File -> 0..(clock' - 1)] /\ x.id \in 0..(clock' - 1)
    BY <1>1 DEF Index
  <2> QED BY <2>1 DEF Index
<1>4. Seq(0..(clock - 1)) \subseteq Seq(0..(clock' - 1))
  BY <1>1
<1> QED BY <1>1, <1>2, <1>3, <1>4

\* A publication: the index bears the revision of the scan, and says what is in the files if that
\* is still the revision of the Store.
LEMMA PublishStep ==
  ASSUME RefreshInv, NEW p \in Process, Publish(p)
  PROVE  RefreshInv'
<1>1. StoreInv /\ ShapeInv /\ CallInv(p) /\ pc[p] = "publish"
  BY DEF RefreshInv, Publish, At
<1>2. UNCHANGED <<file, watch, pending, versions, seen, noticed, synced, muddled>>
  BY DEF Publish, watchVars
<1>3. /\ work[p] \in Work /\ work[p].kind = "index" /\ work[p].read = <<>>
      /\ work[p].scan \in [File -> Nat] /\ work[p].source \in [File -> 0..(clock - 1)]
  BY <1>1 DEF CallInv, ProcessInv, ProjectInv, ScanInv, Scanning, Work
<1>4. CASE work[p].inv # Stamp(p)
  <2>1. Return(p, "degraded", <<>>) /\ UNCHANGED <<index, upgrade, clock, disturbed>>
    BY <1>4 DEF Publish, indexVars
  <2>2. disturbed[p]
    BY <1>1, <1>3, <1>4 DEF CallInv, QuietInv, Stamp
  <2> QED BY <1>1, <1>2, <2>1, <2>2, PlainReturn
<1>5. CASE work[p].inv = Stamp(p)
  <2>1. /\ index' = [id |-> clock, legacy |-> FALSE, rev |-> work[p].source, data |-> work[p].scan]
        /\ upgrade' = [upgrade EXCEPT ![p] = FALSE] /\ clock' = clock + 1
        /\ disturbed' = [q \in Process |-> disturbed[q] \/ q # p]
        /\ pc' = [pc EXCEPT ![p] = "baseline"] /\ walk' = [walk EXCEPT ![p] = Files]
        /\ work' = work /\ answer' = answer
    BY <1>5 DEF Publish, Goto, Stamp
  <2>2. clock \in Nat \ {0}
    BY <1>1 DEF StoreInv
  <2>3. /\ clock' \in Nat \ {0} /\ 0..(clock - 1) \subseteq 0..(clock' - 1)
        /\ clock \in 0..(clock' - 1) /\ clock \notin 0..(clock - 1)
        /\ Work \subseteq Work' /\ Seq(0..(clock - 1)) \subseteq Seq(0..(clock' - 1))
    BY <2>1, <2>2, Later
  <2>4. /\ index' # None /\ index' \in Index' /\ index'.id = clock /\ index'.legacy = FALSE
        /\ index'.rev = work[p].source /\ index'.data = work[p].scan
    <3>1. work[p].source \in [File -> 0..(clock' - 1)] /\ clock \in 0..(clock' - 1)
      BY <1>3, <2>3
    <3>2. index' \in Index'
      BY <1>3, <2>1, <3>1 DEF Index
    <3>3. index' \in [id : Nat, legacy : BOOLEAN, rev : [File -> Nat], data : [File -> Nat]]
      <4>1. work[p].source \in [File -> Nat]
        BY <1>3, <2>2
      <4> QED BY <1>3, <2>1, <2>2, <4>1
    <3> QED BY <2>1, <3>2, <3>3, RefreshAssumption
  <2>5. Revs' = Revs /\ Datas' = Datas
    BY <1>2 DEF Revs, Datas
  <2>6. Usable' /\ ~ muddled => index'.data = Datas
    <3> SUFFICES ASSUME Usable', ~ muddled PROVE work[p].scan = Datas
      BY <2>4
    <3>1. work[p].source = Revs
      BY <2>4, <2>5 DEF Usable
    <3>2. Source(p) = Revs /\ Visited(p) = File
      BY <1>1, <3>1 DEF Source, Visited
    <3>3. \A f \in File : work[p].scan[f] = file[f].data
      BY <1>1, <1>3, <3>2 DEF CallInv, ScanInv, Scanning
    <3> QED BY <1>1, <1>3, <3>3, StoreFacts
  <2>7. StoreInv'
    <3>1. file' \in [File -> [rev : 0..(clock' - 1), data : 0..(clock' - 1)]]
      <4>1. \A f \in File : file[f] \in [rev : 0..(clock' - 1), data : 0..(clock' - 1)]
        BY <1>1, <2>3 DEF StoreInv
      <4> QED BY <1>1, <1>2, <4>1 DEF StoreInv
    <3>2. \A v \in versions' :
            /\ v.at \in 0..(clock' - 1) /\ v.rev \in [File -> 0..(clock' - 1)]
            /\ v.data \in [File -> Nat]
      BY <1>1, <1>2, <2>3, ZenonT(40) DEF StoreInv
    <3>3. \E v \in versions : v.rev = Revs /\ v.data = Datas /\ \A w \in versions : w.at <= v.at
      BY <1>1 DEF StoreInv
    <3>4. Usable' /\ ~ muddled' => \E v \in versions' : v.rev = Revs' /\ v.data = index'.data
      BY <1>2, <2>5, <2>6, <3>3
    <3> QED BY <1>2, <2>3, <2>4, <2>5, <3>1, <3>2, <3>3, <3>4 DEF StoreInv
  <2>8. ShapeInv'
    BY <1>1, <1>2, <2>1 DEF ShapeInv
  <2>9. ASSUME NEW q \in Process PROVE CallInv(q)'
    <3>1. CallInv(q)
      BY DEF RefreshInv
    <3>2. /\ work'[q] = work[q] /\ answer'[q] = answer[q] /\ watch'[q] = watch[q]
          /\ pending'[q] = pending[q] /\ seen'[q] = seen[q] /\ noticed'[q] = noticed[q]
          /\ synced'[q] = synced[q]
      BY <1>2, <2>1
    <3>3. /\ q # p => /\ pc'[q] = pc[q] /\ walk'[q] = walk[q] /\ upgrade'[q] = upgrade[q]
                      /\ disturbed'[q] = TRUE
          /\ q = p => /\ pc'[q] = "baseline" /\ walk'[q] = Files /\ upgrade'[q] = FALSE
                      /\ disturbed'[q] = disturbed[q]
      <4>1. disturbed[p] \in BOOLEAN
        BY <1>1 DEF CallInv, ProcessInv
      <4> QED BY <1>1, <2>1, <4>1 DEF ShapeInv
    <3>4. /\ (Reliable(q)' <=> Reliable(q)) /\ (Unreported(q)' <=> Unreported(q))
          /\ (Scanned(q)' <=> Scanned(q)) /\ Unnoticed(q)' = Unnoticed(q)
      <4>1. (Reliable(q)' <=> Reliable(q)) /\ (Unreported(q)' <=> Unreported(q))
        BY <3>2 DEF Reliable, Unreported
      <4>2. Scanned(q)' <=> Scanned(q)
        BY <3>2 DEF Scanned
      <4>3. Unnoticed(q)' = Unnoticed(q)
        BY <1>2, <2>5, <3>2 DEF Unnoticed
      <4> QED BY <4>1, <4>2, <4>3
    <3>5. ProcessInv(q)'
      <4>1. work'[q] \in Work' /\ noticed'[q] \subseteq 0..(clock' - 1)
        BY <2>3, <3>1, <3>2 DEF CallInv, ProcessInv
      <4>2. /\ pc'[q] \in Label /\ walk'[q] \in Seq(File) /\ walk'[q] # <<>>
            /\ disturbed'[q] \in BOOLEAN
        BY <3>1, <3>3, RefreshAssumption DEF CallInv, ProcessInv, Label
      <4>3. CASE q # p
        BY <2>4, <3>1, <3>2, <3>3, <3>4, <4>1, <4>2, <4>3 DEF CallInv, ProcessInv
      <4>4. CASE q = p
        <5>1. answer[p].kind = "none"
          BY <1>1 DEF CallInv, ProcessInv
        <5> QED BY <1>3, <2>4, <3>2, <3>3, <4>1, <4>2, <4>4, <5>1 DEF ProcessInv
      <4> QED BY <4>3, <4>4
    <3>6. WatchInv(q)'
      <4>1. pending[q] \in Seq(0..(clock' - 1))
        BY <2>3, <3>1 DEF CallInv, WatchInv
      <4>2. CASE q # p
        BY <3>1, <3>2, <3>3, <3>4, <4>1, <4>2 DEF CallInv, WatchInv
      <4>3. CASE q = p
        BY <1>1, <3>1, <3>2, <3>3, <3>4, <4>1, <4>3 DEF CallInv, WatchInv
      <4> QED BY <4>2, <4>3
    <3>7. ScanInv(q)'
      <4>1. CASE q # p
        <5>1. Visited(q)' = Visited(q) /\ Source(q)' = Source(q)
          BY <3>2, <3>3, <4>1 DEF Visited, Source
        <5> QED BY <1>2, <2>5, <3>1, <3>2, <3>3, <4>1, <5>1 DEF CallInv, ScanInv
      <4>2. CASE q = p
        BY <3>3, <4>2 DEF ScanInv, Scanning
      <4> QED BY <4>1, <4>2
    <3>8. ReadInv(q)'
      <4>1. CASE q # p
        <5>1. Visited(q)' = Visited(q)
          BY <3>2, <3>3, <4>1 DEF Visited
        <5> QED BY <1>2, <2>5, <3>1, <3>2, <3>3, <4>1, <5>1 DEF CallInv, ReadInv
      <4>2. CASE q = p
        BY <1>3, <3>2, <3>3, <4>2 DEF ReadInv
      <4> QED BY <4>1, <4>2
    <3>9. IndexInv(q)'
      <4>1. Usable' /\ ~ muddled => index'.data \in Unnoticed(q)
        BY <1>1, <2>6, NowUnnoticed
      <4>2. pc[q] # "idle" => Datas \in seen[q]
        BY <3>1 DEF CallInv, SeenInv
      <4>3. pc'[q] # "idle" => pc[q] # "idle"
        BY <1>1, <3>3
      <4> QED BY <1>2, <2>6, <3>2, <3>4, <4>1, <4>2, <4>3 DEF IndexInv, Trusting, Projecting
    <3>10. ProjectInv(q)'
      <4>1. index'.id # work[q].id
        BY <2>3, <2>4, <3>1 DEF CallInv, ProcessInv, Work
      <4>2. CASE q # p
        <5>1. pc[q] = "project again" => \E d : work[q].read = <<d>>
          BY <3>1 DEF CallInv, ProjectInv
        <5>2. pc[q] = "confirm" => \E d, e : work[q].read = <<d, e>>
          BY <3>1 DEF CallInv, ProjectInv
        <5>3. /\ pc[q] = "project" => work[q].read = <<>>
              /\ pc[q] \in {"observe", "collect", "baseline", "inspect"} \cup Scanning =>
                   work[q].read = <<>>
          BY <3>1 DEF CallInv, ProjectInv
        <5> QED BY <3>2, <3>3, <4>1, <4>2, <5>1, <5>2, <5>3 DEF ProjectInv
      <4>3. CASE q = p
        BY <1>3, <3>2, <3>3, <4>3 DEF ProjectInv
      <4> QED BY <4>2, <4>3
    <3>11. AnswerInv(q)'
      <4>1. CASE q # p
        BY <1>2, <2>5, <3>1, <3>2, <3>3, <3>4, <4>1 DEF CallInv, AnswerInv
      <4>2. CASE q = p
        <5>1. answer[p].kind = "none"
          BY <1>1 DEF CallInv, ProcessInv
        <5>2. synced[p] # None /\ ~ muddled /\ Reliable(p) /\ pending[p] = <<>> =>
                synced[p] \in Unnoticed(p)
          BY <1>1 DEF CallInv, AnswerInv
        <5> QED BY <1>2, <3>2, <3>3, <3>4, <4>2, <5>1, <5>2 DEF AnswerInv
      <4> QED BY <4>1, <4>2
    <3>12. SeenInv(q)'
      BY <1>1, <2>5, <3>1, <3>2, <3>3 DEF CallInv, SeenInv
    <3>13. QuietInv(q)'
      <4>1. CASE q # p
        BY <3>3, <4>1 DEF QuietInv
      <4>2. CASE q = p
        <5>1. answer[p].kind = "none"
          BY <1>1 DEF CallInv, ProcessInv
        <5>2. ~ disturbed[p] => Unreported(p) /\ work[p].source = Revs
          BY <1>1, <1>3 DEF CallInv, QuietInv
        <5> QED BY <1>3, <2>4, <2>5, <3>2, <3>3, <3>4, <4>2, <5>1, <5>2 DEF QuietInv, Projecting
      <4> QED BY <4>1, <4>2
    <3> QED BY <3>5, <3>6, <3>7, <3>8, <3>9, <3>10, <3>11, <3>12, <3>13 DEF CallInv
  <2> QED BY <2>7, <2>8, <2>9 DEF RefreshInv
<1> QED BY <1>4, <1>5

\* What an edit does to the Store: a new state of it is recorded, the latest.
LEMMA EditStore ==
  ASSUME RefreshInv, NEW f \in File, NEW rev \in Nat, rev = clock \/ rev = file[f].rev,
         Edit(f, rev), muddled => muddled'
  PROVE  /\ StoreInv'
         /\ Revs' = [Revs EXCEPT ![f] = rev] /\ Datas' = [Datas EXCEPT ![f] = clock]
         /\ \E now : /\ now.at = clock /\ now.rev = Revs' /\ now.data = Datas'
                     /\ versions' = versions \cup {now}
                     /\ \A p \in Process : seen'[p] =
                          IF pc[p] = "idle" THEN seen[p] ELSE seen[p] \cup {Datas'}
<1>1. StoreInv
  BY DEF RefreshInv
<1>2. /\ file' = [file EXCEPT ![f] = [rev |-> rev, data |-> clock]] /\ clock' = clock + 1
      /\ UNCHANGED index
  BY DEF Edit, indexVars
<1>3. clock \in Nat \ {0}
  BY <1>1 DEF StoreInv
<1>4. /\ clock' \in Nat \ {0} /\ 0..(clock - 1) \subseteq 0..(clock' - 1)
      /\ clock \in 0..(clock' - 1) /\ clock \notin 0..(clock - 1)
      /\ Index \subseteq Index'
  BY <1>2, <1>3, Later
<1>5. rev \in 0..(clock' - 1)
  BY <1>1, <1>4 DEF StoreInv
<1>6. /\ file' \in [File -> [rev : 0..(clock' - 1), data : 0..(clock' - 1)]]
      /\ \A g \in File : file'[g] = IF g = f THEN [rev |-> rev, data |-> clock] ELSE file[g]
  <2>1. \A g \in File : file'[g] = IF g = f THEN [rev |-> rev, data |-> clock] ELSE file[g]
    BY <1>1, <1>2 DEF StoreInv
  <2>2. \A g \in File : file'[g] \in [rev : 0..(clock' - 1), data : 0..(clock' - 1)]
    <3>1. [rev |-> rev, data |-> clock] \in [rev : 0..(clock' - 1), data : 0..(clock' - 1)]
      BY <1>4, <1>5
    <3>2. \A g \in File : file[g] \in [rev : 0..(clock' - 1), data : 0..(clock' - 1)]
      BY <1>1, <1>4 DEF StoreInv
    <3> QED BY <2>1, <3>1, <3>2
  <2>3. DOMAIN file' = File /\ file' = [g \in File |-> file'[g]]
    BY <1>1, <1>2 DEF StoreInv
  <2> QED BY <2>1, <2>2, <2>3
<1>7. Revs' = [Revs EXCEPT ![f] = rev] /\ Datas' = [Datas EXCEPT ![f] = clock]
  <2>1. \A g \in File : /\ file'[g].rev = (IF g = f THEN rev ELSE file[g].rev)
                        /\ file'[g].data = (IF g = f THEN clock ELSE file[g].data)
    BY <1>6
  <2>2. Revs' = [Revs EXCEPT ![f] = rev]
    BY <2>1 DEF Revs
  <2>3. Datas' = [Datas EXCEPT ![f] = clock]
    BY <2>1 DEF Datas
  <2> QED BY <2>2, <2>3
<1> DEFINE now == [at |-> clock, rev |-> [Revs EXCEPT ![f] = rev],
                   data |-> [Datas EXCEPT ![f] = clock]]
<1>8. /\ versions' = versions \cup {now}
      /\ seen' = [p \in Process |-> IF At(p, "idle") THEN seen[p] ELSE seen[p] \cup {now.data}]
  BY DEF Edit
<1>9. now.at = clock /\ now.rev = Revs' /\ now.data = Datas'
  BY <1>7
<1> HIDE DEF now
<1>10. Revs' \in [File -> 0..(clock' - 1)] /\ Datas' \in [File -> Nat]
  <2>1. Revs \in [File -> 0..(clock' - 1)] /\ Datas \in [File -> Nat]
    BY <1>1, <1>4, StoreFacts
  <2> QED BY <1>3, <1>5, <1>7, <2>1
<1>11. StoreInv'
  <2>1. \A v \in versions' :
          /\ v.at \in 0..(clock' - 1) /\ v.rev \in [File -> 0..(clock' - 1)]
          /\ v.data \in [File -> Nat]
    <3>1. \A v \in versions :
            /\ v.at \in 0..(clock' - 1) /\ v.rev \in [File -> 0..(clock' - 1)]
            /\ v.data \in [File -> Nat]
      BY <1>1, <1>4 DEF StoreInv
    <3> QED BY <1>4, <1>8, <1>9, <1>10, <3>1
  <2>2. now \in versions' /\ \A w \in versions' : w.at <= now.at
    <3>1. \A w \in versions : w.at \in 0..(clock - 1)
      BY <1>1 DEF StoreInv
    <3>2. \A w \in versions : w.at <= clock
      BY <1>3, <3>1
    <3> QED BY <1>3, <1>8, <1>9, <3>2
  <2>3. index' # None => index' \in Index'
    BY <1>1, <1>2, <1>4 DEF StoreInv
  <2>4. ASSUME Usable', ~ muddled' PROVE \E v \in versions' : v.rev = Revs' /\ v.data = index'.data
    <3>1. index # None /\ index \in Index /\ index.rev = Revs' /\ ~ index.legacy
      BY <1>1, <1>2, <2>4 DEF Usable, StoreInv
    <3>2. Revs' = Revs
      <4>1. index.rev[f] \in 0..(clock - 1)
        BY <3>1 DEF Index
      <4>2. Revs'[f] = rev
        BY <1>1, <1>7, StoreFacts
      <4>3. rev = file[f].rev
        BY <1>4, <3>1, <4>1, <4>2
      <4> QED BY <1>1, <1>7, <4>3, StoreFacts
    <3>3. Usable /\ ~ muddled
      BY <2>4, <3>1, <3>2 DEF Usable
    <3> QED BY <1>1, <1>2, <1>8, <3>2, <3>3 DEF StoreInv
  <2> QED BY <1>4, <1>6, <1>9, <2>1, <2>2, <2>3, <2>4 DEF StoreInv
<1>12. \A p \in Process : seen'[p] = IF pc[p] = "idle" THEN seen[p] ELSE seen[p] \cup {Datas'}
  BY <1>8, <1>9 DEF At
<1> QED BY <1>7, <1>8, <1>9, <1>11, <1>12

\* An edit leaves a process what it has, adds to what it may answer, and either is on its way to a
\* process that watches or was lost on one whose watcher failed.  A quiet edit finds no state of
\* the Store twice with one revision.
LEMMA EditCall ==
  ASSUME RefreshInv, NEW f \in File, NEW rev \in Nat, Edit(f, rev), NEW p \in Process,
         \/ rev = clock /\ muddled' = muddled
         \/ /\ rev = file[f].rev
            /\ \A v, w \in versions : v.rev = w.rev => v = w
            /\ muddled' = (muddled \/ \E q \in Process : work[q].kind = "index" /\ Publishing(q))
  PROVE  CallInv(p)'
<1>1. StoreInv /\ ShapeInv /\ CallInv(p)
  BY DEF RefreshInv
<1>2. clock' = clock + 1 /\ clock \in Nat \ {0}
  BY <1>1 DEF Edit, StoreInv
<1>3. /\ clock' \in Nat \ {0} /\ 0..(clock - 1) \subseteq 0..(clock' - 1)
      /\ clock \in 0..(clock' - 1) /\ clock \notin 0..(clock - 1)
      /\ Work \subseteq Work' /\ Seq(0..(clock - 1)) \subseteq Seq(0..(clock' - 1))
  BY <1>2, Later
<1>4. /\ index' = index /\ upgrade'[p] = upgrade[p] /\ watch'[p] = watch[p] /\ pc'[p] = pc[p]
      /\ walk'[p] = walk[p] /\ work'[p] = work[p] /\ answer'[p] = answer[p]
      /\ synced'[p] = synced[p] /\ disturbed'[p] = TRUE
      /\ pending'[p] = IF watch[p].running /\ ~ watch[p].error THEN Append(pending[p], clock)
                       ELSE pending[p]
      /\ noticed'[p] = IF watch[p].error THEN noticed[p] \cup {clock} ELSE noticed[p]
  BY DEF Edit, indexVars
<1>5. muddled => muddled'
  OBVIOUS
<1>6. /\ StoreInv' /\ Revs' = [Revs EXCEPT ![f] = rev] /\ Datas' = [Datas EXCEPT ![f] = clock]
      /\ \E now : /\ now.at = clock /\ now.rev = Revs' /\ now.data = Datas'
                  /\ versions' = versions \cup {now}
                  /\ \A q \in Process : seen'[q] =
                       IF pc[q] = "idle" THEN seen[q] ELSE seen[q] \cup {Datas'}
  BY <1>5, EditStore
<1>7. PICK now : /\ now.at = clock /\ now.rev = Revs' /\ now.data = Datas'
                 /\ versions' = versions \cup {now}
                 /\ seen'[p] = IF pc[p] = "idle" THEN seen[p] ELSE seen[p] \cup {Datas'}
  BY <1>6
<1>8. /\ Revs \in [File -> 0..(clock - 1)] /\ Datas \in [File -> Nat]
      /\ \A g \in File : Revs[g] = file[g].rev /\ Datas[g] = file[g].data
  BY <1>1, StoreFacts
<1>9. /\ \A g \in File : file'[g].rev = (IF g = f THEN rev ELSE file[g].rev)
                         /\ file'[g].data = (IF g = f THEN clock ELSE file[g].data)
      /\ Datas' \in [File -> Nat] /\ \A g \in File : Datas'[g] = file'[g].data
  <2>1. file' = [file EXCEPT ![f] = [rev |-> rev, data |-> clock]]
    BY DEF Edit
  <2>2. \A g \in File : file'[g] = IF g = f THEN [rev |-> rev, data |-> clock] ELSE file[g]
    BY <1>1, <2>1 DEF StoreInv
  <2> QED BY <1>2, <1>6, <1>8, <2>2
<1>10. (Reliable(p)' <=> Reliable(p)) /\ (Unreported(p)' <=> Unreported(p))
       /\ Visited(p)' = Visited(p) /\ Source(p)' = Source(p) /\ (Scanned(p)' <=> Scanned(p))
  BY <1>4 DEF Reliable, Unreported, Visited, Source, Scanned
<1>11. rev = file[f].rev => Revs' = Revs
  BY <1>6, <1>8
<1>12. ASSUME NEW r \in [File -> 0..(clock - 1)], rev = clock PROVE r # Revs'
  BY <1>3, <1>6, <1>8, <1>12
<1>13. /\ work[p] \in Work /\ work[p].inv \in [File -> 0..(clock - 1)]
       /\ watch[p] \in [running : BOOLEAN, epoch : Nat, reconciled : Nat, error : BOOLEAN]
       /\ pending[p] \in Seq(0..(clock - 1)) /\ noticed[p] \subseteq 0..(clock - 1)
  BY <1>1 DEF CallInv, ProcessInv, WatchInv, Work
<1>14. ASSUME rev = file[f].rev, ~ watch[p].error PROVE Unnoticed(p) \subseteq Unnoticed(p)'
  <2>1. noticed'[p] = noticed[p] /\ clock \notin noticed[p]
    BY <1>3, <1>4, <1>13, <1>14
  <2> SUFFICES ASSUME NEW v \in versions, v.rev = Revs,
                      \A w \in versions : w.at > v.at => w.at \notin noticed[p]
               PROVE  v.data \in Unnoticed(p)'
    BY DEF Unnoticed
  <2>2. \A w \in versions' : w.at > v.at => w.at \notin noticed'[p]
    BY <1>7, <2>1
  <2> QED BY <1>7, <1>11, <1>14, <2>2 DEF Unnoticed
<1>15. ASSUME watch[p].running \/ watch[p].error, ~ watch[p].error PROVE pending'[p] # <<>>
  <2>1. pending[p] \in Seq(0..(clock' - 1)) /\ clock \in 0..(clock' - 1)
    BY <1>3, <1>13
  <2>2. Append(pending[p], clock) # <<>>
    BY <2>1, AppendProperties
  <2> QED BY <1>4, <1>15, <2>2
<1>16. Reliable(p) => ~ watch[p].error
  BY <1>1 DEF CallInv, WatchInv
<1>17. seen[p] \subseteq seen'[p] /\ (pc[p] # "idle" => Datas' \in seen'[p])
  BY <1>7
<1>18. ProcessInv(p)'
  BY <1>1, <1>3, <1>4, <1>10 DEF CallInv, ProcessInv
<1>19. WatchInv(p)'
  <2>1. pending'[p] \in Seq(0..(clock' - 1))
    <3>1. pending[p] \in Seq(0..(clock' - 1))
      BY <1>3, <1>13
    <3>2. Append(pending[p], clock) \in Seq(0..(clock' - 1))
      BY <1>3, <3>1, AppendProperties
    <3> QED BY <1>4, <3>1, <3>2
  <2> QED BY <1>1, <1>4, <1>10, <2>1 DEF CallInv, WatchInv
<1>20. ScanInv(p)'
  <2>1. work[p].kind = "index" /\ pc[p] \in Scanning /\ Source(p) = Revs' => muddled'
    <3>1. ASSUME pc[p] \in Scanning PROVE Source(p) \in [File -> 0..(clock - 1)]
      BY <1>1, <1>13, <3>1 DEF Source, CallInv, ScanInv, Work
    <3>2. ASSUME work[p].kind = "index", pc[p] \in Scanning, rev # clock PROVE muddled'
      BY <3>2 DEF Publishing, At, Scanning
    <3> QED BY <1>12, <3>1, <3>2
  <2> QED BY <1>1, <1>4, <1>10, <2>1 DEF CallInv, ScanInv
<1>21. ReadInv(p)'
  <2> SUFFICES ASSUME work[p].kind = "files" PROVE ReadInv(p)'
    BY <1>4 DEF ReadInv
  <2>1. CASE pc[p] \in {"open", "read"} /\ work[p].inv = Revs'
    <3>1. rev = file[f].rev /\ Revs' = Revs /\ \A v, w \in versions : v.rev = w.rev => v = w
      BY <1>11, <1>12, <1>13, <2>1
    <3>2. \A g \in Visited(p) : work[p].scan[g] = file[g].data
      BY <1>1, <2>1, <3>1 DEF CallInv, ReadInv
    <3>3. PICK v \in versions : v.rev = Revs /\ v.at \in 0..(clock - 1)
      BY <1>1 DEF StoreInv
    <3>4. v # now /\ v \in versions' /\ now \in versions' /\ v.rev = now.rev
      BY <1>3, <1>7, <3>1, <3>3
    <3>5. Visited(p) \subseteq File
      BY DEF Visited
    <3>6. \E data \in seen'[p] : /\ \A g \in Visited(p) : work[p].scan[g] = data[g]
                                 /\ \A g \in File \ Visited(p) : file'[g].data = data[g]
      <4>1. CASE f \in Visited(p)
        <5>1. Datas \in seen'[p]
          BY <1>1, <1>17, <2>1 DEF CallInv, SeenInv
        <5>2. \A g \in Visited(p) : work[p].scan[g] = Datas[g]
          BY <1>8, <3>2, <3>5
        <5>3. \A g \in File \ Visited(p) : file'[g].data = Datas[g]
          BY <1>8, <1>9, <4>1
        <5> QED BY <5>1, <5>2, <5>3
      <4>2. CASE f \notin Visited(p)
        <5>1. Datas' \in seen'[p]
          BY <1>17, <2>1
        <5>2. \A g \in Visited(p) : work[p].scan[g] = Datas'[g]
          BY <1>9, <3>2, <3>5, <4>2
        <5>3. \A g \in File \ Visited(p) : file'[g].data = Datas'[g]
          BY <1>9
        <5> QED BY <5>1, <5>2, <5>3
      <4> QED BY <4>1, <4>2
    <3> QED BY <1>4, <1>10, <2>1, <3>4, <3>6 DEF ReadInv
  <2>2. CASE pc[p] = "verify"
    <3>1. CASE work[p].scan \in seen[p]
      BY <1>4, <1>17, <2>2, <3>1 DEF ReadInv
    <3>2. CASE \E g \in ToSet(walk[p]) : work[p].inv[g] # file[g].rev
      <4>1. PICK g \in ToSet(walk[p]) : work[p].inv[g] # file[g].rev
        BY <3>2
      <4>2. g \in File
        BY <1>1, WalkFacts DEF CallInv, ProcessInv
      <4>3. work[p].inv[g] \in 0..(clock - 1)
        BY <1>13, <4>2
      <4>4. work[p].inv[g] # file'[g].rev
        BY <1>3, <1>9, <4>1, <4>2, <4>3
      <4> QED BY <1>4, <2>2, <4>4 DEF ReadInv
    <3> QED BY <1>1, <2>2, <3>1, <3>2 DEF CallInv, ReadInv
  <2>3. CASE ~ (pc[p] \in {"open", "read"} /\ work[p].inv = Revs') /\ pc[p] # "verify"
    BY <1>4, <2>3 DEF ReadInv
  <2> QED BY <2>1, <2>2, <2>3
<1>22. IndexInv(p)'
  <2> SUFFICES ASSUME Usable', ~ muddled' PROVE IndexInv(p)'
    BY DEF IndexInv
  <2>1. index # None /\ index \in Index /\ ~ index.legacy /\ index.rev = Revs'
    BY <1>1, <1>4 DEF Usable, StoreInv
  <2>2. rev = file[f].rev
    BY <1>12, <2>1 DEF Index
  <2>3. Usable /\ ~ muddled
    BY <1>5, <1>11, <2>1, <2>2 DEF Usable
  <2>4. Unreported(p) => ~ watch[p].error
    BY DEF Unreported
  <2> QED BY <1>1, <1>4, <1>10, <1>14, <1>16, <1>17, <2>2, <2>3, <2>4 DEF CallInv, IndexInv
<1>23. ProjectInv(p)'
  <2>1. index' = index /\ pc'[p] = pc[p] /\ work'[p] = work[p] /\ ProjectInv(p)
    BY <1>1, <1>4 DEF CallInv
  <2> QED BY <2>1 DEF ProjectInv
<1>24. AnswerInv(p)'
  <2>1. ASSUME pc[p] = "check"
        PROVE  \E d : /\ work[p].read = <<d, d>>
                      /\ ~ muddled' /\ work[p].inv = Revs' => d \in seen'[p]
                      /\ ~ muddled' /\ work[p].inv = Revs' /\ Unreported(p) => d \in Unnoticed(p)'
    <3>1. PICK d : /\ work[p].read = <<d, d>>
                   /\ ~ muddled /\ work[p].inv = Revs => d \in seen[p]
                   /\ ~ muddled /\ work[p].inv = Revs /\ Unreported(p) => d \in Unnoticed(p)
      BY <1>1, <2>1 DEF CallInv, AnswerInv
    <3>2. work[p].inv = Revs' => rev = file[f].rev /\ Revs' = Revs
      BY <1>11, <1>12, <1>13
    <3>3. Unreported(p) => ~ watch[p].error
      BY DEF Unreported
    <3> QED BY <1>5, <1>14, <1>17, <3>1, <3>2, <3>3
  <2>2. ASSUME pc[p] = "reconcile"
        PROVE  \E d : /\ work[p].read = <<d, d>> /\ (~ muddled' => d \in seen'[p])
                      /\ ~ (Unreported(p) /\ pending'[p] = <<>>)
    <3>1. PICK d : work[p].read = <<d, d>> /\ (~ muddled => d \in seen[p])
      BY <1>1, <2>2 DEF CallInv, AnswerInv
    <3>2. work[p].kind = "index"
      BY <1>1, <1>13, <2>2 DEF CallInv, ProcessInv, Work
    <3>3. watch[p].running \/ watch[p].error
      BY <1>1, <2>2, <3>2 DEF CallInv, WatchInv
    <3>4. ~ (Unreported(p) /\ pending'[p] = <<>>)
      BY <1>15, <3>3 DEF Unreported
    <3> QED BY <1>5, <1>17, <3>1, <3>4
  <2>3. answer[p].kind = "value" /\ ~ muddled' =>
          \E data \in seen'[p] : ToSet(answer[p].data) = {data}
    BY <1>1, <1>5, <1>17 DEF CallInv, AnswerInv
  <2>4. synced[p] # None => ~ (Reliable(p) /\ pending'[p] = <<>>)
    <3>1. synced[p] # None => watch[p].running \/ watch[p].error
      BY <1>1 DEF CallInv, WatchInv
    <3> QED BY <1>15, <1>16, <3>1
  <2> QED BY <1>4, <1>10, <2>1, <2>2, <2>3, <2>4 DEF AnswerInv
<1>25. SeenInv(p)'
  BY <1>1, <1>4, <1>7, <1>9, <1>17 DEF CallInv, SeenInv
<1>26. QuietInv(p)'
  BY <1>4 DEF QuietInv
<1> QED BY <1>18, <1>19, <1>20, <1>21, <1>22, <1>23, <1>24, <1>25, <1>26 DEF CallInv

\* An edit of either kind.
LEMMA EditStep ==
  ASSUME RefreshInv, LoudEdit \/ QuietEdit
  PROVE  RefreshInv'
<1>1. ASSUME NEW f \in File, NEW rev \in Nat, Edit(f, rev),
             \/ rev = clock /\ muddled' = muddled
             \/ /\ rev = file[f].rev
                /\ \A v, w \in versions : v.rev = w.rev => v = w
                /\ muddled' =
                     (muddled \/ \E q \in Process : work[q].kind = "index" /\ Publishing(q))
      PROVE  RefreshInv'
  <2>1. StoreInv'
    <3>1. muddled => muddled'
      BY <1>1, Zenon
    <3>2. rev = clock \/ rev = file[f].rev
      BY <1>1
    <3> QED BY <1>1, <3>1, <3>2, EditStore
  <2>2. ShapeInv'
    BY <1>1 DEF RefreshInv, ShapeInv, Edit, indexVars
  <2>3. \A p \in Process : CallInv(p)'
    BY <1>1, EditCall
  <2> QED BY <2>1, <2>2, <2>3 DEF RefreshInv
<1>2. clock \in Nat /\ \A f \in File : file[f].rev \in Nat
  BY DEF RefreshInv, StoreInv
<1>3. CASE LoudEdit
  BY <1>1, <1>2, <1>3 DEF LoudEdit
<1>4. CASE QuietEdit
  BY <1>1, <1>2, <1>4 DEF QuietEdit
<1> QED BY <1>3, <1>4

-----------------------------------------------------------------------------
(* The theorems. *)

\* Every step keeps the invariant.
LEMMA NextInv == RefreshInv /\ [Next]_vars => RefreshInv'
<1> SUFFICES ASSUME RefreshInv, [Next]_vars PROVE RefreshInv'
  OBVIOUS
<1>1. ASSUME NEW p \in Process, Step(p) PROVE RefreshInv'
  BY <1>1, CallStep, ObserveStep, BaselineStep, InspectStep, ProjectStep, ConfirmStep, CheckStep,
     ReconcileStep, CollectStep, OpenStep, ReadStep, VerifyStep, CompareStep, PublishStep,
     DeliverStep, WatchErrorStep, CrashStep DEF Step
<1>2. CASE UNCHANGED vars
  <2>1. UNCHANGED Shared /\ ShapeInv' /\ \A q \in Process : SameFor(q)
    BY <1>2 DEF vars, indexVars, watchVars, histVars, Shared, SameFor, ShapeInv, RefreshInv
  <2>2. \A q \in Process : CallInv(q)'
    BY <2>1, OthersKept DEF RefreshInv
  <2>3. StoreInv'
    <3>1. UNCHANGED <<file, clock, index, versions, muddled>> /\ Revs' = Revs /\ Datas' = Datas
          /\ (Usable' <=> Usable)
      BY <2>1, SharedKept DEF Shared
    <3>2. Index' = Index
      BY <3>1 DEF Index
    <3>3. StoreInv
      BY DEF RefreshInv
    <3> QED BY <3>1, <3>2, <3>3 DEF StoreInv
  <2> QED BY <2>1, <2>2, <2>3 DEF RefreshInv
<1> QED BY <1>1, <1>2, EditStep DEF Next, Finished

\* The invariant holds in every reachable state: a usable index says what no process that trusts
\* it was told to be outdated, and whatever is about to be answered was a state of the Store.
THEOREM RefreshInvariant == Spec => []RefreshInv
<1> QED BY InitInv, NextInv, PTL DEF Spec

\* Every value returned, of the files or of the index, is one state of the Store that existed
\* during the call, and a call without a value was disturbed (read_context.rs, indexed.rs).
THEOREM AnswersAreFresh == Spec => []AnswersFresh
<1>1. ASSUME RefreshInv PROVE AnswersFresh
  <2> SUFFICES ASSUME NEW p \in Process
               PROVE  /\ answer[p].kind = "value" /\ ~ muddled =>
                           \E data \in seen[p] : ToSet(answer[p].data) = {data}
                      /\ answer[p].kind \in {"degraded", "error"} => disturbed[p]
    BY DEF AnswersFresh
  <2>1. AnswerInv(p) /\ QuietInv(p)
    BY <1>1 DEF RefreshInv, CallInv
  <2> QED BY <2>1 DEF AnswerInv, QuietInv
<1> QED BY <1>1, RefreshInvariant, PTL

\* A process whose epoch is reconciled and to which no event is on its way has answered the Store
\* as it is, but for quiet edits it was not told of (watching.rs).
THEOREM CleanIsCurrent == Spec => []CleanMeansCurrent
<1>1. ASSUME RefreshInv PROVE CleanMeansCurrent
  BY <1>1 DEF RefreshInv, CallInv, AnswerInv, CleanMeansCurrent, Dirty, Reliable
<1> QED BY <1>1, RefreshInvariant, PTL
=============================================================================
