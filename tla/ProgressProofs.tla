---------------------------- MODULE ProgressProofs ----------------------------
(***************************************************************************)
(* Progress mutations are atomic and lose nothing, for any number of       *)
(* clients and tickets and any entries.  The log is read before any lock   *)
(* is held; the argument is that between the check under the locks and the *)
(* answer nobody else changes the log, nor moves a ticket that either      *)
(* version of it names.                                                    *)
(***************************************************************************)
EXTENDS Progress, FiniteSetTheorems, TLAPS

-----------------------------------------------------------------------------
\* Numbers are put in order without losing one.
LEMMA OrderIsComplete ==
  ASSUME NEW n \in Nat, NEW S \in SUBSET (1..n)
  PROVE  /\ Cardinality(S) \in Nat
         /\ InOrder(S) \in [1..Cardinality(S) -> S]
         /\ \A i \in S : \E k \in 1..Cardinality(S) : InOrder(S)[k] = i
<1> DEFINE Upto(i) == { j \in S : j <= i }
           rank == [ i \in S |-> Cardinality(Upto(i)) ]
           size == Cardinality(S)
<1>1. IsFiniteSet(S) /\ size \in Nat
  <2>1. IsFiniteSet(1..n)
    BY FS_Interval
  <2> QED BY <2>1, FS_Subset, FS_CardinalityType
<1>2. \A i \in S : IsFiniteSet(Upto(i)) /\ Cardinality(Upto(i)) \in 1..size
  <2> SUFFICES ASSUME NEW i \in S
               PROVE  IsFiniteSet(Upto(i)) /\ Cardinality(Upto(i)) \in 1..size
    OBVIOUS
  <2>1. Upto(i) \in SUBSET S /\ Upto(i) # {}
    OBVIOUS
  <2>2. IsFiniteSet(Upto(i)) /\ Cardinality(Upto(i)) <= size
    <3> HIDE DEF Upto
    <3> QED BY <1>1, <2>1, FS_Subset
  <2>3. Cardinality(Upto(i)) \in Nat /\ Cardinality(Upto(i)) # 0
    <3> HIDE DEF Upto
    <3> QED BY <2>1, <2>2, FS_CardinalityType, FS_EmptySet
  <2> HIDE DEF Upto, size
  <2> QED BY <1>1, <2>2, <2>3
<1>3. ASSUME NEW i \in S, NEW j \in S, i < j
      PROVE  Cardinality(Upto(i)) # Cardinality(Upto(j))
  <2>1. \A k \in S : k \in Int
    OBVIOUS
  <2>2. Upto(i) \in SUBSET Upto(j)
    <3>1. \A k \in S : k <= i => k <= j
      BY <1>3, <2>1
    <3> QED BY <3>1
  <2>3. j \in Upto(j) /\ j \notin Upto(i)
    BY <1>3, <2>1
  <2> HIDE DEF Upto
  <2>4. IsFiniteSet(Upto(j)) /\ Upto(i) # Upto(j)
    BY <1>2, <2>3
  <2> QED BY <2>2, <2>4, FS_Subset
<1>4. ASSUME NEW i \in S, NEW j \in S, Cardinality(Upto(i)) = Cardinality(Upto(j))
      PROVE  i = j
  <2>1. i \in Nat /\ j \in Nat
    OBVIOUS
  <2>2. ~ (i < j) /\ ~ (j < i)
    <3> HIDE DEF Upto
    <3> QED BY <1>3, <1>4
  <2> QED BY <2>1, <2>2
<1>5. \A k \in 1..size : \E i \in S : Cardinality(Upto(i)) = k
  <2>1. rank \in [S -> 1..size] /\ \A i \in S : rank[i] = Cardinality(Upto(i))
    <3> HIDE DEF Upto, size
    <3> QED BY <1>2
  <2>2. \A i, j \in S : rank[i] = rank[j] => i = j
    <3> HIDE DEF Upto, size, rank
    <3> QED BY <1>4, <2>1
  <2>3. rank \in Injection(S, 1..size)
    <3> HIDE DEF Upto, size, rank
    <3> QED BY <2>1, <2>2 DEF Injection, IsInjective
  <2>4. IsFiniteSet(1..size) /\ Cardinality(1..size) = size
    <3> HIDE DEF size
    <3> QED BY <1>1, FS_Interval
  <2>5. rank \in Surjection(S, 1..size)
    <3>1. Cardinality(S) = Cardinality(1..size)
      BY <2>4
    <3> HIDE DEF rank, size
    <3> QED BY <2>3, <2>4, <3>1, FS_Injection
  <2> HIDE DEF Upto, size, rank
  <2> QED BY <2>1, <2>5 DEF Surjection
<1> DEFINE Nth(k) == CHOOSE i \in S : Cardinality(Upto(i)) = k
<1>6. \A k \in 1..size : Nth(k) \in S /\ Cardinality(Upto(Nth(k))) = k
  <2> HIDE DEF Upto, size
  <2> QED BY <1>5
<1>7. InOrder(S) = [ k \in 1..size |-> Nth(k) ]
  BY DEF InOrder
<1>8. InOrder(S) \in [1..size -> S]
  <2> HIDE DEF Upto, size, Nth
  <2> QED BY <1>6, <1>7
<1>9. \A i \in S : InOrder(S)[Cardinality(Upto(i))] = i
  <2> SUFFICES ASSUME NEW i \in S PROVE InOrder(S)[Cardinality(Upto(i))] = i
    OBVIOUS
  <2> HIDE DEF Upto, size, Nth
  <2>1. InOrder(S)[Cardinality(Upto(i))] = Nth(Cardinality(Upto(i)))
    BY <1>2, <1>7
  <2> QED BY <1>2, <1>4, <1>6, <2>1
<1> HIDE DEF Upto, Nth
<1> QED BY <1>1, <1>2, <1>8, <1>9

\* A log is a sequence of entries, all about tickets of the investigation.
LEMMA LogFacts ==
  ASSUME NEW content \in Content
  PROVE  /\ Entries(content) \in Seq(Entry)
         /\ Recorded(content) \subseteq Entry
         /\ About(content) \subseteq Ticket
         /\ content # Missing => Entries(content) = content
<1>1. Entries(content) \in Seq(Entry)
  BY DEF Content, Entries
<1>2. \A i \in DOMAIN Entries(content) : Entries(content)[i] \in Entry
  BY <1>1
<1>3. Recorded(content) \subseteq Entry
  BY <1>2 DEF Recorded
<1> QED BY <1>1, <1>3, ProgressAssumption DEF About, Entries

\* What a request carries.
LEMMA RequestFacts ==
  ASSUME NEW request \in Request
  PROVE  /\ request.op \in {"append", "bootstrap", "replace"}
         /\ ~ IsMove(request)
         /\ request.entries \in Seq(Entry)
         /\ request.entries \in Content
         /\ request.entries # Missing
         /\ Entries(request.entries) = request.entries
<1>1. request \in [op : {"append", "bootstrap", "replace"}, entries : Seq(Entry)]
  BY ProgressAssumption
<1>2. request.op \in {"append", "bootstrap", "replace"} /\ request.entries \in Seq(Entry)
  BY <1>1
<1> QED BY <1>2, ProgressAssumption DEF IsMove, Content, Entries

\* The entries an append adds are exactly its new ones.
LEMMA AddedFacts ==
  ASSUME NEW request \in Request, NEW content \in Content
  PROVE  /\ Added(request, content) \in Seq(Entry)
         /\ \A i \in New(request, content) :
              \E k \in 1..Len(Added(request, content)) :
                Added(request, content)[k] = request.entries[i]
<1> DEFINE new == New(request, content)
           entries == request.entries
<1>1. entries \in Seq(Entry) /\ DOMAIN entries = 1..Len(entries) /\ Len(entries) \in Nat
  BY RequestFacts
<1>2. new \in SUBSET (1..Len(entries))
  BY <1>1 DEF New
<1>3. PICK order : order = InOrder(new)
  OBVIOUS
<1>4. PICK size : size = Cardinality(new)
  OBVIOUS
<1>5. /\ size \in Nat
      /\ order \in [1..size -> new]
      /\ \A i \in new : \E k \in 1..size : order[k] = i
  <2> HIDE DEF new, entries
  <2> QED BY <1>1, <1>2, <1>3, <1>4, OrderIsComplete
<1>6. Added(request, content) = [ k \in 1..size |-> entries[order[k]] ]
  <2>1. DOMAIN order = 1..size
    BY <1>5
  <2> QED BY <1>3, <2>1 DEF Added
<1>7. ASSUME NEW k \in 1..size PROVE entries[order[k]] \in Entry
  <2> HIDE DEF new, entries
  <2>1. order[k] \in new
    BY <1>5
  <2>2. order[k] \in 1..Len(entries)
    BY <1>2, <2>1
  <2> QED BY <1>1, <2>2
<1>8. [ k \in 1..size |-> entries[order[k]] ] \in Seq(Entry)
  <2> HIDE DEF new, entries
  <2> QED BY <1>5, <1>7
<1>9. Len(Added(request, content)) = size
  <2> HIDE DEF new, entries
  <2> QED BY <1>5, <1>6
<1> HIDE DEF entries, new
<1>10. ASSUME NEW i \in new
       PROVE  \E k \in 1..size : Added(request, content)[k] = entries[i]
  <2>1. PICK k \in 1..size : order[k] = i
    BY <1>5, <1>10
  <2> QED BY <1>6, <2>1
<1> QED BY <1>6, <1>8, <1>9, <1>10 DEF new, entries

\* The log after a request is a log; only a replacement drops entries.
LEMMA ProposedFacts ==
  ASSUME NEW request \in Request, NEW content \in Content
  PROVE  /\ Proposed(request, content) \in Seq(Entry)
         /\ Proposed(request, content) \in Content
         /\ Proposed(request, content) # Missing
         /\ request.op # "replace" =>
              Recorded(content) \subseteq Recorded(Proposed(request, content))
         /\ request.op = "replace" => Proposed(request, content) = request.entries
         /\ request.op = "append" =>
              \A i \in New(request, content) :
                request.entries[i] \in Recorded(Proposed(request, content))
<1>1. /\ request.op \in {"append", "bootstrap", "replace"}
      /\ request.entries \in Seq(Entry)
      /\ Entries(content) \in Seq(Entry)
  BY RequestFacts, LogFacts
<1>2. CASE request.op = "append"
  <2>1. PICK old, new : old = Entries(content) /\ new = Added(request, content)
    OBVIOUS
  <2>2. old \in Seq(Entry) /\ new \in Seq(Entry)
    BY <1>1, <2>1, AddedFacts
  <2>3. Proposed(request, content) = old \o new
    BY <1>2, <2>1 DEF Proposed
  <2>4. /\ old \o new \in Seq(Entry)
        /\ DOMAIN (old \o new) = 1..(Len(old) + Len(new))
        /\ \A k \in 1..Len(old) : (old \o new)[k] = old[k]
        /\ \A k \in 1..Len(new) : (old \o new)[Len(old) + k] = new[k]
    BY <2>2
  <2>5. old \o new # Missing
    BY <2>4, ProgressAssumption
  <2>6. Recorded(old \o new) = { (old \o new)[k] : k \in 1..(Len(old) + Len(new)) }
    BY <2>4, <2>5 DEF Recorded, Entries
  <2>7. Recorded(content) = { old[k] : k \in 1..Len(old) }
    BY <2>1, <2>2 DEF Recorded
  <2>8. Recorded(content) \subseteq Recorded(old \o new)
    <3> SUFFICES ASSUME NEW k \in 1..Len(old) PROVE old[k] \in Recorded(old \o new)
      BY <2>7
    <3>1. k \in 1..(Len(old) + Len(new)) /\ (old \o new)[k] = old[k]
      BY <2>2, <2>4
    <3> QED BY <2>6, <3>1
  <2>9. ASSUME NEW i \in New(request, content)
        PROVE  request.entries[i] \in Recorded(old \o new)
    <3>1. PICK k \in 1..Len(new) : new[k] = request.entries[i]
      BY <2>1, <2>9, AddedFacts
    <3>2. Len(old) + k \in 1..(Len(old) + Len(new)) /\ (old \o new)[Len(old) + k] = new[k]
      BY <2>2, <2>4
    <3> QED BY <2>6, <3>1, <3>2
  <2> QED BY <1>2, <2>3, <2>4, <2>5, <2>8, <2>9 DEF Content
<1>3. CASE request.op = "bootstrap"
  <2>1. Proposed(request, content) = Entries(content)
    BY <1>3 DEF Proposed
  <2>2. Entries(content) # Missing /\ Recorded(Entries(content)) = Recorded(content)
    BY <1>1, ProgressAssumption DEF Recorded, Entries
  <2> QED BY <1>1, <1>3, <2>1, <2>2 DEF Content
<1>4. CASE request.op = "replace"
  <2>1. Proposed(request, content) = request.entries
    BY <1>4 DEF Proposed
  <2> QED BY <1>1, <1>4, <2>1, ProgressAssumption DEF Content
<1> QED BY <1>1, <1>2, <1>3, <1>4

\* A request that is not refused has its entries recorded.
LEMMA NothingLeftOut ==
  ASSUME NEW request \in Request, NEW content \in Content,
         ~ Refused(request, content), request.op # "bootstrap"
  PROVE  Recorded(request.entries) \subseteq Recorded(Proposed(request, content))
<1>1. CASE request.op = "replace"
  BY <1>1, ProposedFacts
<1>2. CASE request.op = "append"
  <2>1. PICK entries : entries = request.entries
    OBVIOUS
  <2>2. entries \in Seq(Entry) /\ Entries(entries) = entries
    BY <2>1, RequestFacts
  <2>3. Recorded(entries) = { entries[i] : i \in DOMAIN entries }
    BY <2>2 DEF Recorded
  <2>4. /\ \A i, j \in DOMAIN entries : i # j => entries[i].id # entries[j].id
        /\ \A e \in Recorded(entries), f \in Recorded(content) : e.id = f.id => e = f
    BY <1>2, <2>1 DEF Refused
  <2>5. ASSUME NEW i \in DOMAIN entries
        PROVE  entries[i] \in Recorded(Proposed(request, content))
    <3>1. CASE \E f \in Recorded(content) : f.id = entries[i].id
      <4>1. entries[i] \in Recorded(content)
        BY <2>3, <2>4, <2>5, <3>1
      <4> QED BY <1>2, <4>1, ProposedFacts
    <3>2. CASE ~ \E f \in Recorded(content) : f.id = entries[i].id
      <4>1. entries[i].id \notin { e.id : e \in Recorded(content) }
        BY <3>2
      <4>2. \A j \in 1..(i - 1) : j \in DOMAIN entries /\ j # i
        BY <2>2, <2>5
      <4>3. \A j \in 1..(i - 1) : entries[j].id # entries[i].id
        BY <2>4, <2>5, <4>2
      <4>4. i \in New(request, content)
        BY <2>1, <2>5, <4>1, <4>3 DEF New
      <4> QED BY <1>2, <2>1, <4>4, ProposedFacts
    <3> QED BY <3>1, <3>2
  <2> QED BY <2>1, <2>3, <2>5
<1> QED BY <1>1, <1>2, RequestFacts

-----------------------------------------------------------------------------
Granted == {"check", "publish", "verify", "rollback"}

Writing == {"publish", "verify", "rollback"}

\* Only the absent log has revision 0, and a log that was read and still has
\* the revision of the file has its content.
Stamped(c) ==
  /\ base[c].rev < clock
  /\ base[c].rev = 0 <=> base[c].content = Missing
  /\ base[c].rev = file.rev => base[c].content = file.content

FileStamped == file.rev < clock /\ (file.rev = 0 <=> file.content = Missing)

\* A client holds its locks from the check to the answer, and asks for the
\* exclusive ones its task is about.
Locks(c) ==
  /\ held[c] <=> pc[c] \in Granted
  /\ pc[c] # "idle" =>
       IF IsMove(task[c])
         THEN /\ task[c] \in MoveTask
              /\ <<task[c].ticket>> \in want[c].keys \cap want[c].excl
         ELSE /\ task[c] \in Request
              /\ preview[c] \in Preview
              /\ preview[c].request = task[c]
              /\ TheLog \in want[c].keys \cap want[c].excl
  /\ pc[c] \in {"verify", "rollback"} => ~ IsMove(task[c])

\* Clients that hold locks do not disturb each other.
Apart ==
  \A c, d \in Client : c # d /\ held[c] /\ held[d] =>
    want[c].keys \cap want[d].keys \cap (want[c].excl \cup want[d].excl) = {}

\* What a client that passed the check knows until it answers: the log is
\* the one it read, or its own; it has locked every ticket that either names;
\* both are sound.
Prepared(c) ==
  pc[c] \in Writing /\ ~ IsMove(task[c]) =>
    /\ preview[c].content = Proposed(task[c], base[c].content)
    /\ file.content = IF pc[c] = "publish" THEN base[c].content ELSE preview[c].content
    /\ \A t \in About(base[c].content) \cup About(preview[c].content) : <<t>> \in want[c].keys
    /\ Sound(base[c].content, Accepted)
    /\ Sound(preview[c].content, Accepted)
    /\ task[c].op # "bootstrap" => Recorded(task[c].entries) \subseteq Recorded(preview[c].content)
    /\ pc[c] # "publish" => acknowledged \subseteq Recorded(base[c].content)

\* A ticket that is about to leave the accepted ones is not in the log.
Leaving(c) ==
  pc[c] = "publish" /\ IsMove(task[c]) /\ task[c].to # "accepted" =>
    task[c].ticket \notin About(file.content)

Local(c) == Stamped(c) /\ Locks(c) /\ Prepared(c) /\ Leaving(c)

Inv ==
  /\ TypeOK
  /\ FileStamped
  /\ Apart
  /\ \A c \in Client : Local(c)
  /\ LogSound
  /\ AcknowledgedStays

-----------------------------------------------------------------------------
\* A task is a progress request or a move, never both.
LEMMA MoveFacts ==
  ASSUME NEW request \in Request \cup MoveTask
  PROVE  IF IsMove(request)
           THEN request \in MoveTask /\ request.ticket \in Ticket /\ request.to \in Place
           ELSE request \in Request
BY RequestFacts DEF IsMove, MoveTask

\* Only tickets of the investigation are accepted.
LEMMA AcceptedTyped ==
  Accepted \subseteq Ticket
BY DEF Accepted

\* A mutation depends on tickets of the investigation.
LEMMA DependsTyped ==
  ASSUME NEW request \in Request, NEW content \in Content
  PROVE  Depends(request, content) \subseteq Ticket
<1>1. Proposed(request, content) \in Content
  BY ProposedFacts
<1> QED BY <1>1, LogFacts, AcceptedTyped DEF Depends

\* The keys of tickets are lock keys.
LEMMA TicketKeysTyped ==
  ASSUME TypeOK, NEW some \in SUBSET Ticket
  PROVE  TicketKeys(some) \subseteq LockKey
<1>1. \A t \in Ticket : tickets[t].at \in Place
  BY DEF TypeOK
<1> QED BY <1>1 DEF TicketKeys, LockKey, TicketFile

\* The locks an operation asks for.
LEMMA LocksTyped ==
  ASSUME TypeOK, NEW request \in Request \cup MoveTask, NEW content \in Content
  PROVE  LocksOf(request, content) \in [keys : SUBSET LockKey, excl : SUBSET LockKey]
<1>1. CASE IsMove(request)
  <2>1. request.ticket \in Ticket
    BY <1>1, MoveFacts
  <2>2. {<<request.ticket>>} \cup { <<request.ticket, place>> : place \in Place } \subseteq LockKey
    BY <2>1 DEF LockKey, TicketFile
  <2>3. TicketKeys(About(content)) \subseteq LockKey
    BY LogFacts, TicketKeysTyped
  <2>4. TheLog \in LockKey
    BY DEF LockKey
  <2> QED BY <1>1, <2>2, <2>3, <2>4 DEF LocksOf, MoveLocks
<1>2. CASE ~ IsMove(request)
  <2>1. request \in Request
    BY <1>2, MoveFacts
  <2>2. TicketKeys(Depends(request, content)) \subseteq LockKey
    BY <2>1, DependsTyped, TicketKeysTyped
  <2>3. TheLog \in LockKey
    BY DEF LockKey
  <2> QED BY <1>2, <2>2, <2>3 DEF LocksOf, ProgressLocks
<1> QED BY <1>1, <1>2

\* The revisions a preview keeps are those of ticket files.
LEMMA InputsTyped ==
  ASSUME TypeOK, NEW request \in Request, NEW content \in Content
  PROVE  Inputs(request, content) \subseteq TicketFile \X Nat
<1>1. \A t \in Ticket : tickets[t].at \in Place /\ tickets[t].rev \in Nat
  BY DEF TypeOK
<1> QED BY <1>1, DependsTyped DEF Inputs, TicketFile

\* No file and no locks have the shape of a file and of locks.
LEMMA NothingTyped ==
  /\ NoFile \in Version
  /\ NoLocks \in [keys : SUBSET LockKey, excl : SUBSET LockKey]
BY DEF NoFile, NoLocks, Version, Content

\* The bounds stay numbers.
LEMMA BudgetTyped ==
  ASSUME TypeOK
  PROVE  /\ \A c \in Client : SpendTurn(c) =>
              budget' \in [turns : [Client -> Nat], faults : Nat, crashes : Nat]
         /\ SpendFault => budget' \in [turns : [Client -> Nat], faults : Nat, crashes : Nat]
         /\ SpendCrash => budget' \in [turns : [Client -> Nat], faults : Nat, crashes : Nat]
         /\ UNCHANGED budget => budget' \in [turns : [Client -> Nat], faults : Nat, crashes : Nat]
<1>1. budget \in [turns : [Client -> Nat], faults : Nat, crashes : Nat]
  BY DEF TypeOK
<1>2. ASSUME NEW c \in Client, SpendTurn(c)
      PROVE  budget' \in [turns : [Client -> Nat], faults : Nat, crashes : Nat]
  <2>1. budget.turns \in [Client -> Nat] /\ budget.turns[c] - 1 \in Nat
    BY <1>1, <1>2 DEF SpendTurn
  <2>2. [budget.turns EXCEPT ![c] = @ - 1] \in [Client -> Nat]
    BY <2>1
  <2>3. budget' = [budget EXCEPT !.turns = [budget.turns EXCEPT ![c] = @ - 1]]
    BY <1>1, <1>2 DEF SpendTurn
  <2> QED BY <1>1, <2>2, <2>3
<1>3. ASSUME SpendFault
      PROVE  budget' \in [turns : [Client -> Nat], faults : Nat, crashes : Nat]
  <2>1. budget.faults - 1 \in Nat /\ budget' = [budget EXCEPT !.faults = budget.faults - 1]
    BY <1>1, <1>3 DEF SpendFault
  <2> QED BY <1>1, <2>1
<1>4. ASSUME SpendCrash
      PROVE  budget' \in [turns : [Client -> Nat], faults : Nat, crashes : Nat]
  <2>1. budget.crashes - 1 \in Nat /\ budget' = [budget EXCEPT !.crashes = budget.crashes - 1]
    BY <1>1, <1>4 DEF SpendCrash
  <2> QED BY <1>1, <2>1
<1> QED BY <1>1, <1>2, <1>3, <1>4

ClientTyped ==
  /\ pc \in [Client -> {"idle", "lock", "check", "publish", "verify", "rollback"}]
  /\ task \in [Client -> Request \cup MoveTask \cup {None}]
  /\ base \in [Client -> Version]
  /\ want \in [Client -> [keys : SUBSET LockKey, excl : SUBSET LockKey]]
  /\ held \in [Client -> BOOLEAN]
  /\ outcome \in [Client -> {"none", "done", "stale", "invalid", "io", "incomplete"}]

StoreTyped ==
  /\ file \in Version
  /\ tickets \in [Ticket -> [at : Place, rev : Nat]]
  /\ clock \in Nat
  /\ preview \in [Client -> Preview \cup {None}]
  /\ acknowledged \subseteq Entry
  /\ budget \in [turns : [Client -> Nat], faults : Nat, crashes : Nat]

\* Type correctness in two parts: what clients have, and the rest.
LEMMA TypedByParts ==
  TypeOK <=> StoreTyped /\ ClientTyped
BY DEF TypeOK, StoreTyped, ClientTyped

\* What a client has keeps its shape when it returns.
LEMMA ReturnTyped ==
  ASSUME TypeOK, NEW c \in Client,
         NEW answer \in {"none", "done", "stale", "invalid", "io", "incomplete"},
         Return(c, answer)
  PROVE  ClientTyped'
BY NothingTyped DEF TypeOK, ClientTyped, Return, Goto

\* Only entries are acknowledged.
LEMMA AcknowledgeTyped ==
  ASSUME TypeOK, NEW c \in Client, Acknowledge(c), task[c] \in Request
  PROVE  ClientTyped' /\ acknowledged' \subseteq Entry
<1>1. ClientTyped'
  BY ReturnTyped DEF Acknowledge
<1>2. acknowledged \subseteq Entry
  BY DEF TypeOK
<1>3. Recorded(task[c].entries) \subseteq Entry
  <2>1. PICK request \in Request : request = task[c]
    OBVIOUS
  <2> QED BY <2>1, RequestFacts, LogFacts
<1> QED BY <1>1, <1>2, <1>3 DEF Acknowledge

\* An operation begins with locks and a log of the right shape.
LEMMA BeginTyped ==
  ASSUME TypeOK, NEW c \in Client, NEW request \in Request \cup MoveTask, Begin(c, request)
  PROVE  TypeOK'
<1>1. file \in Version /\ file.content \in Content
  BY DEF TypeOK, Version
<1>2. LocksOf(request, file.content) \in [keys : SUBSET LockKey, excl : SUBSET LockKey]
  <2>1. PICK content \in Content : content = file.content
    BY <1>1
  <2> QED BY <2>1, LocksTyped
<1>3. ClientTyped'
  BY <1>1, <1>2 DEF TypeOK, ClientTyped, Begin, Goto
<1>4. StoreTyped'
  BY BudgetTyped DEF TypeOK, StoreTyped, Begin
<1> QED BY <1>3, <1>4 DEF TypeOK, StoreTyped, ClientTyped

\* What a client is told of its request.
LEMMA PreviewTyped ==
  ASSUME TypeOK, NEW request \in Request
  PROVE  [request |-> request, rev |-> file.rev, inputs |-> Inputs(request, file.content),
          content |-> Proposed(request, file.content), noOp |-> NoOp(request, file.content)]
           \in Preview
<1>1. file.rev \in Nat /\ file.content \in Content
  BY DEF TypeOK, Version
<1>2. PICK content \in Content : content = file.content
  BY <1>1
<1>3. /\ Inputs(request, content) \subseteq TicketFile \X Nat
      /\ Proposed(request, content) \in Content
  BY InputsTyped, ProposedFacts
<1>4. NoOp(request, content) \in BOOLEAN
  BY DEF NoOp
<1>5. [request |-> request, rev |-> file.rev, inputs |-> Inputs(request, content),
       content |-> Proposed(request, content), noOp |-> NoOp(request, content)] \in Preview
  BY <1>1, <1>3, <1>4 DEF Preview
<1> QED BY <1>2, <1>5

\* Every variable keeps its shape.  Locks is needed for what an answer adds.
LEMMA TypeKept ==
  ASSUME TypeOK, \A c \in Client : Locks(c), [Next]_vars
  PROVE  TypeOK'
<1> USE TypedByParts
<1>1. ASSUME NEW c \in Client, PreviewProgress(c)
      PROVE  TypeOK'
  <2>1. PICK request \in Request :
          preview' = [preview EXCEPT ![c] =
            IF Refused(request, file.content)
              THEN None
              ELSE [request |-> request, rev |-> file.rev,
                    inputs |-> Inputs(request, file.content),
                    content |-> Proposed(request, file.content),
                    noOp |-> NoOp(request, file.content)]]
    BY <1>1 DEF PreviewProgress
  <2>2. PICK new : new = [request |-> request, rev |-> file.rev,
                          inputs |-> Inputs(request, file.content),
                          content |-> Proposed(request, file.content),
                          noOp |-> NoOp(request, file.content)]
    OBVIOUS
  <2>3. new \in Preview
    BY <2>2, PreviewTyped
  <2>4. preview' \in [Client -> Preview \cup {None}]
    BY <2>1, <2>2, <2>3 DEF TypeOK
  <2>5. budget' \in [turns : [Client -> Nat], faults : Nat, crashes : Nat]
    BY <1>1, BudgetTyped DEF PreviewProgress
  <2>6. outcome' \in [Client -> {"none", "done", "stale", "invalid", "io", "incomplete"}]
    BY <1>1 DEF PreviewProgress, TypeOK
  <2> QED BY <1>1, <2>4, <2>5, <2>6 DEF PreviewProgress, TypeOK
<1>2. ASSUME NEW c \in Client, ApplyProgress(c)
      PROVE  TypeOK'
  <2>1. preview[c].request \in Request
    BY <1>2 DEF ApplyProgress, TypeOK, Preview
  <2>2. PICK request \in Request \cup MoveTask : request = preview[c].request
    BY <2>1
  <2> QED BY <1>2, <2>2, BeginTyped DEF ApplyProgress
<1>3. ASSUME NEW c \in Client, MoveTicket(c)
      PROVE  TypeOK'
  BY <1>3, BeginTyped DEF MoveTicket
<1>4. ASSUME NEW c \in Client, Acquire(c)
      PROVE  TypeOK'
  BY <1>4 DEF Acquire, Goto, TypeOK
<1>5. ASSUME NEW c \in Client, CheckStale(c) \/ CheckInvalid(c)
      PROVE  TypeOK'
  <2>1. ClientTyped'
    BY <1>5, ReturnTyped DEF CheckStale, CheckInvalid
  <2>2. StoreTyped'
    BY <1>5 DEF CheckStale, CheckInvalid, StoreTyped, TypeOK
  <2> QED BY <2>1, <2>2 DEF TypeOK, StoreTyped, ClientTyped
<1>6. ASSUME NEW c \in Client, CheckCompleted(c) \/ CheckNoOp(c) \/ Verify(c)
      PROVE  TypeOK'
  <2>1. task[c] \in Request
    BY <1>6 DEF CheckCompleted, CheckNoOp, Verify, At, Locks
  <2>2. ClientTyped' /\ acknowledged' \subseteq Entry
    BY <1>6, <2>1, AcknowledgeTyped DEF CheckCompleted, CheckNoOp, Verify
  <2>3. StoreTyped'
    BY <1>6, <2>2 DEF CheckCompleted, CheckNoOp, Verify, StoreTyped, TypeOK
  <2> QED BY <2>2, <2>3 DEF TypeOK, StoreTyped, ClientTyped
<1>7. ASSUME NEW c \in Client, CheckPassed(c)
      PROVE  TypeOK'
  BY <1>7 DEF CheckPassed, Goto, TypeOK
<1>8. ASSUME NEW c \in Client, Fails(c) \/ RestoreFails(c) \/ Crash(c)
      PROVE  TypeOK'
  <2>1. ClientTyped'
    BY <1>8, ReturnTyped DEF Fails, RestoreFails, Crash
  <2>2. budget' \in [turns : [Client -> Nat], faults : Nat, crashes : Nat]
    BY <1>8, BudgetTyped DEF Fails, RestoreFails, Crash
  <2>3. StoreTyped'
    BY <1>8, <2>2 DEF Fails, RestoreFails, Crash, StoreTyped, TypeOK
  <2> QED BY <2>1, <2>3 DEF TypeOK, StoreTyped, ClientTyped
<1>9. ASSUME NEW c \in Client, Publish(c)
      PROVE  TypeOK'
  <2>1. preview[c] \in Preview
    BY <1>9 DEF Publish, At, Locks
  <2>2. file' \in Version /\ clock' \in Nat
    BY <1>9, <2>1 DEF Publish, Preview, Version, TypeOK
  <2>3. acknowledged' \subseteq Entry
    BY <1>9 DEF Publish, TypeOK
  <2> QED BY <1>9, <2>2, <2>3 DEF Publish, Goto, TypeOK
<1>10. ASSUME NEW c \in Client, PublishMove(c)
       PROVE  TypeOK'
  <2>1. task[c].ticket \in Ticket /\ task[c].to \in Place
    BY <1>10 DEF PublishMove, At, Locks, MoveTask
  <2>2. tickets' \in [Ticket -> [at : Place, rev : Nat]] /\ clock' \in Nat
    BY <1>10, <2>1 DEF PublishMove, TypeOK
  <2>3. ClientTyped'
    BY <1>10, ReturnTyped DEF PublishMove
  <2>4. StoreTyped'
    BY <1>10, <2>2 DEF PublishMove, StoreTyped, TypeOK
  <2> QED BY <2>3, <2>4 DEF TypeOK, StoreTyped, ClientTyped
<1>11. ASSUME NEW c \in Client, VerifyFails(c)
       PROVE  TypeOK'
  <2>1. budget' \in [turns : [Client -> Nat], faults : Nat, crashes : Nat]
    BY <1>11, BudgetTyped DEF VerifyFails
  <2> QED BY <1>11, <2>1 DEF VerifyFails, Goto, TypeOK
<1>12. ASSUME NEW c \in Client, Restore(c)
       PROVE  TypeOK'
  <2>1. base[c] \in Version /\ clock \in Nat
    BY DEF TypeOK
  <2>2. file' \in Version /\ clock' \in Nat
    BY <1>12, <2>1, NothingTyped DEF Restore, Version
  <2>3. ClientTyped'
    BY <1>12, ReturnTyped DEF Restore
  <2>4. StoreTyped'
    BY <1>12, <2>2 DEF Restore, StoreTyped, TypeOK
  <2> QED BY <2>3, <2>4 DEF TypeOK, StoreTyped, ClientTyped
<1>13. CASE UNCHANGED vars
  BY <1>13 DEF vars, clientVars, TypeOK
<1>14. CASE Finished
  BY <1>13, <1>14 DEF Finished
<1> QED BY <1>1, <1>2, <1>3, <1>4, <1>5, <1>6, <1>7, <1>8, <1>9, <1>10, <1>11, <1>12, <1>13, <1>14
        DEF Next

-----------------------------------------------------------------------------
\* What a client has for itself.
Same(c) ==
  /\ pc'[c] = pc[c] /\ task'[c] = task[c] /\ preview'[c] = preview[c]
  /\ base'[c] = base[c] /\ want'[c] = want[c] /\ held'[c] = held[c]

\* A client that does nothing notices nothing of a step that leaves the log,
\* the tickets and what was answered alone.
LEMMA QuietFrame ==
  ASSUME NEW d \in Client, Local(d), Same(d), UNCHANGED <<file, tickets, clock, acknowledged>>
  PROVE  Local(d)'
<1>1. Accepted' = Accepted
  BY DEF Accepted
<1>2. Stamped(d)'
  BY DEF Local, Stamped, Same
<1>3. Locks(d)'
  BY DEF Local, Locks, Same
<1>4. Prepared(d)'
  BY <1>1 DEF Local, Prepared, Same
<1>5. Leaving(d)'
  BY DEF Local, Leaving, Same
<1> QED BY <1>2, <1>3, <1>4, <1>5 DEF Local

\* Nobody new is granted locks by the step of a client that had or drops them.
LEMMA ApartKept ==
  ASSUME Apart, NEW c \in Client,
         \A d \in Client \ {c} : want'[d] = want[d] /\ held'[d] = held[d],
         held'[c] => held[c] /\ want'[c] = want[c]
  PROVE  Apart'
<1>1. \A d \in Client : held'[d] => held[d] /\ want'[d] = want[d]
  OBVIOUS
<1> QED BY <1>1 DEF Apart

\* A client that returns holds nothing and changes nothing of the others.
LEMMA ReturnAlone ==
  ASSUME TypeOK, NEW c \in Client, NEW answer, Return(c, answer), UNCHANGED preview
  PROVE  /\ \A d \in Client \ {c} : Same(d)
         /\ pc'[c] = "idle" /\ held'[c] = FALSE /\ base'[c] = NoFile
BY DEF TypeOK, Return, Goto, Same

\* What the invariant says of a client holds when it has returned.
LEMMA ReturnLocal ==
  ASSUME TypeOK, NEW c \in Client, NEW answer, Return(c, answer), UNCHANGED preview,
         clock' \in Nat, clock' > 0, FileStamped'
  PROVE  Local(c)'
<1>1. pc'[c] = "idle" /\ held'[c] = FALSE /\ base'[c] = NoFile
  BY ReturnAlone
<1>2. Stamped(c)'
  BY <1>1 DEF Stamped, FileStamped, NoFile
<1>3. Locks(c)' /\ Prepared(c)' /\ Leaving(c)'
  BY <1>1 DEF Locks, Prepared, Leaving, Granted, Writing
<1> QED BY <1>2, <1>3 DEF Local

\* A client that returns disturbs nobody.
LEMMA ReturnApart ==
  ASSUME TypeOK, Apart, NEW c \in Client, NEW answer, Return(c, answer), UNCHANGED preview
  PROVE  Apart'
<1>1. /\ \A d \in Client \ {c} : want'[d] = want[d] /\ held'[d] = held[d]
      /\ ~ held'[c]
  BY ReturnAlone DEF Same
<1> QED BY <1>1, ApartKept

\* Revision 0 is never given to a file again.
LEMMA ClockIsPositive ==
  ASSUME TypeOK, FileStamped
  PROVE  clock \in Nat /\ clock > 0 /\ file.rev \in Nat
<1>1. clock \in Nat /\ file.rev \in Nat
  BY DEF TypeOK, Version
<1> QED BY <1>1 DEF FileStamped

\* Two progress mutations are never past their locks together.
LEMMA OneWriter ==
  ASSUME Apart, NEW c \in Client, NEW d \in Client, c # d, Locks(c), Locks(d),
         pc[c] \in Granted, pc[d] \in Granted
  PROVE  IsMove(task[c]) \/ IsMove(task[d])
BY DEF Apart, Locks, Granted

\* Nobody moves a ticket that a progress mutation has locked.
LEMMA TicketIsGuarded ==
  ASSUME Apart, NEW c \in Client, NEW d \in Client, c # d, Locks(d), held[c],
         pc[d] \in Granted, IsMove(task[d])
  PROVE  <<task[d].ticket>> \notin want[c].keys
BY DEF Apart, Locks, Granted

\* A failure, a refusal or a crash: the client returns, nothing else happens.
LEMMA QuietReturn ==
  ASSUME Inv, TypeOK', NEW c \in Client, NEW answer, Return(c, answer),
         UNCHANGED <<file, tickets, clock, preview, acknowledged>>
  PROVE  Inv'
<1>1. FileStamped' /\ LogSound' /\ AcknowledgedStays'
  BY DEF Inv, FileStamped, LogSound, AcknowledgedStays, Accepted
<1>2. Apart'
  BY ReturnApart DEF Inv
<1>3. Local(c)'
  BY <1>1, ClockIsPositive, ReturnLocal DEF Inv
<1>4. \A d \in Client \ {c} : Local(d)'
  BY ReturnAlone, QuietFrame DEF Inv
<1> QED BY <1>1, <1>2, <1>3, <1>4 DEF Inv

\* An operation that begins has read the log that is there.
LEMMA BeginKeeps ==
  ASSUME Inv, TypeOK', NEW c \in Client, NEW request \in Request \cup MoveTask, Begin(c, request),
         ~ IsMove(request) => preview[c] \in Preview /\ preview[c].request = request
  PROVE  Inv'
<1>1. FileStamped' /\ LogSound' /\ AcknowledgedStays'
  BY DEF Inv, FileStamped, LogSound, AcknowledgedStays, Accepted, Begin
<1>2. /\ \A d \in Client \ {c} : Same(d)
      /\ pc[c] = "idle" /\ pc'[c] = "lock" /\ task'[c] = request /\ base'[c] = file
      /\ preview'[c] = preview[c] /\ held'[c] = held[c]
      /\ want'[c] = LocksOf(request, file.content)
  BY DEF Inv, TypeOK, Begin, At, Goto, Same
<1>3. Local(c) /\ held[c] = FALSE
  <2>1. held[c] \in BOOLEAN /\ Local(c)
    BY DEF Inv, TypeOK
  <2> QED BY <1>2, <2>1 DEF Local, Locks, Granted
<1>4. Apart'
  <2>1. ~ held'[c] /\ \A d \in Client \ {c} : want'[d] = want[d] /\ held'[d] = held[d]
    BY <1>2, <1>3 DEF Same
  <2> QED BY <2>1, ApartKept DEF Inv
<1>5. Stamped(c)'
  BY <1>2 DEF Begin, Stamped, Inv, FileStamped
<1>6. Locks(c)'
  <2>1. IsMove(request) => /\ request \in MoveTask
                           /\ <<request.ticket>> \in want'[c].keys \cap want'[c].excl
    BY <1>2, MoveFacts DEF LocksOf, MoveLocks
  <2>2. ~ IsMove(request) => /\ request \in Request
                             /\ TheLog \in want'[c].keys \cap want'[c].excl
    BY <1>2, MoveFacts DEF LocksOf, ProgressLocks
  <2> QED BY <1>2, <1>3, <2>1, <2>2 DEF Locks, Granted
<1>7. Prepared(c)' /\ Leaving(c)'
  BY <1>2 DEF Prepared, Leaving, Writing
<1>8. \A d \in Client \ {c} : Local(d)'
  BY <1>2, QuietFrame DEF Inv, Begin
<1> QED BY <1>1, <1>4, <1>5, <1>6, <1>7, <1>8 DEF Inv, Local

\* Locks are granted to clients that do not disturb each other.
LEMMA AcquireKeeps ==
  ASSUME Inv, TypeOK', NEW c \in Client, Acquire(c)
  PROVE  Inv'
<1>1. FileStamped' /\ LogSound' /\ AcknowledgedStays'
  BY DEF Inv, FileStamped, LogSound, AcknowledgedStays, Accepted, Acquire
<1>2. /\ \A d \in Client \ {c} : Same(d)
      /\ pc[c] = "lock" /\ pc'[c] = "check" /\ held'[c] = TRUE
      /\ UNCHANGED <<task, preview, base, want>>
  BY DEF Inv, TypeOK, Acquire, At, Goto, Same
<1>3. Apart'
  <2>1. \A d \in Client \ {c} : held[d] =>
          want[c].keys \cap want[d].keys \cap (want[c].excl \cup want[d].excl) = {}
    BY DEF Acquire
  <2>2. \A d \in Client \ {c} : held'[d] = held[d] /\ want'[d] = want[d]
    BY <1>2 DEF Same
  <2>3. ASSUME NEW d \in Client, NEW e \in Client, d # e, held'[d], held'[e]
        PROVE  want[d].keys \cap want[e].keys \cap (want[d].excl \cup want[e].excl) = {}
    <3>1. CASE d = c
      BY <2>1, <2>2, <2>3, <3>1
    <3>2. CASE e = c
      BY <2>1, <2>2, <2>3, <3>2
    <3>3. CASE d # c /\ e # c
      BY <2>2, <2>3, <3>3 DEF Inv, Apart
    <3> QED BY <3>1, <3>2, <3>3
  <2> QED BY <1>2, <2>3 DEF Apart
<1>4. Local(c)'
  <2>1. Local(c) /\ UNCHANGED <<file, clock>>
    BY DEF Inv, Acquire
  <2>2. Stamped(c)' /\ Locks(c)'
    BY <1>2, <2>1 DEF Local, Stamped, Locks, Granted
  <2>3. Prepared(c)' /\ Leaving(c)'
    BY <1>2 DEF Prepared, Leaving, Writing
  <2> QED BY <2>2, <2>3 DEF Local
<1>5. \A d \in Client \ {c} : Local(d)'
  BY <1>2, QuietFrame DEF Inv, Acquire
<1> QED BY <1>1, <1>3, <1>4, <1>5 DEF Inv

\* An operation that returned from a lock-holding step knows its log: under
\* the locks the log that was read is still there.
LEMMA ReadIsCurrent ==
  ASSUME Inv, NEW c \in Client, Captured(c), ~ IsMove(task[c])
  PROVE  file.content = base[c].content
BY DEF Inv, Local, Stamped, Captured

\* The check prepares what will be published, and locks what it is about.
LEMMA PassedKeeps ==
  ASSUME Inv, TypeOK', NEW c \in Client, CheckPassed(c)
  PROVE  Inv'
<1>1. FileStamped' /\ LogSound' /\ AcknowledgedStays'
  BY DEF Inv, FileStamped, LogSound, AcknowledgedStays, Accepted, CheckPassed
<1>2. /\ \A d \in Client \ {c} : Same(d)
      /\ pc[c] = "check" /\ pc'[c] = "publish"
      /\ UNCHANGED <<file, tickets, clock, task, preview, base, want, held, acknowledged>>
  BY DEF Inv, TypeOK, CheckPassed, At, Goto, Same
<1>3. Apart'
  BY <1>2 DEF Inv, Apart
<1>4. Accepted' = Accepted
  BY <1>2 DEF Accepted
<1>5. Local(c)
  BY DEF Inv
<1>6. Stamped(c)' /\ Locks(c)'
  BY <1>2, <1>5 DEF Local, Stamped, Locks, Granted
<1>7. ASSUME ~ IsMove(task[c])
      PROVE  /\ preview[c].content = Proposed(task[c], base[c].content)
             /\ file.content = base[c].content
             /\ \A t \in About(base[c].content) \cup About(preview[c].content) :
                  <<t>> \in want[c].keys
             /\ Sound(base[c].content, Accepted)
             /\ Sound(preview[c].content, Accepted)
             /\ task[c].op # "bootstrap" =>
                  Recorded(task[c].entries) \subseteq Recorded(preview[c].content)
  <2>1. Passed(c) /\ AsPreviewed(c) /\ Captured(c)
    BY <1>7 DEF CheckPassed, Passed
  <2>2. file.content = base[c].content
    BY <1>7, <2>1, ReadIsCurrent
  <2>3. PICK request \in Request : request = task[c]
    BY <1>2, <1>5, <1>7 DEF Local, Locks
  <2>4. PICK content \in Content : content = file.content
    BY DEF Inv, TypeOK, Version
  <2>5. ~ Refused(request, content) /\ preview[c].content = Proposed(request, content)
    BY <2>1, <2>2, <2>3, <2>4 DEF AsPreviewed
  <2>6. want[c] = ProgressLocks(request, content)
    BY <1>7, <2>1, <2>3, <2>4 DEF Captured, LocksOf
  <2>7. \A t \in About(content) \cup About(Proposed(request, content)) : <<t>> \in want[c].keys
    BY <2>6 DEF ProgressLocks, Depends, TicketKeys
  <2>8. Sound(content, Accepted)
    BY <2>4 DEF Inv, LogSound
  <2>9. Sound(Proposed(request, content), Accepted)
    BY <2>5 DEF Refused
  <2>10. request.op # "bootstrap" =>
           Recorded(request.entries) \subseteq Recorded(Proposed(request, content))
    BY <2>5, NothingLeftOut
  <2> QED BY <2>2, <2>3, <2>4, <2>5, <2>7, <2>8, <2>9, <2>10
<1>8. Prepared(c)'
  BY <1>2, <1>4, <1>7 DEF Prepared
<1>9. Leaving(c)'
  BY <1>2 DEF Leaving, CheckPassed
<1>10. \A d \in Client \ {c} : Local(d)'
  BY <1>2, QuietFrame DEF Inv
<1> QED BY <1>1, <1>3, <1>6, <1>8, <1>9, <1>10 DEF Inv, Local

\* An answer that what was asked for is recorded, given where it is so.
LEMMA AcknowledgeKeeps ==
  ASSUME Inv, TypeOK', NEW c \in Client, Acknowledge(c),
         pc[c] \in Granted, ~ IsMove(task[c]),
         task[c].op # "bootstrap" => Recorded(task[c].entries) \subseteq Recorded(file.content),
         UNCHANGED <<file, tickets, clock, preview>>
  PROVE  Inv'
<1>1. FileStamped' /\ LogSound'
  BY DEF Inv, FileStamped, LogSound, Accepted
<1>2. AcknowledgedStays'
  BY DEF Inv, AcknowledgedStays, Acknowledge
<1>3. Return(c, "done")
  BY DEF Acknowledge
<1>4. Apart'
  BY <1>3, ReturnApart DEF Inv
<1>5. Local(c)'
  BY <1>1, <1>3, ClockIsPositive, ReturnLocal DEF Inv
<1>6. ASSUME NEW d \in Client \ {c}
      PROVE  Local(d)'
  <2>1. Same(d) /\ Local(d)
    BY <1>3, ReturnAlone DEF Inv
  <2>2. Accepted' = Accepted
    BY DEF Accepted
  <2>3. Stamped(d)' /\ Locks(d)' /\ Leaving(d)'
    BY <2>1 DEF Local, Stamped, Locks, Leaving, Same
  <2>4. ~ (pc[d] \in Writing /\ ~ IsMove(task[d]))
    BY OneWriter DEF Inv, Local, Granted, Writing
  <2>5. Prepared(d)'
    BY <2>1, <2>4 DEF Prepared, Same
  <2> QED BY <2>3, <2>5 DEF Local
<1> QED BY <1>1, <1>2, <1>4, <1>5, <1>6 DEF Inv

\* The log that is published is sound, keeps what was acknowledged, and
\* names no ticket that is about to leave.
LEMMA PublishKeeps ==
  ASSUME Inv, TypeOK', NEW c \in Client, Publish(c)
  PROVE  Inv'
<1>1. /\ \A d \in Client \ {c} : Same(d)
      /\ pc[c] = "publish" /\ pc'[c] = "verify" /\ ~ IsMove(task[c])
      /\ file' = [content |-> preview[c].content, rev |-> clock] /\ clock' = clock + 1
      /\ UNCHANGED <<tickets, task, preview, base, want, held>>
  BY DEF Inv, TypeOK, Publish, At, Goto, Same
<1>2. clock \in Nat /\ clock > 0 /\ file.rev \in Nat
  BY ClockIsPositive DEF Inv
<1>3. Accepted' = Accepted
  BY <1>1 DEF Accepted
<1>4. Local(c) /\ task[c] \in Request
  BY <1>1 DEF Inv, Local, Locks
<1>5. /\ preview[c].content = Proposed(task[c], base[c].content)
      /\ file.content = base[c].content
      /\ \A t \in About(preview[c].content) : <<t>> \in want[c].keys
      /\ Sound(preview[c].content, Accepted)
      /\ Sound(base[c].content, Accepted)
      /\ \A t \in About(base[c].content) : <<t>> \in want[c].keys
      /\ task[c].op # "bootstrap" =>
           Recorded(task[c].entries) \subseteq Recorded(preview[c].content)
  BY <1>1, <1>4 DEF Local, Prepared, Writing
<1>6. /\ preview[c].content # Missing
      /\ task[c].op # "replace" => Recorded(base[c].content) \subseteq Recorded(preview[c].content)
  <2>1. PICK request \in Request : request = task[c]
    BY <1>4
  <2>2. PICK content \in Content : content = base[c].content
    BY DEF Inv, TypeOK, Version
  <2> QED BY <1>5, <2>1, <2>2, ProposedFacts
<1>7. FileStamped'
  BY <1>1, <1>2, <1>6 DEF FileStamped
<1>8. LogSound'
  BY <1>1, <1>3, <1>5 DEF LogSound
<1>9. acknowledged' \subseteq Recorded(base[c].content) /\ AcknowledgedStays'
  <2>1. acknowledged \subseteq Recorded(base[c].content)
    BY <1>5 DEF Inv, AcknowledgedStays
  <2> QED BY <1>1, <1>6, <2>1 DEF Publish, AcknowledgedStays
<1>10. Apart'
  BY <1>1 DEF Inv, Apart
<1>11. Local(c)'
  <2>1. Stamped(c)'
    <3>1. base[c].rev \in Nat
      BY DEF Inv, TypeOK, Version
    <3> QED BY <1>1, <1>2, <1>4, <3>1 DEF Local, Stamped
  <2>2. Locks(c)'
    BY <1>1, <1>4 DEF Local, Locks, Granted
  <2>3. Prepared(c)'
    BY <1>1, <1>3, <1>5, <1>9 DEF Prepared
  <2>4. Leaving(c)'
    BY <1>1 DEF Leaving
  <2> QED BY <2>1, <2>2, <2>3, <2>4 DEF Local
<1>12. ASSUME NEW d \in Client \ {c}
       PROVE  Local(d)'
  <2>1. Same(d) /\ Local(d)
    BY <1>1 DEF Inv
  <2>2. Stamped(d)'
    <3>1. base[d].rev \in Nat
      BY DEF Inv, TypeOK, Version
    <3> QED BY <1>1, <1>2, <2>1, <3>1 DEF Local, Stamped, Same
  <2>3. Locks(d)'
    BY <2>1 DEF Local, Locks, Same
  <2>4. ~ (pc[d] \in Writing /\ ~ IsMove(task[d]))
    BY <1>1, <1>4, <2>1, OneWriter DEF Inv, Local, Granted, Writing
  <2>5. Prepared(d)'
    BY <2>1, <2>4 DEF Prepared, Same
  <2>6. Leaving(d)'
    <3>1. held[c]
      BY <1>1, <1>4 DEF Local, Locks, Granted
    <3>2. pc[d] = "publish" /\ IsMove(task[d]) => <<task[d].ticket>> \notin want[c].keys
      BY <2>1, <3>1, TicketIsGuarded DEF Inv, Local, Granted
    <3> QED BY <1>1, <1>5, <2>1, <3>2 DEF Leaving, Same
  <2> QED BY <2>2, <2>3, <2>5, <2>6 DEF Local
<1> QED BY <1>7, <1>8, <1>9, <1>10, <1>11, <1>12 DEF Inv

\* A log stays sound when a ticket moves that it does not name, or moves in.
LEMMA MoveKeepsSound ==
  ASSUME TypeOK, NEW ticket \in Ticket, NEW to \in Place, NEW rev,
         tickets' = [tickets EXCEPT ![ticket] = [at |-> to, rev |-> rev]],
         NEW content, Sound(content, Accepted),
         to = "accepted" \/ ticket \notin About(content)
  PROVE  Sound(content, Accepted')
<1>1. \A t \in Ticket : t # ticket => tickets'[t] = tickets[t]
  BY DEF TypeOK
<1>2. to = "accepted" => tickets'[ticket].at = "accepted"
  BY DEF TypeOK
<1>3. \A t \in About(content) : t \in Accepted => t \in Accepted'
  BY <1>1, <1>2 DEF Accepted
<1> QED BY <1>3 DEF Sound

\* No log that may be there, now or after a rollback, names the ticket that
\* leaves the accepted ones.
LEMMA PublishMoveKeeps ==
  ASSUME Inv, TypeOK', NEW c \in Client, PublishMove(c)
  PROVE  Inv'
<1>1. /\ Return(c, "done")
      /\ pc[c] = "publish" /\ IsMove(task[c])
      /\ tickets' = [tickets EXCEPT ![task[c].ticket] = [at |-> task[c].to, rev |-> clock]]
      /\ clock' = clock + 1
      /\ UNCHANGED <<file, preview, acknowledged>>
  BY DEF PublishMove, At
<1>2. clock \in Nat /\ clock > 0 /\ file.rev \in Nat
  BY ClockIsPositive DEF Inv
<1>3. Local(c)
  BY DEF Inv
<1>4. task[c].ticket \in Ticket /\ task[c].to \in Place
  BY <1>1, <1>3 DEF Local, Locks, MoveTask
<1>5. FileStamped' /\ AcknowledgedStays'
  BY <1>1, <1>2 DEF Inv, FileStamped, AcknowledgedStays
<1>6. ASSUME NEW content, Sound(content, Accepted),
             task[c].to = "accepted" \/ task[c].ticket \notin About(content)
      PROVE  Sound(content, Accepted')
  BY <1>1, <1>4, <1>6, MoveKeepsSound DEF Inv
<1>7. LogSound'
  <2>1. Sound(file.content, Accepted)
    BY DEF Inv, LogSound
  <2>2. task[c].to = "accepted" \/ task[c].ticket \notin About(file.content)
    BY <1>1, <1>3 DEF Local, Leaving
  <2> QED BY <1>1, <1>6, <2>1, <2>2 DEF LogSound
<1>8. Apart'
  BY <1>1, ReturnApart DEF Inv
<1>9. Local(c)'
  BY <1>1, <1>2, <1>5, ReturnLocal DEF Inv
<1>10. ASSUME NEW d \in Client \ {c}
       PROVE  Local(d)'
  <2>1. Same(d) /\ Local(d)
    BY <1>1, ReturnAlone DEF Inv
  <2>2. Stamped(d)'
    <3>1. base[d].rev \in Nat
      BY DEF Inv, TypeOK, Version
    <3> QED BY <1>1, <1>2, <2>1, <3>1 DEF Local, Stamped, Same
  <2>3. Locks(d)'
    BY <2>1 DEF Local, Locks, Same
  <2>4. Leaving(d)'
    BY <1>1, <2>1 DEF Local, Leaving, Same
  <2>5. ASSUME pc[d] \in Writing, ~ IsMove(task[d])
        PROVE  Sound(base[d].content, Accepted') /\ Sound(preview[d].content, Accepted')
    <3>1. held[d]
      BY <2>1, <2>5 DEF Local, Locks, Granted, Writing
    <3>2. <<task[c].ticket>> \notin want[d].keys
      BY <1>1, <1>3, <3>1, TicketIsGuarded DEF Inv, Local, Granted
    <3>3. /\ task[c].ticket \notin About(base[d].content)
          /\ task[c].ticket \notin About(preview[d].content)
          /\ Sound(base[d].content, Accepted)
          /\ Sound(preview[d].content, Accepted)
      BY <2>1, <2>5, <3>2 DEF Local, Prepared
    <3> QED BY <1>6, <3>3
  <2>6. Prepared(d)'
    BY <1>1, <2>1, <2>5 DEF Local, Prepared, Same
  <2> QED BY <2>2, <2>3, <2>4, <2>6 DEF Local
<1> QED BY <1>5, <1>7, <1>8, <1>9, <1>10 DEF Inv

\* A failed verification leaves everything in place for the rollback.
LEMMA VerifyFailsKeeps ==
  ASSUME Inv, TypeOK', NEW c \in Client, VerifyFails(c)
  PROVE  Inv'
<1>1. FileStamped' /\ LogSound' /\ AcknowledgedStays'
  BY DEF Inv, FileStamped, LogSound, AcknowledgedStays, Accepted, VerifyFails
<1>2. /\ \A d \in Client \ {c} : Same(d)
      /\ pc[c] = "verify" /\ pc'[c] = "rollback"
      /\ UNCHANGED <<file, tickets, clock, task, preview, base, want, held, acknowledged>>
  BY DEF Inv, TypeOK, VerifyFails, At, Goto, Same
<1>3. Apart'
  BY <1>2 DEF Inv, Apart
<1>4. Accepted' = Accepted /\ Local(c)
  BY <1>2 DEF Accepted, Inv
<1>5. Stamped(c)' /\ Locks(c)' /\ Leaving(c)'
  BY <1>2, <1>4 DEF Local, Stamped, Locks, Leaving, Granted
<1>6. Prepared(c)'
  BY <1>2, <1>4 DEF Local, Prepared, Writing
<1>7. \A d \in Client \ {c} : Local(d)'
  BY <1>2, QuietFrame DEF Inv
<1> QED BY <1>1, <1>3, <1>5, <1>6, <1>7 DEF Inv, Local

\* The log that is put back is the one that was there, sound still and with
\* everything that was acknowledged.
LEMMA RestoreKeeps ==
  ASSUME Inv, TypeOK', NEW c \in Client, Restore(c)
  PROVE  Inv'
<1>1. /\ Return(c, "io")
      /\ pc[c] = "rollback" /\ clock' = clock + 1
      /\ file' = IF base[c].content = Missing THEN NoFile ELSE [base[c] EXCEPT !.rev = clock]
      /\ UNCHANGED <<tickets, preview, acknowledged>>
  BY DEF Restore, At
<1>2. clock \in Nat /\ clock > 0
  BY ClockIsPositive DEF Inv
<1>3. base[c] \in Version
  BY DEF Inv, TypeOK
<1>4. /\ file'.content = base[c].content
      /\ file'.rev = IF base[c].content = Missing THEN 0 ELSE clock
  BY <1>1, <1>3 DEF NoFile, Version
<1>5. Accepted' = Accepted
  BY <1>1 DEF Accepted
<1>6. Local(c) /\ ~ IsMove(task[c])
  BY <1>1 DEF Inv, Local, Locks
<1>7. /\ \A t \in About(base[c].content) : <<t>> \in want[c].keys
      /\ Sound(base[c].content, Accepted)
      /\ acknowledged \subseteq Recorded(base[c].content)
  BY <1>1, <1>6 DEF Local, Prepared, Writing
<1>8. FileStamped' /\ LogSound' /\ AcknowledgedStays'
  BY <1>1, <1>2, <1>4, <1>5, <1>7 DEF FileStamped, LogSound, AcknowledgedStays
<1>9. Apart'
  BY <1>1, ReturnApart DEF Inv
<1>10. Local(c)'
  BY <1>1, <1>2, <1>8, ReturnLocal DEF Inv
<1>11. ASSUME NEW d \in Client \ {c}
       PROVE  Local(d)'
  <2>1. Same(d) /\ Local(d)
    BY <1>1, ReturnAlone DEF Inv
  <2>2. Stamped(d)'
    <3>1. base[d].rev \in Nat
      BY DEF Inv, TypeOK, Version
    <3> QED BY <1>1, <1>2, <1>4, <2>1, <3>1 DEF Local, Stamped, Same
  <2>3. Locks(d)'
    BY <2>1 DEF Local, Locks, Same
  <2>4. ~ (pc[d] \in Writing /\ ~ IsMove(task[d]))
    BY <1>1, <1>6, <2>1, OneWriter DEF Inv, Local, Granted, Writing
  <2>5. Prepared(d)'
    BY <2>1, <2>4 DEF Prepared, Same
  <2>6. Leaving(d)'
    <3>1. held[c]
      BY <1>1, <1>6 DEF Local, Locks, Granted
    <3>2. pc[d] = "publish" /\ IsMove(task[d]) => <<task[d].ticket>> \notin want[c].keys
      BY <2>1, <3>1, TicketIsGuarded DEF Inv, Local, Granted
    <3> QED BY <1>4, <1>7, <2>1, <3>2 DEF Leaving, Same
  <2> QED BY <2>2, <2>3, <2>5, <2>6 DEF Local
<1> QED BY <1>8, <1>9, <1>10, <1>11 DEF Inv

\* The three places where an operation answers that its entries are there.
LEMMA AnswersKeep ==
  ASSUME Inv, TypeOK', NEW c \in Client, CheckCompleted(c) \/ CheckNoOp(c) \/ Verify(c)
  PROVE  Inv'
<1>1. /\ pc[c] \in {"check", "verify"} /\ Acknowledge(c)
      /\ UNCHANGED <<file, tickets, clock, preview>>
  BY DEF CheckCompleted, CheckNoOp, Verify, At
<1>2. ~ IsMove(task[c])
  BY DEF CheckCompleted, CheckNoOp, Verify, At, Inv, Local, Locks
<1>3. task[c] \in Request
  BY <1>1, <1>2 DEF Inv, Local, Locks
<1>4. PICK request \in Request : request = task[c]
  BY <1>3
<1>5. PICK content \in Content : content = file.content
  BY DEF Inv, TypeOK, Version
<1>6. request.op # "bootstrap" => Recorded(request.entries) \subseteq Recorded(content)
  <2>1. CASE CheckCompleted(c)
    <3>1. Completed(request, content)
      BY <1>4, <1>5, <2>1 DEF CheckCompleted
    <3> QED BY <3>1, RequestFacts DEF Completed
  <2>2. CASE CheckNoOp(c)
    <3>1. /\ ~ Refused(request, content)
          /\ NoOp(request, content) = preview[c].noOp
          /\ preview[c].noOp
      BY <1>4, <1>5, <2>2 DEF CheckNoOp, AsPreviewed
    <3>2. Proposed(request, content) = content
      BY <3>1 DEF NoOp
    <3> QED BY <3>1, <3>2, NothingLeftOut
  <2>3. CASE Verify(c)
    <3>1. pc[c] = "verify"
      BY <2>3 DEF Verify, At
    <3>2. Prepared(c) /\ pc[c] \in Writing
      BY <3>1 DEF Inv, Local, Writing
    <3> QED BY <1>2, <1>4, <1>5, <3>1, <3>2 DEF Prepared
  <2> QED BY <2>1, <2>2, <2>3
<1>7. pc[c] \in Granted
  BY <1>1 DEF Granted
<1> QED BY <1>1, <1>2, <1>4, <1>5, <1>6, <1>7, AcknowledgeKeeps

\* A preview changes nothing but what its client holds.
LEMMA PreviewKeeps ==
  ASSUME Inv, TypeOK', NEW c \in Client, PreviewProgress(c)
  PROVE  Inv'
<1>1. FileStamped' /\ LogSound' /\ AcknowledgedStays'
  BY DEF Inv, FileStamped, LogSound, AcknowledgedStays, Accepted, PreviewProgress
<1>2. /\ \A d \in Client \ {c} : Same(d)
      /\ pc[c] = "idle"
      /\ UNCHANGED <<file, tickets, clock, pc, task, base, want, held, acknowledged>>
  BY DEF Inv, TypeOK, PreviewProgress, At, Same
<1>3. Apart'
  BY <1>2 DEF Inv, Apart
<1>4. Local(c)
  BY DEF Inv
<1>5. Stamped(c)' /\ Locks(c)' /\ Prepared(c)' /\ Leaving(c)'
  BY <1>2, <1>4 DEF Local, Stamped, Locks, Prepared, Leaving, Granted, Writing
<1>6. \A d \in Client \ {c} : Local(d)'
  BY <1>2, QuietFrame DEF Inv
<1> QED BY <1>1, <1>3, <1>5, <1>6 DEF Inv, Local

-----------------------------------------------------------------------------
\* The invariant holds of a store without a log.
LEMMA InitInv ==
  ASSUME Init
  PROVE  Inv
<1>1. TypeOK
  <2>1. budget \in [turns : [Client -> Nat], faults : Nat, crashes : Nat]
    BY ProgressAssumption DEF Init
  <2> QED BY <2>1, NothingTyped DEF Init, TypeOK
<1>2. file = NoFile /\ file.content = Missing /\ file.rev = 0 /\ clock = 2
  BY DEF Init, NoFile
<1>3. FileStamped /\ Apart
  BY <1>2 DEF Init, FileStamped, Apart
<1>4. \A c \in Client : Local(c)
  BY <1>2 DEF Init, Local, Stamped, Locks, Prepared, Leaving, Granted, Writing, NoFile
<1>5. LogSound /\ AcknowledgedStays
  <2>1. Entries(file.content) = <<>>
    BY <1>2 DEF Entries
  <2>2. Recorded(file.content) = {}
    BY <2>1 DEF Recorded
  <2>3. Valid(Entries(file.content))
    BY <2>1 DEF Valid
  <2> QED BY <2>2, <2>3 DEF LogSound, Sound, About, AcknowledgedStays, Init
<1> QED BY <1>1, <1>3, <1>4, <1>5 DEF Inv

\* Every step of every client keeps the invariant.
LEMMA NextInv ==
  ASSUME Inv, [Next]_vars
  PROVE  Inv'
<1>1. TypeOK'
  BY TypeKept DEF Inv, Local
<1>2. ASSUME NEW c \in Client, ApplyProgress(c)
      PROVE  Inv'
  <2>1. preview[c] \in Preview /\ preview[c].request \in Request
    BY <1>2 DEF ApplyProgress, Inv, TypeOK, Preview
  <2>2. PICK request \in Request \cup MoveTask : request = preview[c].request
    BY <2>1
  <2> QED BY <1>1, <1>2, <2>1, <2>2, BeginKeeps DEF ApplyProgress
<1>3. ASSUME NEW c \in Client, MoveTicket(c)
      PROVE  Inv'
  <2>1. PICK request \in MoveTask : Begin(c, request)
    BY <1>3 DEF MoveTicket
  <2>2. IsMove(request)
    BY DEF MoveTask, IsMove
  <2> QED BY <1>1, <2>1, <2>2, BeginKeeps
<1>4. ASSUME NEW c \in Client,
             CheckStale(c) \/ CheckInvalid(c) \/ Fails(c) \/ RestoreFails(c) \/ Crash(c)
      PROVE  Inv'
  <2>1. UNCHANGED <<file, tickets, clock, preview, acknowledged>>
    BY <1>4 DEF CheckStale, CheckInvalid, Fails, RestoreFails, Crash
  <2>2. PICK answer : Return(c, answer)
    BY <1>4 DEF CheckStale, CheckInvalid, Fails, RestoreFails, Crash
  <2> QED BY <1>1, <2>1, <2>2, QuietReturn
<1>5. CASE UNCHANGED vars
  <2>1. UNCHANGED <<file, tickets, clock, pc, task, preview, base, want, held, acknowledged>>
    BY <1>5 DEF vars, clientVars
  <2>2. FileStamped' /\ LogSound' /\ AcknowledgedStays' /\ Apart'
    BY <2>1 DEF Inv, FileStamped, LogSound, AcknowledgedStays, Accepted, Apart
  <2>3. \A c \in Client : Local(c)'
    BY <2>1, QuietFrame DEF Inv, Same
  <2> QED BY <1>1, <2>2, <2>3 DEF Inv
<1>6. CASE Finished
  BY <1>5, <1>6 DEF Finished
<1> QED BY <1>1, <1>2, <1>3, <1>4, <1>5, <1>6, PreviewKeeps, AcquireKeeps, AnswersKeep, PassedKeeps,
           PublishKeeps, PublishMoveKeeps, VerifyFailsKeeps, RestoreKeeps DEF Next

\* The invariant that the other theorems rest on: a progress mutation that
\* passed the check under its locks knows the log and has locked every
\* ticket that either version of it names.
THEOREM ProgressInvariant == Spec => []Inv
<1>1. Init => Inv
  BY InitInv
<1>2. Inv /\ [Next]_vars => Inv'
  BY NextInv
<1> QED BY <1>1, <1>2, PTL DEF Spec

\* Every client, log, preview and lock has its shape in all runs.
THEOREM ProgressTyped == Spec => []TypeOK
BY ProgressInvariant, PTL DEF Inv

\* Whatever fails or crashes, the log is valid and names accepted tickets only.
THEOREM LogStaysSound == Spec => []LogSound
BY ProgressInvariant, PTL DEF Inv

\* What was answered as recorded stays recorded until a replacement.
THEOREM NothingAcknowledgedIsLost == Spec => []AcknowledgedStays
BY ProgressInvariant, PTL DEF Inv

-----------------------------------------------------------------------------
\* The ledger's operators are those of the store's own log.
LEMMA SameOperators ==
  /\ \A content : Ledger!Entries(content) = Entries(content)
  /\ \A content : Ledger!Recorded(content) = Recorded(content)
  /\ \A content : Ledger!About(content) = About(content)
  /\ \A content, some : Ledger!Sound(content, some) = Sound(content, some)
  /\ \A request, content : Ledger!Proposed(request, content) = Proposed(request, content)
<1>1. \A content : Ledger!Entries(content) = Entries(content)
  BY DEF Ledger!Entries, Entries
<1>2. \A content : Ledger!Recorded(content) = Recorded(content)
  BY DEF Ledger!Entries, Entries, Ledger!Recorded, Recorded
<1>3. \A content : Ledger!About(content) = About(content)
  BY <1>2 DEF Ledger!About, About
<1>4. \A entries, n, ticket :
        Ledger!StatusAfter(entries, n, ticket) = StatusAfter(entries, n, ticket)
  BY DEF Ledger!StatusAfter, StatusAfter
<1>5. \A entries : Ledger!Valid(entries) = Valid(entries)
  BY <1>4 DEF Ledger!Valid, Valid
<1>6. \A content, some : Ledger!Sound(content, some) = Sound(content, some)
  BY <1>1, <1>3, <1>5 DEF Ledger!Sound, Sound
<1>7. \A S : Ledger!InOrder(S) = InOrder(S)
  BY DEF Ledger!InOrder, InOrder, Ledger!Cardinality, Cardinality
<1>8. \A request, content : Ledger!New(request, content) = New(request, content)
  BY <1>2 DEF Ledger!New, New
<1>9. \A request, content : Ledger!Added(request, content) = Added(request, content)
  BY <1>7, <1>8 DEF Ledger!Added, Added
<1>10. \A request, content : Ledger!Proposed(request, content) = Proposed(request, content)
  BY <1>1, <1>9 DEF Ledger!Proposed, Proposed
<1> QED BY <1>1, <1>2, <1>3, <1>6, <1>10

\* At most one client has a log in place that it has not verified.
LEMMA OneUnverified ==
  ASSUME Inv, NEW c \in Client, NEW d \in Client,
         pc[c] \in {"verify", "rollback"}, pc[d] \in {"verify", "rollback"}
  PROVE  c = d
BY OneWriter DEF Inv, Local, Locks, Granted

\* The committed log is the one the unverified writer read, or the file's.
LEMMA CommittedIsRead ==
  ASSUME Inv, NEW c \in Client, pc[c] \in {"verify", "rollback"}
  PROVE  CommittedLog = base[c].content
<1>1. c \in Unverified /\ \A d \in Unverified : d = c
  BY OneUnverified DEF Unverified
<1>2. (CHOOSE d \in Unverified : TRUE) = c
  BY <1>1
<1> QED BY <1>1, <1>2 DEF CommittedLog

\* Without an unverified writer the committed log is the file's.
LEMMA CommittedIsFile ==
  ASSUME \A d \in Client : pc[d] \notin {"verify", "rollback"}
  PROVE  CommittedLog = file.content
BY DEF CommittedLog, Unverified

\* The committed log, said of every state.
CommittedRight ==
  /\ \A c \in Client : pc[c] \in {"verify", "rollback"} => CommittedLog = base[c].content
  /\ (\A c \in Client : pc[c] \notin {"verify", "rollback"}) => CommittedLog = file.content

\* The two lemmas above as one fact.
LEMMA CommittedFacts ==
  Inv => CommittedRight
BY CommittedIsRead, CommittedIsFile DEF CommittedRight

\* And of the state after a step.
LEMMA CommittedFactsNext ==
  Inv' => CommittedRight'
BY CommittedFacts, PTL

\* Nothing is committed by a step that neither publishes nor answers.
LEMMA NothingCommitted ==
  ASSUME Inv, Inv', UNCHANGED <<file, tickets>>,
         NEW c \in Client, \A d \in Client \ {c} : Same(d),
         pc[c] \in {"verify", "rollback"} <=> pc'[c] \in {"verify", "rollback"},
         pc[c] \in {"verify", "rollback"} => base'[c] = base[c]
  PROVE  UNCHANGED <<CommittedLog, Accepted>>
<1>1. Accepted' = Accepted
  BY DEF Accepted
<1>2. \A d \in Client : pc[d] \in {"verify", "rollback"} <=> pc'[d] \in {"verify", "rollback"}
  BY DEF Same
<1>3. \A d \in Client : pc[d] \in {"verify", "rollback"} => base'[d] = base[d]
  BY DEF Same
<1>4. CASE \E d \in Client : pc[d] \in {"verify", "rollback"}
  <2>1. PICK d \in Client : pc[d] \in {"verify", "rollback"}
    BY <1>4
  <2>2. CommittedLog = base[d].content
    BY <2>1, CommittedFacts DEF CommittedRight
  <2>3. CommittedLog' = base'[d].content
    BY <1>2, <2>1, CommittedFactsNext DEF CommittedRight
  <2> QED BY <1>1, <1>3, <2>1, <2>2, <2>3
<1>5. CASE \A d \in Client : pc[d] \notin {"verify", "rollback"}
  <2>1. CommittedLog = file.content
    BY <1>5, CommittedFacts DEF CommittedRight
  <2>2. CommittedLog' = file'.content
    BY <1>2, <1>5, CommittedFactsNext DEF CommittedRight
  <2> QED BY <1>1, <2>1, <2>2
<1> QED BY <1>4, <1>5

\* A client that answers, or dies, with its log in place has committed it.
LEMMA WriterCommits ==
  ASSUME Inv, Inv', UNCHANGED <<file, tickets>>,
         NEW c \in Client, \A d \in Client \ {c} : Same(d),
         pc[c] \in {"verify", "rollback"}, pc'[c] = "idle"
  PROVE  Ledger!Change
<1>1. /\ task[c] \in Request /\ Prepared(c)
      /\ pc[c] \in Writing /\ ~ IsMove(task[c])
  BY DEF Inv, Local, Locks, Writing
<1>2. /\ preview[c].content = Proposed(task[c], base[c].content)
      /\ file.content = preview[c].content
      /\ Sound(preview[c].content, Accepted)
      /\ task[c].op # "bootstrap" =>
           Recorded(task[c].entries) \subseteq Recorded(preview[c].content)
  BY <1>1 DEF Prepared
<1>3. CommittedLog = base[c].content
  BY CommittedFacts DEF CommittedRight
<1>4. \A d \in Client : pc'[d] \notin {"verify", "rollback"}
  BY OneUnverified DEF Same
<1>5. CommittedLog' = file.content
  BY <1>4, CommittedFactsNext DEF CommittedRight
<1>6. Accepted' = Accepted
  BY DEF Accepted
<1>7. /\ CommittedLog' = Ledger!Proposed(task[c], CommittedLog)
      /\ task[c].op = "append" =>
           Ledger!Recorded(task[c].entries) \subseteq Ledger!Recorded(CommittedLog')
      /\ Ledger!Sound(CommittedLog', Accepted)
  BY <1>2, <1>3, <1>5, SameOperators
<1> QED BY <1>1, <1>6, <1>7 DEF Ledger!Change

\* The log that is published replaces the one that was read, which stays the
\* committed one.
LEMMA PublishStutters ==
  ASSUME Inv, Inv', NEW c \in Client, Publish(c)
  PROVE  UNCHANGED <<CommittedLog, Accepted>>
<1>1. /\ \A d \in Client \ {c} : Same(d)
      /\ pc[c] = "publish" /\ pc'[c] = "verify" /\ ~ IsMove(task[c])
      /\ UNCHANGED <<tickets, base>>
  BY DEF Inv, TypeOK, Publish, At, Goto, Same
<1>2. \A d \in Client : pc[d] \notin {"verify", "rollback"}
  BY <1>1, OneWriter DEF Inv, Local, Locks, Granted
<1>3. CommittedLog = file.content
  BY <1>2, CommittedFacts DEF CommittedRight
<1>4. CommittedLog' = base[c].content
  BY <1>1, CommittedFactsNext DEF CommittedRight
<1>5. file.content = base[c].content
  BY <1>1 DEF Inv, Local, Prepared, Writing
<1> QED BY <1>1, <1>3, <1>4, <1>5 DEF Accepted

\* A rollback puts back what was committed all along.
LEMMA RestoreStutters ==
  ASSUME Inv, Inv', NEW c \in Client, Restore(c)
  PROVE  UNCHANGED <<CommittedLog, Accepted>>
<1>1. /\ Return(c, "io") /\ pc[c] = "rollback" /\ UNCHANGED <<tickets, preview>>
      /\ file' = IF base[c].content = Missing THEN NoFile ELSE [base[c] EXCEPT !.rev = clock]
  BY DEF Restore, At
<1>2. pc'[c] = "idle" /\ \A d \in Client \ {c} : Same(d)
  BY <1>1, ReturnAlone DEF Inv
<1>3. CommittedLog = base[c].content
  BY <1>1, CommittedFacts DEF CommittedRight
<1>4. \A d \in Client : pc'[d] \notin {"verify", "rollback"}
  BY <1>1, <1>2, OneUnverified DEF Same
<1>5. CommittedLog' = file'.content
  BY <1>4, CommittedFactsNext DEF CommittedRight
<1>6. base[c] \in Version
  BY DEF Inv, TypeOK
<1>7. file'.content = base[c].content
  BY <1>1, <1>6 DEF NoFile, Version
<1> QED BY <1>1, <1>3, <1>5, <1>7 DEF Accepted

\* A ticket moves in the ledger when its batch is published.
LEMMA PublishMoves ==
  ASSUME Inv, Inv', NEW c \in Client, PublishMove(c)
  PROVE  Ledger!Move
<1>1. /\ Return(c, "done") /\ pc[c] = "publish" /\ UNCHANGED <<file, preview>>
  BY DEF PublishMove, At
<1>2. pc'[c] = "idle" /\ \A d \in Client \ {c} : Same(d)
  BY <1>1, ReturnAlone DEF Inv
<1>3. Accepted' \in SUBSET Ticket
  BY DEF Accepted
<1>4. CASE \E d \in Client : pc[d] \in {"verify", "rollback"}
  <2>1. PICK d \in Client : pc[d] \in {"verify", "rollback"}
    BY <1>4
  <2>2. Same(d)
    BY <1>1, <1>2, <2>1
  <2>3. CommittedLog = base[d].content /\ CommittedLog' = base'[d].content
    BY <2>1, <2>2, CommittedFacts, CommittedFactsNext DEF CommittedRight, Same
  <2>4. Sound(base'[d].content, Accepted')
    BY <2>1, <2>2 DEF Inv, Local, Prepared, Writing, Locks, Same
  <2>5. About(CommittedLog) \subseteq Accepted' /\ CommittedLog' = CommittedLog
    BY <2>2, <2>3, <2>4 DEF Sound, Same
  <2> QED BY <1>3, <2>5, SameOperators DEF Ledger!Move
<1>5. CASE \A d \in Client : pc[d] \notin {"verify", "rollback"}
  <2>1. \A d \in Client : pc'[d] \notin {"verify", "rollback"}
    BY <1>2, <1>5 DEF Same
  <2>2. CommittedLog = file.content /\ CommittedLog' = file.content
    BY <1>1, <1>5, <2>1, CommittedFacts, CommittedFactsNext DEF CommittedRight
  <2>3. Sound(file.content, Accepted')
    BY <1>1 DEF Inv, LogSound
  <2>4. About(CommittedLog) \subseteq Accepted'
    BY <2>2, <2>3 DEF Sound
  <2> QED BY <1>3, <2>2, <2>4, SameOperators DEF Ledger!Move
<1> QED BY <1>4, <1>5

\* A store without a log is an empty ledger.
LEMMA InitCommitted ==
  ASSUME Init
  PROVE  Ledger!Init
<1>1. CommittedLog = Missing
  <2>1. Unverified = {}
    BY DEF Init, Unverified
  <2> QED BY <2>1 DEF Init, CommittedLog, NoFile
<1> QED BY <1>1 DEF Ledger!Init, Accepted

\* Every step changes the log as one mutation does, moves a ticket that the
\* log does not need, or leaves both as they are.
LEMMA NextCommitted ==
  ASSUME Inv, Inv', [Next]_vars
  PROVE  [Ledger!Next]_(Ledger!vars)
<1> USE DEF Ledger!Next, Ledger!vars
<1>1. ASSUME NEW c \in Client,
             \/ PreviewProgress(c) \/ ApplyProgress(c) \/ MoveTicket(c) \/ Acquire(c)
             \/ CheckPassed(c) \/ VerifyFails(c)
      PROVE  UNCHANGED <<CommittedLog, Accepted>>
  <2>1. /\ UNCHANGED <<file, tickets>>
        /\ \A d \in Client \ {c} : Same(d)
        /\ pc[c] \in {"verify", "rollback"} <=> pc'[c] \in {"verify", "rollback"}
        /\ pc[c] \in {"verify", "rollback"} => base'[c] = base[c]
    BY <1>1 DEF Inv, TypeOK, PreviewProgress, ApplyProgress, MoveTicket, Begin, Acquire,
                CheckPassed, VerifyFails, At, Goto, Same
  <2> QED BY <2>1, NothingCommitted
<1>2. ASSUME NEW c \in Client,
             \/ CheckStale(c) \/ CheckCompleted(c) \/ CheckInvalid(c) \/ CheckNoOp(c) \/ Fails(c)
             \/ Verify(c) \/ RestoreFails(c) \/ Crash(c)
      PROVE  Ledger!Change \/ UNCHANGED <<CommittedLog, Accepted>>
  <2>1. UNCHANGED <<file, tickets, preview>>
    BY <1>2 DEF CheckStale, CheckCompleted, CheckInvalid, CheckNoOp, Fails, Verify, RestoreFails,
                Crash
  <2>2. PICK answer : Return(c, answer)
    BY <1>2 DEF CheckStale, CheckCompleted, CheckInvalid, CheckNoOp, Fails, Verify, RestoreFails,
                Crash, Acknowledge
  <2>3. pc'[c] = "idle" /\ \A d \in Client \ {c} : Same(d)
    BY <2>1, <2>2, ReturnAlone DEF Inv
  <2>4. CASE pc[c] \in {"verify", "rollback"}
    BY <2>1, <2>3, <2>4, WriterCommits
  <2>5. CASE pc[c] \notin {"verify", "rollback"}
    BY <2>1, <2>3, <2>5, NothingCommitted
  <2> QED BY <2>4, <2>5
<1>3. CASE UNCHANGED vars
  BY <1>3 DEF vars, clientVars, CommittedLog, Unverified, Accepted
<1>4. CASE Finished
  BY <1>3, <1>4 DEF Finished
<1> QED BY <1>1, <1>2, <1>3, <1>4, PublishStutters, PublishMoves, RestoreStutters DEF Next

\* The store's log implements the ledger: each mutation adds all of its new
\* entries at the end in one step, only where the log stays sound, or leaves
\* the log as it is.
THEOREM LogIsALedger == Spec => Atomic
<1>1. Init => Ledger!Init
  BY InitCommitted
<1>2. Inv /\ Inv' /\ [Next]_vars => [Ledger!Next]_(Ledger!vars)
  BY NextCommitted
<1> QED BY <1>1, <1>2, ProgressInvariant, PTL DEF Spec, Atomic, Ledger!Spec
=============================================================================
