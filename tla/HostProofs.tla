------------------------------ MODULE HostProofs ------------------------------
(***************************************************************************)
(* Proofs about what a host runs beside the Store: the MCP session, for any *)
(* number of workers, kinds and messages and a vault of any size; and the  *)
(* set-up of the Claude and of the Codex adapter, the writer resolver of the *)
(* Codex adapter and an edit in the workbench, for any number of packages, *)
(* runtimes, commands, failing calls and sessions.  The programs share no  *)
(* file: each has its own variables, those of the last four in Host.       *)
(***************************************************************************)
EXTENDS McpSession, Host, FiniteSetTheorems, TLAPS, SequenceTheorems

-----------------------------------------------------------------------------
(* What holds between the calls, the workers and the vault. *)

Busy == {"tool", "remember", "get", "commit", "answer", "fail", "panicked"}

Doing == {"tool", "remember", "get", "commit"}

\* A call under way is a tool call that was read, of the kind its worker's place tells.
HandOK(w) ==
  /\ worker[w].at \in Busy => worker[w].call \in DOMAIN asked /\ IsToolCall(Call(w))
  /\ worker[w].at \in Doing => worker[w].outcome = "none"
  /\ worker[w].at = "take" => worker[w].call = 0
  /\ worker[w].at = "remember" => Call(w).what = "preview"
  /\ worker[w].at \in {"get", "commit"} => Call(w).what = "apply"
  /\ worker[w].outcome # "none" => worker[w].call \in DOMAIN asked
  /\ worker[w].outcome = "missing" => Call(w).what = "apply"
  /\ worker[w].outcome = "made" => worker[w].preview \in DOMAIN issued

\* So is every call that waits, and a client applies only what it may have been told of.
Called ==
  /\ reader.event = "request" => asked # <<>>
  /\ \A j \in DOMAIN queue : queue[j] \in DOMAIN asked /\ IsToolCall(asked[queue[j]])
  /\ \A w \in Worker : HandOK(w)
  /\ shown \subseteq DOMAIN issued
  /\ \A i \in DOMAIN asked : asked[i].what = "apply" => asked[i].id \in DOMAIN issued \cup {Unknown}

\* The vault has the last previews, in order.
Kept == IF Len(issued) > PreviewLimit THEN PreviewLimit ELSE Len(issued)

VaultInv ==
  /\ vault.order = [i \in 1..Kept |-> Len(issued) - Kept + i]
  /\ vault.ids = Len(issued) - Kept + 1 .. Len(issued)

\* A worker that is about to commit has a preview of its kind.
InHandInv ==
  \A w \in Worker : worker[w].at = "commit" =>
    /\ worker[w].preview \in DOMAIN issued
    /\ issued[worker[w].preview].kind = Call(w).kind

\* Revisions are never ahead of what was done to the files.
RevInv == \A f \in Path : store[f] <= Len(effects)

\* What wrote a file left it with a revision that only a later one replaces, unless somebody has
\* deleted the file; what deleted it left none.
GoneAfter(f, i) == \E k \in DOMAIN effects : k > i /\ f \in effects[k].deleted

Lasting(i) ==
  /\ \A f \in effects[i].written : store[f] >= i \/ (store[f] = Absent /\ GoneAfter(f, i))
  /\ \A f \in effects[i].deleted : store[f] >= i \/ store[f] = Absent

LastingInv == \A i \in DOMAIN effects : Lasting(i)

\* What took effect was made on revisions older than those it left.
Spent(i) ==
  effects[i].id # Unknown =>
    /\ effects[i].id \in DOMAIN issued
    /\ issued[effects[i].id].kind = effects[i].tool
    /\ \A f \in effects[i].written \cup effects[i].deleted :
         f \in DOMAIN issued[effects[i].id].expected /\ issued[effects[i].id].expected[f] < i
    /\ \A f \in effects[i].deleted : issued[effects[i].id].expected[f] # Absent

SpentInv == \A i \in DOMAIN effects : Spent(i)

EffectInv ==
  /\ VaultInv /\ InHandInv /\ RevInv /\ LastingInv /\ SpentInv
  /\ TakesEffectOnce /\ RefusedOnlyIfEvicted

\* Where a request that was read may be: handed over by the reader, with the main loop, in the
\* queue, with a worker.
InHand == reader.at = "send" /\ reader.event = "request"

Answering == main.at = "answer"

Handed(i) == InHand /\ i = Len(asked)

Mine(i) == Answering /\ i = main.call

Waits(i) == \E j \in DOMAIN queue : queue[j] = i

Held(i) == i # 0 /\ \E w \in Worker : worker[w].call = i

\* It is in one place, and has no answer as long as it is there.
OnePlace(i) ==
  /\ ~ (Waits(i) /\ Held(i)) /\ ~ (Waits(i) /\ Mine(i)) /\ ~ (Waits(i) /\ Handed(i))
  /\ ~ (Held(i) /\ Mine(i)) /\ ~ (Held(i) /\ Handed(i)) /\ ~ (Mine(i) /\ Handed(i))

Unanswered(i) ==
  Waits(i) \/ Held(i) \/ Mine(i) \/ Handed(i) => i \in DOMAIN asked /\ answers[i] = 0

AccountInv ==
  /\ \A i \in DOMAIN asked : answers[i] <= (IF asked[i].what = "notification" THEN 0 ELSE 1)
  /\ \A j, k \in DOMAIN queue : queue[j] = queue[k] => j = k
  /\ \A v, w \in Worker : worker[v].call = worker[w].call /\ worker[v].call # 0 => v = w
  /\ \A i \in Nat : OnePlace(i) /\ Unanswered(i)
  /\ \A i \in Nat : Mine(i) => asked[i].what # "notification"

\* How far the session is with its end.
Over == {"stop", "hang up", "join", "done"}

EndInv ==
  /\ main.at \notin Over => result = "none"
  /\ main.at \in Over => result \in {"ok", "error"}
  /\ stopped /\ main.at \in {"receive", "answer", "stop"} => fatal
  /\ \A w \in Worker : worker[w].at = "fail" => fatal
  /\ main.at \in Over /\ result = "ok" => fatal \/ reader.at = "gone"
  /\ \A w \in Worker :
       worker[w].at = "gone" => fatal \/ (worker[w].call = 0 /\ queue = <<>> /\ HungUp)
  /\ main.at = "done" => Joinable
  /\ main.at = "done" /\ result = "ok" => ~ fatal /\ \A w \in Worker : worker[w].at # "panicked"

\* While nothing has failed no request is lost.
Accounted(i) ==
  asked[i].what = "notification" \/ answers[i] = 1 \/ Waits(i) \/ Held(i) \/ Mine(i) \/ Handed(i)

NoneLost == fatal \/ result = "error" \/ \A i \in DOMAIN asked : Accounted(i)

-----------------------------------------------------------------------------
(* Types. *)

\* What a message is by what it asks.
LEMMA MessageShape ==
  ASSUME NEW m \in Message
  PROVE  /\ m.what = "preview" => m.request \in Request
         /\ m.what = "apply" => m.kind \in Kind /\ m.id \in Nat
         /\ m.what \in Other \cup Tool
BY DEF Message, Other, Tool

\* Remembering a preview leaves a vault of numbers.
LEMMA RememberedType ==
  ASSUME NEW id \in Nat, vault.order \in Seq(Nat)
  PROVE  Remembered(id) \in [order : Seq(Nat), ids : SUBSET Nat]
<1> DEFINE order == Append(vault.order, id)
           over == IF Len(order) > PreviewLimit THEN Len(order) - PreviewLimit ELSE 0
           kept == SubSeq(order, over + 1, Len(order))
<1>1. order \in Seq(Nat) /\ Len(order) \in Nat
  BY AppendProperties
<1>2. over \in Nat
  BY <1>1, SessionAssumption
<1>3. kept \in Seq(Nat)
  <2> HIDE DEF order, over
  <2> QED BY <1>1, <1>2, SubSeqProperties
<1>4. Remembered(id) = [order |-> kept, ids |-> Range(kept)]
  BY DEF Remembered
<1> HIDE DEF kept
<1>5. Range(kept) \subseteq Nat
  BY <1>3 DEF Range
<1> QED BY <1>3, <1>4, <1>5

\* A preview of nothing is one, and an idle worker has it in hand.
LEMMA IdleHand ==
  Idle \in Hand /\ Idle.at = "take" /\ Idle.call = 0 /\ Idle.outcome = "none"
<1> DEFINE none == [f \in {} |-> "put"]
           seen == [f \in {} |-> Absent]
<1>1. none \in [{} -> Change] /\ seen \in [{} -> Nat] /\ {} \in SUBSET Path
  OBVIOUS
<1>2. none \in Changes /\ seen \in Revisions /\ DOMAIN none \subseteq DOMAIN seen
  BY <1>1, Zenon DEF Changes, Revisions
<1> HIDE DEF none, seen
<1>3. NoPreview = [kind |-> RecordKind, changes |-> none, expected |-> seen]
  BY DEF NoPreview, none, seen
<1>4. NoPreview \in Preview
  BY <1>2, <1>3, SessionAssumption DEF Preview
<1> HIDE DEF NoPreview
<1> QED BY <1>4 DEF Idle, Hand, Place, Outcome

\* What a preview is made of: the changes asked for, on the revisions of what is read.
LEMMA MadeShape ==
  ASSUME NEW r \in Request, store \in [Path -> Nat]
  PROVE  MadeOf(r) \in Preview
<1>1. r \in [kind : Kind, changes : Changes, reads : SUBSET Path] /\ DOMAIN r.changes \subseteq r.reads
  BY SessionAssumption
<1> DEFINE seen == [f \in r.reads |-> store[f]]
<1>2. seen \in [r.reads -> Nat] /\ r.reads \in SUBSET Path /\ DOMAIN seen = r.reads
  BY <1>1
<1>3. seen \in Revisions
  BY <1>2 DEF Revisions
<1>4. MadeOf(r) = [kind |-> r.kind, changes |-> r.changes, expected |-> seen]
  BY DEF MadeOf
<1> HIDE DEF seen
<1> QED BY <1>1, <1>2, <1>3, <1>4 DEF Preview

\* Of a preview: its kind, what it changes, and the revisions it was made on.
LEMMA PreviewShape ==
  ASSUME NEW p \in Preview
  PROVE  /\ p.kind \in Kind
         /\ DOMAIN p.changes \subseteq DOMAIN p.expected
         /\ DOMAIN p.expected \subseteq Path
         /\ \A f \in DOMAIN p.expected : p.expected[f] \in Nat
<1>1. p.kind \in Kind /\ p.expected \in Revisions /\ DOMAIN p.changes \subseteq DOMAIN p.expected
  BY DEF Preview
<1>2. PICK S \in SUBSET Path : p.expected \in [S -> Nat]
  BY <1>1 DEF Revisions
<1> QED BY <1>1, <1>2

\* The session starts with its types.
LEMMA TypeInit == Init => TypeOK
<1> SUFFICES ASSUME Init PROVE TypeOK
  OBVIOUS
<1>1. InputOK
  BY DEF Init, InputOK
<1>2. [id |-> Unknown, tool |-> Nobody, written |-> Initial, deleted |-> {}] \in Effect
  BY SessionAssumption DEF Effect, Unknown
<1> DEFINE first == [id |-> Unknown, tool |-> Nobody, written |-> Initial, deleted |-> {}]
<1>a. <<first>> \in Seq(Effect)
  <2> HIDE DEF first
  <2> QED BY <1>2 DEF first
<1>b. store \in [Path -> Nat] /\ effects = <<first>>
  BY DEF Init, Absent
<1>3. ToolsOK
  BY <1>a, <1>b, IdleHand DEF Init, ToolsOK
<1>4. OutputOK
  BY DEF Init, OutputOK
<1> QED BY <1>1, <1>3, <1>4 DEF TypeOK

\* What a step of one worker leaves alone.
Only(w) == \A v \in Worker \ {w} : worker'[v] = worker[v]

\* A worker that moves on, with or without an outcome, has in hand what a worker may have.
LEMMA GoesType ==
  ASSUME worker \in [Worker -> Hand], NEW w \in Worker, NEW where \in Place, Goes(w, where)
  PROVE  /\ worker' \in [Worker -> Hand]
         /\ Only(w)
         /\ worker'[w].at = where
         /\ worker'[w].call = worker[w].call /\ worker'[w].made = worker[w].made
         /\ worker'[w].preview = worker[w].preview /\ worker'[w].outcome = worker[w].outcome
<1>1. worker[w] \in Hand
  OBVIOUS
<1>2. worker' = [worker EXCEPT ![w] = [worker[w] EXCEPT !.at = where]]
  BY DEF Goes
<1>3. [worker[w] EXCEPT !.at = where] \in Hand
  BY <1>1 DEF Hand
<1>4. worker' \in [Worker -> Hand]
  BY <1>2, <1>3
<1>5. worker'[w] = [worker[w] EXCEPT !.at = where] /\ Only(w)
  BY <1>2 DEF Only
<1> QED BY <1>1, <1>4, <1>5 DEF Hand

\* A worker whose call ends with an outcome has in hand what a worker may have, and answers next.
LEMMA EndsType ==
  ASSUME worker \in [Worker -> Hand], NEW w \in Worker, NEW outcome \in Outcome, Ends(w, outcome)
  PROVE  /\ worker' \in [Worker -> Hand]
         /\ Only(w)
         /\ worker'[w].at = "answer" /\ worker'[w].outcome = outcome
         /\ worker'[w].call = worker[w].call /\ worker'[w].made = worker[w].made
         /\ worker'[w].preview = worker[w].preview
<1> DEFINE h == [worker[w] EXCEPT !.at = "answer", !.outcome = outcome]
<1>1. worker[w] \in Hand
  OBVIOUS
<1>2. worker' = [worker EXCEPT ![w] = h]
  BY DEF Ends
<1>3. h \in Hand
  BY <1>1 DEF Hand, Place
<1>4. worker' \in [Worker -> Hand]
  BY <1>2, <1>3
<1>5. worker'[w] = h /\ Only(w)
  BY <1>2 DEF Only
<1> QED BY <1>1, <1>4, <1>5 DEF Hand

\* A frame that is read is a message.
LEMMA ReadsFrameType ==
  ASSUME TypeOK, ReadsFrame
  PROVE  TypeOK' /\ Len(asked') = Len(asked) + 1 /\ Len(asked) \in Nat
<1>1. shown \cup {Unknown} \subseteq Nat
  BY DEF TypeOK, OutputOK, Unknown
<1>2. Sendable \subseteq Message
  BY <1>1 DEF Sendable, Message
<1>3. PICK m \in Message : asked' = Append(asked, m)
  BY <1>2 DEF ReadsFrame
<1>4. asked \in Seq(Message)
  BY DEF TypeOK, InputOK
<1>5. asked' \in Seq(Message) /\ Len(asked') = Len(asked) + 1 /\ Len(asked) \in Nat
  <2> HIDE DEF Message
  <2> QED BY <1>3, <1>4, AppendProperties, LenProperties
<1>6. InputOK'
  BY <1>5 DEF TypeOK, InputOK, ReadsFrame
<1>7. answers \in Seq(Nat) /\ answers' = Append(answers, 0)
  BY DEF TypeOK, OutputOK, ReadsFrame
<1>8. answers' \in Seq(Nat) /\ Len(answers') = Len(answers) + 1
  BY <1>7, AppendProperties
<1>9. OutputOK'
  BY <1>5, <1>8 DEF TypeOK, OutputOK, ReadsFrame
<1> QED BY <1>5, <1>6, <1>9 DEF TypeOK, ToolsOK, ReadsFrame, toolVars

\* A sequence is as long as its domain says.
LEMMA LenDomain ==
  ASSUME NEW S, NEW s \in Seq(S), NEW n \in Nat, s \in [1..n -> S]
  PROVE  Len(s) = n
<1>1. DOMAIN s = 1..n /\ DOMAIN s = 1..Len(s) /\ Len(s) \in Nat
  BY LenProperties
<1> QED BY <1>1

\* The tools keep their types when only the flags and the two loops move.
LEMMA TypeStutter ==
  ASSUME TypeOK, UNCHANGED <<queue, worker, issued, vault, store, effects>>
  PROVE  ToolsOK'
BY DEF TypeOK, ToolsOK

\* The answers and the previews shown keep their types when the pipe at most breaks.
LEMMA OutputStutter ==
  ASSUME TypeOK, UNCHANGED <<asked, answers, shown>>, pipe' \in {pipe, "broken"}
  PROVE  OutputOK'
BY DEF TypeOK, OutputOK

\* The steps of the reader and of the main loop keep the types.
LEMMA TypeInput == TypeOK /\ (ReaderNext \/ MainNext) => TypeOK'
<1> SUFFICES ASSUME TypeOK, ReaderNext \/ MainNext PROVE TypeOK'
  OBVIOUS
<1>a. Len(asked) \in Nat
  <2>1. asked \in Seq(Message)
    BY DEF TypeOK, InputOK
  <2> QED BY <2>1, LenProperties
<1>b. InputOK /\ ToolsOK /\ OutputOK
  BY DEF TypeOK
<1>1. ASSUME ReaderStops \/ ReadsEnd \/ ReaderUnheard \/ ReceivesTooLate PROVE TypeOK'
  <2>1. UNCHANGED <<asked, main, result, toolVars, queue, answers, shown, pipe>>
    BY <1>1 DEF ReaderStops, ReadsEnd, ReaderUnheard, ReceivesTooLate, outputVars
  <2>2. reader' \in [at : {"read", "send", "gone"},
                     event : {"none", "request", "finished", "failed"}]
    <3> DEFINE Reader == [at : {"read", "send", "gone"},
                          event : {"none", "request", "finished", "failed"}]
    <3>1. reader \in Reader
      BY <1>b DEF InputOK
    <3>2. \A where \in {"read", "gone"} : [reader EXCEPT !.at = where] \in Reader
      BY <3>1
    <3>3. \A event \in {"finished", "failed"} : [at |-> "send", event |-> event] \in Reader
      OBVIOUS
    <3> HIDE DEF Reader
    <3>4. reader' \in Reader
      BY <1>1, <3>2, <3>3 DEF ReaderStops, ReadsEnd, ReaderUnheard, ReceivesTooLate, Received
    <3> QED BY <3>4 DEF Reader
  <2>3. InputOK'
    BY <2>1, <2>2, <1>b DEF InputOK
  <2> QED BY <2>1, <2>3, TypeStutter, OutputStutter DEF TypeOK, toolVars
<1>2. ASSUME ReceivesCall PROVE TypeOK'
  <2>1. queue \in Seq(Nat) /\ queue' = Append(queue, Len(asked))
    BY <1>2, <1>b DEF ReceivesCall, ToolsOK
  <2>2. queue' \in Seq(Nat)
    BY <2>1, <1>a, AppendProperties
  <2>3. ToolsOK'
    BY <1>2, <1>b, <2>2 DEF ReceivesCall, ToolsOK, toolVars
  <2>4. InputOK'
    BY <1>2, <1>b DEF ReceivesCall, Received, InputOK
  <2> QED BY <1>2, <2>3, <2>4, OutputStutter DEF ReceivesCall, TypeOK, outputVars
<1>3. ASSUME ReceivesOther \/ ReceivesEnd \/ MainFails \/ Stops \/ Joins PROVE TypeOK'
  <2>1. UNCHANGED <<asked, queue, toolVars, answers, shown>> /\ pipe' \in {pipe, "broken"}
    BY <1>3
    DEF ReceivesOther, ReceivesEnd, MainFails, Stops, Joins, WriteFails, inputVars, outputVars
  <2>2. /\ main' \in [at : {"receive", "answer", "stop", "hang up", "join", "done"}, call : Nat]
        /\ result' \in {"none", "ok", "error"}
    <3> DEFINE Main == [at : {"receive", "answer", "stop", "hang up", "join", "done"}, call : Nat]
    <3>1. main \in Main
      BY <1>b DEF InputOK
    <3>2. \A where \in {"stop", "hang up", "done"} : [main EXCEPT !.at = where] \in Main
      BY <3>1
    <3>3. [at |-> "answer", call |-> Len(asked)] \in Main
      BY <1>a
    <3> HIDE DEF Main
    <3>4. main' \in Main
      BY <1>3, <3>1, <3>2, <3>3 DEF ReceivesOther, ReceivesEnd, MainFails, Stops, Joins
    <3>5. result' \in {"none", "ok", "error"}
      BY <1>3, <1>b
      DEF ReceivesOther, ReceivesEnd, MainFails, Stops, Joins, Verdict, InputOK, inputVars
    <3> QED BY <3>4, <3>5 DEF Main
  <2>3. reader' \in [at : {"read", "send", "gone"},
                     event : {"none", "request", "finished", "failed"}]
    BY <1>3, <1>b
    DEF ReceivesOther, ReceivesEnd, MainFails, Stops, Joins, Received, InputOK, inputVars
  <2>4. InputOK'
    BY <2>1, <2>2, <2>3, <1>b DEF InputOK
  <2> QED BY <2>1, <2>4, TypeStutter, OutputStutter DEF TypeOK, toolVars
<1>4. ASSUME NEW w \in Worker, ReceivesFailure(w) PROVE TypeOK'
  <2>1. Goes(w, "gone") /\ "gone" \in Place
    BY <1>4 DEF ReceivesFailure, Goes, Place
  <2>2. worker' \in [Worker -> Hand]
    BY <2>1, <1>b, GoesType DEF ToolsOK
  <2>3. ToolsOK'
    BY <1>4, <1>b, <2>2 DEF ReceivesFailure, ToolsOK
  <2>4. InputOK'
    BY <1>4, <1>b DEF ReceivesFailure, InputOK, inputVars
  <2> QED BY <1>4, <2>3, <2>4, OutputStutter DEF TypeOK, ReceivesFailure, inputVars, outputVars
<1>5. ASSUME MainAnswers PROVE TypeOK'
  <2>1. answers' \in Seq(Nat) /\ Len(answers') = Len(answers)
    <3>1. answers \in Seq(Nat) /\ answers' = [answers EXCEPT ![main.call] = @ + 1]
      BY <1>5, <1>b DEF MainAnswers, OutputOK
    <3>2. answers \in [1..Len(answers) -> Nat] /\ Len(answers) \in Nat
      BY <3>1, LenProperties
    <3>3. \A i \in 1..Len(answers) : answers[i] + 1 \in Nat
      BY <3>2
    <3>4. answers' \in [1..Len(answers) -> Nat]
      BY <3>1, <3>2, <3>3
    <3>5. answers' \in Seq(Nat)
      BY <3>2, <3>4, SeqDef
    <3> QED BY <3>2, <3>4, <3>5, LenDomain
  <2>2. OutputOK'
    BY <1>5, <1>b, <2>1 DEF MainAnswers, OutputOK, inputVars
  <2>3. InputOK'
    BY <1>5, <1>b DEF MainAnswers, InputOK, inputVars
  <2> QED BY <1>5, <2>2, <2>3, TypeStutter DEF TypeOK, MainAnswers, toolVars
<1>6. ASSUME HangsUp PROVE TypeOK'
  <2>1. InputOK'
    BY <1>6, <1>b DEF HangsUp, InputOK, inputVars
  <2> QED BY <1>6, <2>1, TypeStutter, OutputStutter
      DEF HangsUp, Drained, TypeOK, inputVars, toolVars, outputVars
<1> QED
  BY <1>1, <1>2, <1>3, <1>4, <1>5, <1>6, ReadsFrameType DEF ReaderNext, MainNext

\* What the step of a worker leaves in its hand, and that it keeps the types.
LEMMA ToolStutter ==
  ASSUME TypeOK, ToolsOK', UNCHANGED <<asked, reader, main, result, answers, shown>>,
         pipe' \in {pipe, "broken"}
  PROVE  TypeOK'
BY DEF TypeOK, InputOK, OutputOK

\* One worker is given another hand.
LEMMA HandSet ==
  ASSUME worker \in [Worker -> Hand], NEW w \in Worker, NEW h \in Hand,
         worker' = [worker EXCEPT ![w] = h]
  PROVE  worker' \in [Worker -> Hand] /\ Only(w) /\ worker'[w] = h
BY DEF Only

\* Taking a call from the queue (the receive of a tool worker).
LEMMA TakesStep ==
  ASSUME TypeOK, NEW w \in Worker, Takes(w)
  PROVE  /\ TypeOK' /\ Only(w)
         /\ worker'[w].at = "tool" /\ worker'[w].call = Head(queue)
         /\ worker'[w].outcome = "none"
         /\ queue # <<>> /\ queue' = Tail(queue)
<1> DEFINE h == [Idle EXCEPT !.at = "tool", !.call = Head(queue)]
<1>1. queue \in Seq(Nat) /\ queue # <<>> /\ queue' = Tail(queue) /\ worker \in [Worker -> Hand]
  BY DEF Takes, TypeOK, ToolsOK
<1>2. Head(queue) \in Nat /\ Tail(queue) \in Seq(Nat)
  BY <1>1, HeadTailProperties
<1>3. h \in Hand /\ h.at = "tool" /\ h.call = Head(queue) /\ h.outcome = "none"
  <2>1. \A n \in Nat : LET k == [Idle EXCEPT !.at = "tool", !.call = n]
                      IN  k \in Hand /\ k.at = "tool" /\ k.call = n /\ k.outcome = "none"
    BY IdleHand DEF Hand, Place
  <2> QED BY <1>2, <2>1
<1>4. worker' = [worker EXCEPT ![w] = h]
  BY DEF Takes
<1> HIDE DEF h
<1>5. worker' \in [Worker -> Hand] /\ Only(w) /\ worker'[w] = h
  BY <1>1, <1>3, <1>4, HandSet
<1>6. ToolsOK'
  BY <1>1, <1>2, <1>5 DEF Takes, TypeOK, ToolsOK
<1>7. TypeOK'
  BY <1>6, ToolStutter DEF Takes, inputVars, outputVars
<1> QED BY <1>1, <1>3, <1>5, <1>7

\* A worker that only moves on.
LEMMA MovesStep ==
  ASSUME TypeOK, NEW w \in Worker, NEW where \in Place, Goes(w, where),
         UNCHANGED <<inputVars, main, queue, issued, vault, store, effects, answers, shown,
                     result>>,
         pipe' \in {pipe, "broken"}
  PROVE  /\ TypeOK' /\ Only(w)
         /\ worker'[w].at = where
         /\ worker'[w].call = worker[w].call /\ worker'[w].made = worker[w].made
         /\ worker'[w].preview = worker[w].preview /\ worker'[w].outcome = worker[w].outcome
<1>1. worker \in [Worker -> Hand]
  BY DEF TypeOK, ToolsOK
<1>2. worker' \in [Worker -> Hand]
  BY <1>1, GoesType
<1>3. ToolsOK'
  BY <1>2 DEF TypeOK, ToolsOK
<1>4. TypeOK'
  BY <1>3, ToolStutter DEF inputVars
<1> QED BY <1>1, <1>4, GoesType

\* The call of a worker that is busy is a message.
LEMMA CallShape ==
  ASSUME TypeOK, Called, NEW w \in Worker, worker[w].at \in Busy
  PROVE  /\ worker[w].call \in DOMAIN asked
         /\ Call(w) \in Message
         /\ IsToolCall(Call(w))
         /\ Call(w).what = "preview" => Call(w).request \in Request
         /\ Call(w).what = "apply" => Call(w).kind \in Kind /\ Call(w).id \in Nat
<1>1. worker[w].call \in DOMAIN asked /\ IsToolCall(Call(w))
  BY DEF Called, HandOK
<1>2. asked \in Seq(Message)
  BY DEF TypeOK, InputOK
<1>3. asked[worker[w].call] \in Message
  BY <1>1, <1>2, LenProperties, ElementOfSeq
<1> QED BY <1>1, <1>3, MessageShape DEF Call

\* Computing a preview on the revisions the files have now.
LEMMA PreviewsStep ==
  ASSUME TypeOK, Called, NEW w \in Worker, Previews(w)
  PROVE  /\ TypeOK' /\ Only(w)
         /\ worker'[w].at = "remember" /\ worker'[w].call = worker[w].call
         /\ worker'[w].preview = worker[w].preview /\ worker'[w].outcome = worker[w].outcome
<1> DEFINE p == MadeOf(Call(w).request)
           h == [worker[w] EXCEPT !.at = "remember", !.made = p]
<1>1. worker \in [Worker -> Hand] /\ worker[w] \in Hand /\ store \in [Path -> Nat]
  BY DEF TypeOK, ToolsOK
<1>a. Call(w).request \in Request
  BY CallShape DEF Previews, Busy
<1>b. p \in Preview
  BY <1>1, <1>a, MadeShape
<1> HIDE DEF p
<1>2. h \in Hand /\ h.at = "remember" /\ h.call = worker[w].call /\ h.preview = worker[w].preview
      /\ h.outcome = worker[w].outcome
  BY <1>1, <1>b DEF Hand, Place
<1>3. worker' = [worker EXCEPT ![w] = h]
  BY DEF Previews, p
<1> HIDE DEF h
<1>4. worker' \in [Worker -> Hand] /\ Only(w) /\ worker'[w] = h
  BY <1>1, <1>2, <1>3, HandSet
<1>5. ToolsOK'
  BY <1>4 DEF Previews, TypeOK, ToolsOK
<1>6. TypeOK'
  BY <1>5, ToolStutter DEF Previews, inputVars, outputVars
<1> QED BY <1>2, <1>4, <1>6

\* Remembering a preview: it is issued under the next number and kept in the vault.
LEMMA RemembersStep ==
  ASSUME TypeOK, Called, NEW w \in Worker, Remembers(w)
  PROVE  /\ TypeOK' /\ Only(w)
         /\ worker'[w].at = "answer" /\ worker'[w].call = worker[w].call
         /\ worker'[w].preview = Len(issued) + 1 /\ worker'[w].outcome = "made"
         /\ Len(issued) \in Nat /\ Len(issued') = Len(issued) + 1
         /\ DOMAIN issued = 1..Len(issued) /\ DOMAIN issued' = 1..Len(issued) + 1
         /\ \A i \in DOMAIN issued : issued'[i] = issued[i]
<1> DEFINE h == [worker[w] EXCEPT !.at = "answer", !.preview = Len(issued) + 1, !.outcome = "made"]
           p == worker[w].made
<1>1. worker \in [Worker -> Hand] /\ worker[w] \in Hand /\ issued \in Seq(Preview)
  BY DEF TypeOK, ToolsOK
<1>5. p \in Preview
  BY <1>1 DEF Hand
<1>6. issued' = Append(issued, p)
  BY DEF Remembers
<1> HIDE DEF p
<1>7. /\ issued' \in Seq(Preview) /\ Len(issued) \in Nat /\ Len(issued') = Len(issued) + 1
      /\ DOMAIN issued = 1..Len(issued) /\ DOMAIN issued' = 1..Len(issued) + 1
      /\ \A i \in DOMAIN issued : issued'[i] = issued[i]
  BY <1>1, <1>5, <1>6, AppendProperties, LenProperties
<1>8. /\ h \in Hand /\ h.at = "answer" /\ h.call = worker[w].call /\ h.preview = Len(issued) + 1
      /\ h.outcome = "made"
  <2>1. Len(issued) + 1 \in Nat
    BY <1>7
  <2>2. \A n \in Nat :
          LET k == [worker[w] EXCEPT !.at = "answer", !.preview = n, !.outcome = "made"]
          IN  /\ k \in Hand /\ k.at = "answer" /\ k.call = worker[w].call /\ k.preview = n
              /\ k.outcome = "made"
    BY <1>1 DEF Hand, Place, Outcome
  <2> QED BY <2>1, <2>2
<1>9. worker' = [worker EXCEPT ![w] = h]
  BY DEF Remembers
<1> HIDE DEF h
<1>10. worker' \in [Worker -> Hand] /\ Only(w) /\ worker'[w] = h
  BY <1>1, <1>8, <1>9, HandSet
<1>11. vault' \in [order : Seq(Nat), ids : SUBSET Nat]
  <2>1. vault' = Remembered(Len(issued) + 1) /\ vault.order \in Seq(Nat)
    BY DEF Remembers, TypeOK, ToolsOK
  <2> QED BY <2>1, <1>7, RememberedType
<1>12. ToolsOK'
  BY <1>7, <1>10, <1>11 DEF Remembers, TypeOK, ToolsOK
<1>13. TypeOK'
  BY <1>12, ToolStutter DEF Remembers, inputVars, outputVars
<1> QED BY <1>7, <1>8, <1>10, <1>13

\* A worker whose call has gone some way.
LEMMA EndsStep ==
  ASSUME TypeOK, NEW w \in Worker, NEW outcome \in Outcome, Ends(w, outcome),
         store' \in [Path -> Nat], effects' \in Seq(Effect),
         UNCHANGED <<inputVars, main, queue, issued, vault, outputVars, result>>
  PROVE  /\ TypeOK' /\ Only(w)
         /\ worker'[w].at = "answer" /\ worker'[w].outcome = outcome
         /\ worker'[w].call = worker[w].call /\ worker'[w].made = worker[w].made
         /\ worker'[w].preview = worker[w].preview
<1>1. worker \in [Worker -> Hand]
  BY DEF TypeOK, ToolsOK
<1>2. worker' \in [Worker -> Hand]
  BY <1>1, EndsType
<1>3. ToolsOK'
  BY <1>2 DEF TypeOK, ToolsOK
<1>4. TypeOK'
  BY <1>3, ToolStutter DEF inputVars, outputVars
<1> QED BY <1>1, <1>4, EndsType

\* Looking a preview up for its kind alone (the record tool does so first): a wrong kind and a
\* preview that is not retained end the call.
LEMMA AsksKindStep ==
  ASSUME TypeOK, NEW w \in Worker, AsksKind(w)
  PROVE  /\ TypeOK' /\ Only(w)
         /\ worker'[w].call = worker[w].call /\ worker'[w].preview = worker[w].preview
         /\ \/ worker'[w].at = "answer" /\ worker'[w].outcome = "missing" /\ ~ Retained(Call(w).id)
            \/ worker'[w].at = "answer" /\ worker'[w].outcome = "other kind"
            \/ worker'[w].at = "get" /\ worker'[w].outcome = worker[w].outcome
<1>1. store \in [Path -> Nat] /\ effects \in Seq(Effect)
  BY DEF TypeOK, ToolsOK
<1>2. UNCHANGED <<inputVars, main, queue, issued, vault, store, effects, outputVars, result>>
  BY DEF AsksKind
<1>3. CASE Ends(w, "missing") /\ ~ Retained(Call(w).id)
  <2>1. "missing" \in Outcome
    BY DEF Outcome
  <2> QED BY <1>1, <1>2, <1>3, <2>1, EndsStep
<1>4. CASE Ends(w, "other kind")
  <2>1. "other kind" \in Outcome
    BY DEF Outcome
  <2> QED BY <1>1, <1>2, <1>4, <2>1, EndsStep
<1>5. CASE Goes(w, "get")
  <2>1. "get" \in Place /\ UNCHANGED <<answers, shown, pipe>>
    BY <1>2 DEF Place, outputVars
  <2> QED BY <1>2, <1>5, <2>1, MovesStep
<1> QED BY <1>3, <1>4, <1>5 DEF AsksKind

\* Looking the preview itself up (PreviewVault::get): it may be gone by then.
LEMMA GetsStep ==
  ASSUME TypeOK, Called, NEW w \in Worker, Gets(w)
  PROVE  /\ TypeOK' /\ Only(w)
         /\ worker'[w].call = worker[w].call /\ Call(w).what = "apply"
         /\ \/ /\ worker'[w].at = "answer" /\ worker'[w].outcome = "missing"
               /\ worker'[w].preview = worker[w].preview /\ ~ Retained(Call(w).id)
            \/ /\ worker'[w].at = "answer" /\ worker'[w].outcome = "other kind"
               /\ worker'[w].preview = worker[w].preview
            \/ /\ worker'[w].at = "commit" /\ worker'[w].outcome = worker[w].outcome
               /\ worker'[w].preview = Call(w).id /\ Retained(Call(w).id) /\ KindFits(w)
<1> DEFINE h == [worker[w] EXCEPT !.at = "commit", !.preview = Call(w).id]
<1>1. store \in [Path -> Nat] /\ effects \in Seq(Effect) /\ worker[w] \in Hand
      /\ worker \in [Worker -> Hand]
  BY DEF TypeOK, ToolsOK
<1>2. UNCHANGED <<inputVars, main, queue, issued, vault, store, effects, outputVars, result>>
  BY DEF Gets
<1>3. Call(w).what = "apply" /\ worker[w].at \in Busy
  BY DEF Gets, Called, HandOK, Busy
<1>4. Call(w).id \in Nat
  BY <1>3, CallShape
<1>5. CASE Ends(w, "missing") /\ ~ Retained(Call(w).id)
  <2>1. "missing" \in Outcome
    BY DEF Outcome
  <2> QED BY <1>1, <1>2, <1>3, <1>5, <2>1, EndsStep
<1>6. CASE Ends(w, "other kind")
  <2>1. "other kind" \in Outcome
    BY DEF Outcome
  <2> QED BY <1>1, <1>2, <1>3, <1>6, <2>1, EndsStep
<1>7. CASE worker' = [worker EXCEPT ![w] = h] /\ Retained(Call(w).id) /\ KindFits(w)
  <2>1. /\ h \in Hand /\ h.at = "commit" /\ h.call = worker[w].call /\ h.preview = Call(w).id
        /\ h.outcome = worker[w].outcome
    BY <1>1, <1>4 DEF Hand, Place
  <2> HIDE DEF h
  <2>2. worker' \in [Worker -> Hand] /\ Only(w) /\ worker'[w] = h
    BY <1>1, <1>7, <2>1, HandSet
  <2>3. ToolsOK'
    BY <1>2, <2>2 DEF TypeOK, ToolsOK
  <2>4. TypeOK'
    BY <1>2, <2>3, ToolStutter DEF inputVars, outputVars
  <2> QED BY <1>3, <1>7, <2>1, <2>2, <2>4
<1> QED BY <1>5, <1>6, <1>7 DEF Gets

\* A change of files, by a tool or by another: one effect more, and revisions that are ahead of all
\* there were.
LEMMA ChangedStep ==
  ASSUME TypeOK, NEW id \in Nat, NEW tool \in Kind \cup {Nobody}, NEW wrote \in SUBSET Path,
         NEW gone \in SUBSET Path, Changed(id, tool, wrote, gone)
  PROVE  /\ store' \in [Path -> Nat] /\ effects' \in Seq(Effect)
         /\ Len(effects) \in Nat /\ Len(effects') = Len(effects) + 1
         /\ DOMAIN effects = 1..Len(effects) /\ DOMAIN effects' = 1..Len(effects) + 1
         /\ \A i \in DOMAIN effects : effects'[i] = effects[i]
         /\ effects'[Len(effects) + 1].id = id /\ effects'[Len(effects) + 1].tool = tool
         /\ effects'[Len(effects) + 1].written = wrote
         /\ effects'[Len(effects) + 1].deleted = gone
         /\ \A f \in Path : store'[f] = IF f \in wrote THEN Len(effects) + 1
                                       ELSE IF f \in gone THEN Absent ELSE store[f]
<1> DEFINE e == [id |-> id, tool |-> tool, written |-> wrote, deleted |-> gone]
<1>1. effects \in Seq(Effect) /\ store \in [Path -> Nat]
  BY DEF TypeOK, ToolsOK
<1>2. e \in Effect /\ e.id = id /\ e.tool = tool /\ e.written = wrote /\ e.deleted = gone
  BY DEF Effect
<1>3. effects' = Append(effects, e)
  BY DEF Changed
<1> HIDE DEF e
<1>4. /\ effects' \in Seq(Effect) /\ Len(effects) \in Nat /\ Len(effects') = Len(effects) + 1
      /\ DOMAIN effects = 1..Len(effects) /\ DOMAIN effects' = 1..Len(effects) + 1
      /\ \A i \in DOMAIN effects : effects'[i] = effects[i]
      /\ effects'[Len(effects) + 1] = e
  BY <1>1, <1>2, <1>3, AppendProperties, LenProperties
<1>5. store' = [f \in Path |-> IF f \in wrote THEN Len(effects) + 1
                             ELSE IF f \in gone THEN Absent ELSE store[f]]
  BY DEF Changed
<1>6. store' \in [Path -> Nat]
  BY <1>1, <1>4, <1>5 DEF Absent
<1> QED BY <1>2, <1>4, <1>5, <1>6

\* What is in hand when a preview is to be applied.
LEMMA CommitShape ==
  ASSUME TypeOK, Called, NEW w \in Worker, worker[w].at = "commit"
  PROVE  Call(w).what = "apply" /\ Call(w).kind \in Kind /\ worker[w].preview \in Nat
<1>1. worker[w] \in Hand /\ worker[w].at \in Busy /\ Call(w).what = "apply"
  BY DEF TypeOK, ToolsOK, Called, HandOK, Busy
<1>2. Call(w).kind \in Kind
  BY <1>1, CallShape
<1> QED BY <1>1, <1>2 DEF Hand

\* What an application writes and deletes, of a preview that was issued.
LEMMA CommitPicks ==
  ASSUME TypeOK, NEW w \in Worker, worker[w].preview \in DOMAIN issued, Commits(w)
  PROVE  LET p == issued[worker[w].preview] IN
         /\ StillCurrent(p)
         /\ p \in Preview
         /\ \E wrote \in SUBSET DOMAIN p.expected, gone \in SUBSET DOMAIN p.expected :
              /\ Changed(worker[w].preview, Call(w).kind, wrote, gone)
              /\ \A f \in gone : p.expected[f] # Absent
<1> DEFINE p == issued[worker[w].preview]
<1>1. issued \in Seq(Preview)
  BY DEF TypeOK, ToolsOK
<1>2. p \in Preview
  BY <1>1, LenProperties, ElementOfSeq
<1>3. Sound(p) /\ StillCurrent(p)
  BY DEF Commits
<1>4. PICK wrote \in MayWrite(p) : Changed(worker[w].preview, Call(w).kind, wrote, Deletes(p))
  BY DEF Commits
<1> HIDE DEF p
<1>5. DOMAIN p.changes \subseteq DOMAIN p.expected
  BY <1>2, PreviewShape
<1>6. wrote \in SUBSET DOMAIN p.expected /\ Deletes(p) \in SUBSET DOMAIN p.expected
  BY <1>5 DEF MayWrite, Deletes
<1>7. \A f \in Deletes(p) : p.expected[f] # Absent
  BY <1>3 DEF Sound, Deletes
<1>8. \E v \in SUBSET DOMAIN p.expected, gone \in SUBSET DOMAIN p.expected :
        /\ Changed(worker[w].preview, Call(w).kind, v, gone)
        /\ \A f \in gone : p.expected[f] # Absent
  BY <1>4, <1>6, <1>7
<1> QED BY <1>2, <1>3, <1>8 DEF p

\* Applying a preview: it takes effect if every file still has the revision it was made on.
LEMMA CommitsStep ==
  ASSUME TypeOK, Called, NEW w \in Worker, worker[w].preview \in DOMAIN issued, Commits(w)
  PROVE  /\ TypeOK' /\ Only(w)
         /\ worker'[w].at = "answer" /\ worker'[w].call = worker[w].call
         /\ worker'[w].preview = worker[w].preview /\ worker'[w].outcome = "applied"
<1> DEFINE p == issued[worker[w].preview]
<1>1. Call(w).kind \in Kind /\ worker[w].preview \in Nat
  BY CommitShape DEF Commits
<1>2. p \in Preview
  BY CommitPicks
<1>3. PICK wrote \in SUBSET DOMAIN p.expected, gone \in SUBSET DOMAIN p.expected :
        Changed(worker[w].preview, Call(w).kind, wrote, gone)
  BY CommitPicks
<1> HIDE DEF p
<1>4. wrote \in SUBSET Path /\ gone \in SUBSET Path
  BY <1>2, PreviewShape
<1>5. store' \in [Path -> Nat] /\ effects' \in Seq(Effect)
  BY <1>1, <1>3, <1>4, ChangedStep
<1>6. Ends(w, "applied") /\ "applied" \in Outcome
  BY DEF Commits, Outcome
<1>7. UNCHANGED <<inputVars, main, queue, issued, vault, outputVars, result>>
  BY DEF Commits
<1> QED BY <1>5, <1>6, <1>7, EndsStep

\* An application that changes nothing, be it that it fails or that all of it is done.
LEMMA RefusesStep ==
  ASSUME TypeOK, NEW w \in Worker, Settles(w) \/ CallFails(w)
  PROVE  /\ TypeOK' /\ Only(w)
         /\ worker'[w].at = "answer" /\ worker'[w].call = worker[w].call
         /\ worker'[w].preview = worker[w].preview
         /\ worker'[w].outcome \in {"applied", "failed"}
<1>1. store \in [Path -> Nat] /\ effects \in Seq(Effect)
  BY DEF TypeOK, ToolsOK
<1>2. UNCHANGED <<inputVars, main, queue, issued, vault, store, effects, outputVars, result>>
  BY DEF Settles, CallFails
<1>3. PICK outcome \in {"applied", "failed"} : Ends(w, outcome)
  BY DEF Settles, CallFails
<1>4. outcome \in Outcome
  BY DEF Outcome
<1> QED BY <1>1, <1>2, <1>3, <1>4, EndsStep

\* What others do to the files is one effect more.
LEMMA MeddlesStep ==
  ASSUME TypeOK, Meddles
  PROVE  /\ TypeOK'
         /\ \E wrote, gone \in SUBSET Path : Changed(Unknown, Nobody, wrote, gone)
<1>1. PICK other \in Others : Changed(Unknown, Nobody, other.written, other.deleted)
  BY DEF Meddles
<1>2. other.written \in SUBSET Path /\ other.deleted \in SUBSET Path
  BY SessionAssumption
<1>3. \E wrote, gone \in SUBSET Path : Changed(Unknown, Nobody, wrote, gone)
  BY <1>1, <1>2
<1>4. Unknown \in Nat /\ Nobody \in Kind \cup {Nobody}
  BY DEF Unknown
<1>5. store' \in [Path -> Nat] /\ effects' \in Seq(Effect)
  BY <1>1, <1>2, <1>4, ChangedStep
<1>6. ToolsOK'
  BY <1>5 DEF Meddles, TypeOK, ToolsOK
<1>7. TypeOK'
  BY <1>6, ToolStutter DEF Meddles, inputVars, outputVars
<1> QED BY <1>3, <1>7

\* Answering: the client may learn of a preview, and the worker waits for the next call.
LEMMA AnswersStep ==
  ASSUME TypeOK, Called, NEW w \in Worker, Answers(w)
  PROVE  /\ TypeOK' /\ Only(w)
         /\ worker'[w] = Idle
         /\ answers \in [DOMAIN asked -> Nat] /\ DOMAIN answers' = DOMAIN asked
<1>1. worker[w] \in Hand /\ worker \in [Worker -> Hand] /\ answers \in Seq(Nat)
      /\ Len(answers) = Len(asked) /\ asked \in Seq(Message) /\ shown \subseteq Nat
  BY DEF TypeOK, InputOK, ToolsOK, OutputOK
<1>2. worker[w].preview \in Nat
  BY <1>1 DEF Hand
<1>3. Idle \in Hand
  BY IdleHand
<1>4. worker' \in [Worker -> Hand] /\ Only(w) /\ worker'[w] = Idle
  BY <1>1, <1>3, HandSet DEF Answers
<1>5. shown' \subseteq Nat
  BY <1>1, <1>2 DEF Answers
<1>6. answers \in [1..Len(answers) -> Nat] /\ Len(answers) \in Nat /\ DOMAIN asked = 1..Len(asked)
  BY <1>1, LenProperties
<1>7. answers' = [answers EXCEPT ![worker[w].call] = @ + 1]
  BY DEF Answers
<1>8. \A i \in 1..Len(answers) : answers[i] + 1 \in Nat
  BY <1>6
<1>9. answers' \in [1..Len(answers) -> Nat]
  BY <1>6, <1>7, <1>8
<1>10. answers' \in Seq(Nat)
  BY <1>6, <1>9, SeqDef
<1>11. Len(answers') = Len(answers)
  BY <1>6, <1>9, <1>10, LenDomain
<1>12. OutputOK' /\ ToolsOK'
  BY <1>1, <1>4, <1>5, <1>10, <1>11 DEF Answers, TypeOK, OutputOK, ToolsOK, inputVars
<1>13. TypeOK'
  BY <1>12 DEF Answers, TypeOK, InputOK, inputVars
<1> QED BY <1>1, <1>4, <1>6, <1>9, <1>13

\* Every step of a worker keeps the types.
LEMMA TypeWorker ==
  ASSUME TypeOK, Called, EffectInv, NEW w \in Worker, WorkerNext(w)
  PROVE  TypeOK'
<1>1. CASE Leaves(w) \/ Previews(w) \/ Panics(w) \/ FailsUnheard(w) \/ AnswerFails(w)
  <2>1. {"gone", "panicked", "fail"} \subseteq Place
    BY DEF Place
  <2>2. CASE Previews(w)
    BY <2>2, PreviewsStep
  <2>3. CASE Leaves(w) \/ FailsUnheard(w)
    BY <2>1, <2>3, MovesStep DEF Leaves, FailsUnheard, outputVars
  <2>4. CASE Panics(w)
    BY <2>1, <2>4, MovesStep DEF Panics, outputVars
  <2>5. CASE AnswerFails(w)
    BY <2>1, <2>5, MovesStep DEF AnswerFails, WriteFails
  <2> QED BY <1>1, <2>2, <2>3, <2>4, <2>5
<1>2. CASE Commits(w)
  <2>1. worker[w].preview \in DOMAIN issued
    BY <1>2 DEF Commits, EffectInv, InHandInv
  <2> QED BY <1>2, <2>1, CommitsStep
<1> QED
  BY <1>1, <1>2, TakesStep, RemembersStep, AsksKindStep, GetsStep, RefusesStep, AnswersStep
  DEF WorkerNext

-----------------------------------------------------------------------------
(* Calls. *)

\* Nothing was asked when the session starts.
LEMMA CalledInit == Init => Called
<1> SUFFICES ASSUME Init PROVE Called
  OBVIOUS
<1>1. \A w \in Worker : HandOK(w)
  BY IdleHand DEF Init, HandOK, Busy, Doing
<1> QED BY <1>1 DEF Init, Called

\* What is known of the calls depends on the requests, the queue, the hands and the previews alone.
LEMMA CalledStutter ==
  ASSUME Called, UNCHANGED <<asked, queue, worker, issued, shown>>,
         reader'.event = "request" => reader.event = "request"
  PROVE  Called'
BY DEF Called, HandOK, Call

\* A frame more changes nothing about those that were read.
LEMMA ReadsFrameCalls == TypeOK /\ Called /\ ReadsFrame => Called'
<1> SUFFICES ASSUME TypeOK, Called, ReadsFrame PROVE Called'
  OBVIOUS
<1>1. PICK m \in Sendable : asked' = Append(asked, m)
  BY DEF ReadsFrame
<1>2. asked \in Seq(Message) /\ m \in Message
  <2>1. shown \cup {Unknown} \subseteq Nat
    BY DEF TypeOK, OutputOK, Unknown
  <2> QED BY <2>1 DEF Sendable, Message, TypeOK, InputOK
<1>3. /\ DOMAIN asked = 1..Len(asked) /\ Len(asked) \in Nat
      /\ asked' \in Seq(Message) /\ Len(asked') = Len(asked) + 1
      /\ \A i \in 1..Len(asked) : asked'[i] = asked[i]
      /\ asked'[Len(asked) + 1] = m
  <2> HIDE DEF Message
  <2> QED BY <1>1, <1>2, AppendProperties, LenProperties
<1>4. DOMAIN asked' = 1..Len(asked) + 1
  BY <1>3, LenProperties
<1>5. \A i \in DOMAIN asked : i \in DOMAIN asked' /\ asked'[i] = asked[i]
  BY <1>3, <1>4
<1>6. m.what = "apply" => m.id \in DOMAIN issued \cup {Unknown}
  BY DEF Sendable, Called, Other
<1>7. UNCHANGED <<queue, worker, issued, shown>>
  BY DEF ReadsFrame, toolVars
<1>8. \A w \in Worker : HandOK(w)'
  BY <1>5, <1>7 DEF Called, HandOK, Call, Busy
<1>9. asked' # <<>>
  BY <1>3, EmptySeq
<1>10. \A i \in DOMAIN asked' : 
         asked'[i].what = "apply" => asked'[i].id \in DOMAIN issued \cup {Unknown}
  BY <1>3, <1>4, <1>6 DEF Called
<1> QED BY <1>5, <1>7, <1>8, <1>9, <1>10 DEF Called

\* What the last message is.
LEMMA LastAsked ==
  ASSUME TypeOK, asked # <<>>
  PROVE  Len(asked) \in DOMAIN asked /\ Last(asked) = asked[Len(asked)]
<1>1. asked \in Seq(Message)
  BY DEF TypeOK, InputOK
<1>2. Len(asked) \in Nat /\ Len(asked) # 0 /\ DOMAIN asked = 1..Len(asked)
  BY <1>1, LenProperties, EmptySeq
<1> QED BY <1>2 DEF Last

\* A tool call that the main loop puts into the queue was read and is a tool call.
LEMMA ReceivesCallCalls == TypeOK /\ Called /\ ReceivesCall => Called'
<1> SUFFICES ASSUME TypeOK, Called, ReceivesCall PROVE Called'
  OBVIOUS
<1>1. queue \in Seq(Nat) /\ queue' = Append(queue, Len(asked)) /\ Len(asked) \in DOMAIN asked
      /\ IsToolCall(asked[Len(asked)])
  BY LastAsked DEF ReceivesCall, Queued, TypeOK, ToolsOK, Called
<1>2. UNCHANGED <<asked, worker, issued, shown>> /\ reader'.event = reader.event
  BY DEF ReceivesCall, toolVars, outputVars, Received, TypeOK, InputOK
<1>3. asked \in Seq(Message)
  BY DEF TypeOK, InputOK
<1>4. Len(asked) \in Nat
  BY <1>3, LenProperties
<1>5. \A j \in DOMAIN queue' : queue'[j] \in DOMAIN asked /\ IsToolCall(asked[queue'[j]])
  <2>1. /\ DOMAIN queue = 1..Len(queue) /\ Len(queue) \in Nat /\ DOMAIN queue' = 1..Len(queue) + 1
        /\ \A j \in 1..Len(queue) : queue'[j] = queue[j]
        /\ queue'[Len(queue) + 1] = Len(asked)
    BY <1>1, <1>4, AppendProperties, LenProperties
  <2> QED BY <1>1, <2>1 DEF Called
<1> QED BY <1>2, <1>5 DEF Called, HandOK, Call

\* Only the hand of the worker that moves has to be looked at.
LEMMA CalledOthers ==
  ASSUME Called, NEW w \in Worker, Only(w), asked' = asked, reader' = reader,
         DOMAIN issued \subseteq DOMAIN issued',
         \A j \in DOMAIN queue' : queue'[j] \in DOMAIN asked /\ IsToolCall(asked[queue'[j]]),
         shown' \subseteq DOMAIN issued', HandOK(w)'
  PROVE  Called'
<1>1. \A v \in Worker \ {w} : HandOK(v)'
  BY DEF Called, HandOK, Call, Only
<1> QED BY <1>1 DEF Called

\* A worker that moves on without another outcome.
LEMMA MovesCalls ==
  ASSUME Called, NEW w \in Worker, Only(w), UNCHANGED <<asked, reader, queue, issued, shown>>,
         worker'[w].call = worker[w].call, worker'[w].preview = worker[w].preview,
         worker'[w].outcome = worker[w].outcome,
         worker'[w].at \in Busy => worker[w].at \in Busy,
         worker'[w].at \in Doing => worker[w].at \in Doing,
         worker'[w].at # "take",
         worker'[w].at = "remember" => Call(w).what = "preview",
         worker'[w].at \in {"get", "commit"} => Call(w).what = "apply"
  PROVE  Called'
<1>1. HandOK(w)'
  BY DEF Called, HandOK, Call
<1> QED BY <1>1, CalledOthers DEF Called

\* A worker whose call went some way.
LEMMA EndsCalls ==
  ASSUME Called, NEW w \in Worker, Only(w), UNCHANGED <<asked, reader, queue, issued, shown>>,
         worker'[w].call = worker[w].call, worker[w].at \in Busy, worker'[w].at = "answer",
         worker'[w].outcome \in {"missing", "other kind", "applied", "failed"},
         Call(w).what = "apply"
  PROVE  Called'
<1>1. worker[w].call \in DOMAIN asked /\ IsToolCall(Call(w)) /\ Call(w)' = Call(w)
  BY DEF Called, HandOK, Call
<1>2. HandOK(w)'
  BY <1>1 DEF HandOK, Doing
<1> QED BY <1>2, CalledOthers DEF Called

\* Every step of a worker leaves its call what it was.
LEMMA CalledWorker ==
  ASSUME TypeOK, Called, EffectInv, NEW w \in Worker, WorkerNext(w)
  PROVE  Called'
<1>1. CASE Takes(w)
  <2>1. /\ Only(w) /\ worker'[w].at = "tool" /\ worker'[w].call = Head(queue)
        /\ worker'[w].outcome = "none" /\ queue # <<>> /\ queue' = Tail(queue)
    BY <1>1, TakesStep
  <2>2. queue \in Seq(Nat) /\ UNCHANGED <<asked, reader, issued, shown>>
    BY <1>1 DEF Takes, TypeOK, ToolsOK, inputVars, outputVars
  <2>3. Head(queue) \in DOMAIN asked /\ IsToolCall(asked[Head(queue)])
    <3>1. 1 \in DOMAIN queue /\ Head(queue) = queue[1]
      BY <2>1, <2>2, HeadTailProperties, LenProperties, EmptySeq
    <3> QED BY <3>1 DEF Called
  <2>4. \A j \in DOMAIN queue' : queue'[j] \in DOMAIN asked /\ IsToolCall(asked[queue'[j]])
    <3>1. \A j \in DOMAIN Tail(queue) : j + 1 \in DOMAIN queue /\ Tail(queue)[j] = queue[j + 1]
      BY <2>1, <2>2, HeadTailProperties, LenProperties, EmptySeq
    <3> QED BY <2>1, <3>1 DEF Called
  <2>5. HandOK(w)'
    BY <2>1, <2>2, <2>3 DEF HandOK, Call, Doing
  <2> QED BY <2>1, <2>2, <2>4, <2>5, CalledOthers DEF Called
<1>2. CASE Previews(w)
  <2>1. worker[w].at \in Busy /\ Call(w).what = "preview"
    BY <1>2 DEF Previews, Busy, Doing
  <2>2. UNCHANGED <<asked, reader, queue, issued, shown>>
    BY <1>2 DEF Previews, inputVars, outputVars
  <2>3. /\ Only(w) /\ worker'[w].at = "remember" /\ worker'[w].call = worker[w].call
        /\ worker'[w].preview = worker[w].preview /\ worker'[w].outcome = worker[w].outcome
    BY <1>2, PreviewsStep
  <2>4. worker[w].at \in Doing
    BY <1>2 DEF Previews, Doing
  <2> QED BY <2>1, <2>2, <2>3, <2>4, MovesCalls
<1>3. CASE Leaves(w) \/ FailsUnheard(w) \/ Panics(w) \/ AnswerFails(w)
  <2>1. /\ UNCHANGED <<inputVars, main, queue, issued, vault, store, effects, answers, shown,
                       result>>
        /\ pipe' \in {pipe, "broken"}
        /\ \E where \in {"gone", "panicked", "fail"} :
             
         Goes(w, where) /\ where \notin Doing /\ (where \in Busy => worker[w].at \in Busy)
    BY <1>3 DEF Leaves, FailsUnheard, Panics, AnswerFails, WriteFails, outputVars, Busy, Doing
  <2>2. {"gone", "panicked", "fail"} \subseteq Place
    BY DEF Place
  <2>3. PICK where \in {"gone", "panicked", "fail"} : 
         Goes(w, where) /\ where \notin Doing /\ (where \in Busy => worker[w].at \in Busy)
    BY <2>1
  <2>4. UNCHANGED <<asked, reader, queue, issued, shown>>
    BY <2>1 DEF inputVars
  <2>5. /\ Only(w) /\ worker'[w].at = where
        /\ worker'[w].call = worker[w].call
        /\ worker'[w].preview = worker[w].preview /\ worker'[w].outcome = worker[w].outcome
    BY <2>1, <2>2, <2>3, MovesStep
  <2> QED BY <2>3, <2>4, <2>5, MovesCalls
<1>4. CASE Remembers(w)
  <2>1. /\ Only(w)
        /\ worker'[w].at = "answer" /\ worker'[w].call = worker[w].call
        /\ worker'[w].preview = Len(issued) + 1 /\ worker'[w].outcome = "made"
        /\ Len(issued) \in Nat
        /\ DOMAIN issued = 1..Len(issued) /\ DOMAIN issued' = 1..Len(issued) + 1
    BY <1>4, RemembersStep
  <2>2. UNCHANGED <<asked, reader, queue, shown>> /\ worker[w].at \in Busy
    BY <1>4 DEF Remembers, inputVars, outputVars, Busy
  <2>3. worker[w].call \in DOMAIN asked /\ IsToolCall(Call(w)) /\ Call(w)' = Call(w)
    BY <2>1, <2>2 DEF Called, HandOK, Call
  <2>4. HandOK(w)'
    BY <2>1, <2>2, <2>3 DEF HandOK, Doing
  <2>5. DOMAIN issued \subseteq DOMAIN issued'
    BY <2>1
  <2> QED BY <2>1, <2>2, <2>4, <2>5, CalledOthers DEF Called
<1>5. CASE AsksKind(w)
  <2>1. /\ Call(w).what = "apply" /\ worker[w].at \in Busy
        /\ UNCHANGED <<asked, reader, queue, issued, shown>>
        /\ worker[w].at = "tool"
    BY <1>5 DEF AsksKind, Busy, inputVars, outputVars
  <2>2. CASE worker'[w].at = "answer"
    BY <1>5, <2>1, <2>2, AsksKindStep, EndsCalls
  <2>3. CASE worker'[w].at = "get"
    BY <1>5, <2>1, <2>3, AsksKindStep, MovesCalls DEF Doing
  <2> QED BY <1>5, <2>2, <2>3, AsksKindStep
<1>6. CASE Gets(w)
  <2>1. worker[w].at \in Busy /\ UNCHANGED <<asked, reader, queue, issued, shown>>
    BY <1>6 DEF Gets, Busy, inputVars, outputVars
  <2>2. CASE worker'[w].at = "answer"
    BY <1>6, <2>1, <2>2, GetsStep, EndsCalls
  <2>3. CASE worker'[w].at = "commit"
    <3>1. /\ Only(w) /\ worker'[w].call = worker[w].call /\ Call(w).what = "apply"
          /\ worker'[w].outcome = worker[w].outcome
      BY <1>6, <2>3, GetsStep
    <3>2. worker[w].outcome = "none"
      BY <1>6 DEF Gets, Called, HandOK, Doing
    <3>3. HandOK(w)'
      BY <2>1, <2>3, <3>1, <3>2 DEF Called, HandOK, Call, Doing
    <3> QED BY <2>1, <3>1, <3>3, CalledOthers DEF Called
  <2> QED BY <1>6, <2>2, <2>3, GetsStep
<1>7. CASE Commits(w) \/ Settles(w) \/ CallFails(w)
  <2>1. worker[w].at \in Busy /\ UNCHANGED <<asked, reader, queue, issued, shown>>
        /\ Call(w).what = "apply"
    BY <1>7 DEF Commits, Settles, CallFails, Busy, inputVars, outputVars, Called, HandOK
  <2>2. CASE Commits(w)
    <3>1. worker[w].preview \in DOMAIN issued
      BY <2>2 DEF Commits, EffectInv, InHandInv
    <3> QED BY <2>1, <2>2, <3>1, CommitsStep, EndsCalls
  <2>3. CASE Settles(w) \/ CallFails(w)
    BY <2>1, <2>3, RefusesStep, EndsCalls
  <2> QED BY <1>7, <2>2, <2>3
<1>8. CASE Answers(w)
  <2>1. Only(w) /\ worker'[w] = Idle /\ UNCHANGED <<asked, reader, queue, issued>>
    BY <1>8, AnswersStep DEF Answers, inputVars
  <2>2. shown' \subseteq DOMAIN issued
    BY <1>8 DEF Answers, Called, HandOK
  <2>3. HandOK(w)'
    BY <2>1, IdleHand DEF HandOK, Busy, Doing
  <2> QED BY <2>1, <2>2, <2>3, CalledOthers DEF Called
<1> QED BY <1>1, <1>2, <1>3, <1>4, <1>5, <1>6, <1>7, <1>8 DEF WorkerNext

\* The steps of the reader and of the main loop leave every call what it was.
LEMMA CalledInput == TypeOK /\ Called /\ (ReaderNext \/ MainNext) => Called'
<1> SUFFICES ASSUME TypeOK, Called, ReaderNext \/ MainNext PROVE Called'
  OBVIOUS
<1>1. CASE \/ ReaderStops \/ ReadsEnd \/ ReaderUnheard
           \/ ReceivesTooLate \/ ReceivesOther \/ ReceivesEnd
  <2>1. UNCHANGED <<asked, queue, worker, issued, shown>>
    BY <1>1
    DEF ReaderStops, ReadsEnd, ReaderUnheard, ReceivesTooLate, ReceivesOther, ReceivesEnd, toolVars,
        outputVars
  <2>2. reader'.event = "request" => reader.event = "request"
    <3>1. \A where \in {"read", "gone"} : [reader EXCEPT !.at = where].event = reader.event
      BY DEF TypeOK, InputOK
    <3>2. \/ \E where \in {"read", "gone"} : reader' = [reader EXCEPT !.at = where]
          \/ \E event \in {"finished", "failed"} : reader' = [at |-> "send", event |-> event]
      BY <1>1
      DEF ReaderStops, ReadsEnd, ReaderUnheard, ReceivesTooLate, ReceivesOther, ReceivesEnd,
          Received
    <3>3. CASE \E where \in {"read", "gone"} : reader' = [reader EXCEPT !.at = where]
      BY <3>1, <3>3
    <3>4. CASE \E event \in {"finished", "failed"} : reader' = [at |-> "send", event |-> event]
      BY <3>4
    <3> QED BY <3>2, <3>3, <3>4
  <2> QED BY <2>1, <2>2, CalledStutter
<1>2. CASE MainAnswers \/ MainFails \/ Stops \/ HangsUp \/ Joins
  BY <1>2, CalledStutter
  DEF MainAnswers, MainFails, Stops, HangsUp, Joins, Drained, inputVars, toolVars, outputVars
<1>3. ASSUME NEW w \in Worker, ReceivesFailure(w) PROVE Called'
  <2>1. Goes(w, "gone") /\ "gone" \in Place
    BY <1>3 DEF ReceivesFailure, Goes, Place
  <2>2. worker \in [Worker -> Hand] /\ UNCHANGED <<asked, reader, queue, issued, shown>>
    BY <1>3 DEF TypeOK, ToolsOK, ReceivesFailure, inputVars, outputVars
  <2>3. /\ Only(w) /\ worker'[w].at = "gone"
        /\ worker'[w].call = worker[w].call
        /\ worker'[w].preview = worker[w].preview /\ worker'[w].outcome = worker[w].outcome
    BY <2>1, <2>2, GoesType
  <2> QED BY <2>2, <2>3, MovesCalls DEF Busy, Doing
<1> QED
  BY <1>1, <1>2, <1>3, ReadsFrameCalls, ReceivesCallCalls DEF ReaderNext, MainNext

-----------------------------------------------------------------------------
(* The vault, and what took effect. *)

\* Every preview that was issued is one.
LEMMA IssuedShape ==
  ASSUME TypeOK
  PROVE  /\ Len(issued) \in Nat /\ DOMAIN issued = 1..Len(issued)
         /\ \A i \in DOMAIN issued : issued[i] \in Preview
<1>1. issued \in Seq(Preview)
  BY DEF TypeOK, ToolsOK
<1> QED BY <1>1, LenProperties, ElementOfSeq

\* Every effect is of files.
LEMMA EffectShape ==
  ASSUME TypeOK
  PROVE  /\ Len(effects) \in Nat /\ DOMAIN effects = 1..Len(effects)
         /\ \A i \in DOMAIN effects :
              /\ effects[i].id \in Nat
              /\ effects[i].written \subseteq Path /\ effects[i].deleted \subseteq Path
<1>1. effects \in Seq(Effect)
  BY DEF TypeOK, ToolsOK
<1>2. Len(effects) \in Nat /\ DOMAIN effects = 1..Len(effects)
      /\ \A i \in DOMAIN effects : effects[i] \in Effect
  BY <1>1, LenProperties, ElementOfSeq
<1> QED BY <1>2 DEF Effect

\* A preview that is not retained has left the vault long ago, or never was.
LEMMA GoneLongAgo ==
  ASSUME TypeOK, VaultInv, NEW id, id \in DOMAIN issued, ~ Retained(id)
  PROVE  id + PreviewLimit <= Len(issued)
<1>1. Len(issued) \in Nat /\ id \in 1..Len(issued) /\ PreviewLimit \in Nat
  BY IssuedShape, SessionAssumption
<1>2. id \notin Len(issued) - Kept + 1 .. Len(issued)
  BY DEF VaultInv, Retained
<1>3. CASE Len(issued) > PreviewLimit
  BY <1>1, <1>2, <1>3 DEF Kept
<1>4. CASE ~ (Len(issued) > PreviewLimit)
  <2>1. Len(issued) - Kept + 1 = 1
    BY <1>1, <1>4 DEF Kept
  <2> QED BY <1>1, <1>2, <2>1
<1> QED BY <1>3, <1>4

\* What the vault retains was issued.
LEMMA RetainedIssued ==
  ASSUME TypeOK, VaultInv, NEW id, Retained(id)
  PROVE  id \in DOMAIN issued
<1>1. Len(issued) \in Nat /\ DOMAIN issued = 1..Len(issued) /\ PreviewLimit \in Nat
  BY IssuedShape, SessionAssumption
<1>2. id \in Len(issued) - Kept + 1 .. Len(issued)
  BY DEF VaultInv, Retained
<1> QED BY <1>1, <1>2 DEF Kept

\* The vault has the last previews after one more as it had before.
LEMMA VaultStep ==
  ASSUME TypeOK, VaultInv, vault' = Remembered(Len(issued) + 1), Len(issued') = Len(issued) + 1
  PROVE  VaultInv'
<1> DEFINE n == Len(issued)
           m == Kept
           k == Kept'
           last == Len(issued')
           order == Append(vault.order, n + 1)
           over == IF Len(order) > PreviewLimit THEN Len(order) - PreviewLimit ELSE 0
           kept == SubSeq(order, over + 1, Len(order))
<1>0. /\ n \in Nat /\ PreviewLimit \in Nat /\ PreviewLimit # 0
      /\ m = IF n > PreviewLimit THEN PreviewLimit ELSE n
      /\ k = IF n + 1 > PreviewLimit THEN PreviewLimit ELSE n + 1
      /\ vault.order = [i \in 1..m |-> n - m + i]
  BY IssuedShape, SessionAssumption DEF Kept, VaultInv
<1>l. last = n + 1 /\ n + 1 \in Nat
  BY <1>0
<1>n. VaultInv' <=> /\ vault'.order = [i \in 1..k |-> last - k + i]
                    /\ vault'.ids = last - k + 1 .. last
  BY DEF VaultInv
<1>v. vault' = Remembered(n + 1)
  OBVIOUS
<1> HIDE DEF n, m, k, last
<1>1. /\ vault.order \in [1..m -> Nat] /\ m \in Nat /\ k \in Nat /\ m <= n
      /\ \A i \in 1..m : vault.order[i] = n - m + i
  BY <1>0
<1>2. vault.order \in Seq(Nat)
  BY <1>1, SeqDef
<1>3. Len(vault.order) = m
  BY <1>1, <1>2, LenDomain
<1>4. /\ order \in Seq(Nat) /\ Len(order) = m + 1
      /\ \A i \in 1..m : order[i] = n - m + i
      /\ order[m + 1] = n + 1
  <2>1. /\ order \in Seq(Nat) /\ Len(order) = Len(vault.order) + 1
        /\ \A i \in 1..Len(vault.order) : order[i] = vault.order[i]
        /\ order[Len(vault.order) + 1] = n + 1
    BY <1>l, <1>2, AppendProperties
  <2> HIDE DEF order
  <2> QED BY <1>1, <1>3, <2>1
<1> HIDE DEF order
<1>5. ASSUME NEW i \in 1..m + 1 PROVE order[i] = n - m + i
  <2>1. i \in 1..m \/ i = m + 1
    BY <1>1
  <2>2. n - m + (m + 1) = n + 1
    BY <1>0, <1>1
  <2> QED BY <1>4, <2>1, <2>2
<1>6. over \in Nat /\ over = m + 1 - k /\ over <= m + 1 /\ k <= m + 1
  BY <1>0, <1>1, <1>4
<1> HIDE DEF over
<1>7. /\ kept \in Seq(Nat) /\ Len(kept) = k
      /\ \A i \in 1..k : kept[i] = order[over + i]
  <2>1. \A i \in over + 1..Len(order) : order[i] \in Nat
    BY <1>4, <1>6, ElementOfSeq
  <2>2. over + 1 \in Int /\ Len(order) \in Int
    BY <1>4, <1>6
  <2>3. /\ kept \in Seq(Nat)
        /\ Len(kept) = IF over + 1 <= Len(order) THEN Len(order) - (over + 1) + 1 ELSE 0
        /\ \A i \in 1..Len(order) - (over + 1) + 1 : kept[i] = order[over + 1 + i - 1]
    BY <2>1, <2>2, SubSeqProperties
  <2>4. Len(order) - (over + 1) + 1 = k
    BY <1>1, <1>4, <1>6
  <2>5. \A i \in 1..k : over + 1 + i - 1 = over + i
    BY <1>6
  <2> HIDE DEF kept
  <2>6. Len(kept) = k
    BY <1>4, <1>6, <2>3, <2>4
  <2> QED BY <2>3, <2>4, <2>5, <2>6
<1>8. \A i \in 1..k : kept[i] = n + 1 - k + i
  <2> SUFFICES ASSUME NEW i \in 1..k PROVE kept[i] = n + 1 - k + i
    OBVIOUS
  <2>1. over + i \in 1..m + 1 /\ n - m + (over + i) = n + 1 - k + i
    BY <1>0, <1>1, <1>6
  <2>2. order[over + i] = n - m + (over + i)
    BY <1>5, <2>1
  <2> HIDE DEF kept
  <2>3. kept[i] = order[over + i]
    BY <1>7
  <2> QED BY <2>1, <2>2, <2>3
<1>9. kept \in [1..k -> Nat]
  BY <1>7, LenProperties
<1> HIDE DEF kept
<1>10. kept = [i \in 1..k |-> last - k + i]
  <2>1. \A i \in 1..k : kept[i] = last - k + i
    BY <1>l, <1>0, <1>1, <1>8
  <2> QED BY <1>9, <2>1
<1>11. k <= n + 1
  BY <1>0, <1>1, <1>6
<1>12. Range(kept) = last - k + 1 .. last
  <2>1. \A i \in 1..k : kept[i] \in n + 1 - k + 1 .. n + 1
    BY <1>0, <1>1, <1>8, <1>11
  <2>2. \A x \in n + 1 - k + 1 .. n + 1 : x - (n + 1 - k) \in 1..k /\ kept[x - (n + 1 - k)] = x
    <3> SUFFICES ASSUME NEW x \in n + 1 - k + 1 .. n + 1
                 PROVE  x - (n + 1 - k) \in 1..k /\ kept[x - (n + 1 - k)] = x
      OBVIOUS
    <3>1. x - (n + 1 - k) \in 1..k /\ n + 1 - k + (x - (n + 1 - k)) = x
      BY <1>0, <1>1, <1>11
    <3> QED BY <1>8, <3>1
  <2>3. DOMAIN kept = 1..k
    BY <1>9
  <2>4. \A x : x \in Range(kept) <=> \E i \in 1..k : kept[i] = x
    BY <2>3 DEF Range
  <2>5. \A x \in last - k + 1 .. last : x \in Range(kept)
    BY <1>l, <1>0, <1>1, <2>2, <2>4
  <2>6. \A x \in Range(kept) : x \in last - k + 1 .. last
    BY <1>l, <1>0, <1>1, <2>1, <2>4
  <2> QED BY <2>5, <2>6
<1>13. Remembered(n + 1) = [order |-> kept, ids |-> Range(kept)]
  BY DEF Remembered, kept, over, order
<1>14. Remembered(n + 1).order = kept /\ Remembered(n + 1).ids = Range(kept)
  BY <1>13
<1> QED BY <1>n, <1>v, <1>10, <1>12, <1>14

\* Nothing is in the vault and nothing took effect when the session starts.
LEMMA EffectInit == Init => EffectInv
<1> SUFFICES ASSUME Init PROVE EffectInv
  OBVIOUS
<1>1. issued = <<>> /\ vault = [order |-> <<>>, ids |-> {}] /\ Len(issued) = 0
  BY EmptySeq DEF Init
<1>2. Kept = 0
  BY <1>1, SessionAssumption DEF Kept
<1>3. VaultInv
  BY <1>1, <1>2 DEF VaultInv
<1>4. InHandInv /\ RefusedOnlyIfEvicted
  BY IdleHand DEF Init, InHandInv, RefusedOnlyIfEvicted
<1>5. /\ DOMAIN effects = {1} /\ Len(effects) = 1
      /\ effects[1].id = Unknown /\ effects[1].written = Initial /\ effects[1].deleted = {}
  BY DEF Init
<1>6. \A f \in Path : store[f] = IF f \in Initial THEN 1 ELSE Absent
  BY DEF Init
<1>7. RevInv
  BY <1>5, <1>6 DEF RevInv, Absent
<1>8. LastingInv
  BY <1>5, <1>6, SessionAssumption DEF LastingInv, Lasting
<1>9. SpentInv /\ TakesEffectOnce
  BY <1>5 DEF SpentInv, Spent, TakesEffectOnce
<1> QED BY <1>3, <1>4, <1>7, <1>8, <1>9 DEF EffectInv

\* What is known of the files and their changes is about these and the previews alone.
LEMMA FilesStutter ==
  ASSUME EffectInv, UNCHANGED <<issued, store, effects>>
  PROVE  RevInv' /\ LastingInv' /\ SpentInv' /\ TakesEffectOnce'
<1>1. RevInv'
  BY DEF EffectInv, RevInv
<1>2. LastingInv'
  BY DEF EffectInv, LastingInv, Lasting, GoneAfter
<1>3. SpentInv'
  BY DEF EffectInv, SpentInv, Spent
<1>4. TakesEffectOnce'
  BY DEF EffectInv, TakesEffectOnce
<1> QED BY <1>1, <1>2, <1>3, <1>4

\* Whatever leaves the previews, the effects and the calls of the workers that act on them alone.
LEMMA EffectStutter ==
  ASSUME EffectInv, UNCHANGED <<issued, vault, store, effects>>,
         \A w \in Worker : worker'[w].at = "commit" =>
           worker[w].at = "commit" /\ worker'[w].preview = worker[w].preview /\ Call(w)' = Call(w),
         \A w \in Worker : worker'[w].outcome = "missing" =>
           worker[w].outcome = "missing" /\ Call(w)' = Call(w)
  PROVE  EffectInv'
<1>1. VaultInv'
  BY DEF EffectInv, VaultInv, Kept
<1>2. InHandInv'
  BY DEF EffectInv, InHandInv
<1>3. RevInv' /\ LastingInv' /\ SpentInv' /\ TakesEffectOnce'
  BY FilesStutter
<1>4. RefusedOnlyIfEvicted'
  BY DEF EffectInv, RefusedOnlyIfEvicted
<1> QED BY <1>1, <1>2, <1>3, <1>4 DEF EffectInv

\* The calls of workers that hold a preview, or were refused one, are old.
LEMMA EffectInput ==
  ASSUME TypeOK, Called, EffectInv, ReaderNext \/ MainNext
  PROVE  EffectInv'
<1>1. UNCHANGED <<issued, vault, store, effects>>
  BY DEF ReaderNext, ReaderStops, ReadsFrame, ReadsEnd, ReaderUnheard, MainNext, ReceivesTooLate,
         ReceivesCall, ReceivesOther, ReceivesEnd, ReceivesFailure, MainAnswers, MainFails, Stops,
         HangsUp, Joins, toolVars
<1>2. ASSUME UNCHANGED worker, \A i \in DOMAIN asked : asked'[i] = asked[i] PROVE EffectInv'
  <2>1. \A w \in Worker :
          worker[w].at = "commit" \/ worker[w].outcome = "missing" => Call(w)' = Call(w)
    BY <1>2 DEF Called, HandOK, Call, Busy
  <2> QED BY <1>1, <1>2, <2>1, EffectStutter
<1>3. CASE ReadsFrame
  <2>1. asked \in Seq(Message) /\ \E m \in Message : asked' = Append(asked, m)
    <3>1. shown \cup {Unknown} \subseteq Nat
      BY DEF TypeOK, OutputOK, Unknown
    <3> QED BY <1>3, <3>1 DEF ReadsFrame, Sendable, Message, TypeOK, InputOK
  <2>2. \A i \in DOMAIN asked : asked'[i] = asked[i]
    <3> HIDE DEF Message
    <3> QED BY <2>1, AppendProperties, LenProperties
  <2> QED BY <1>2, <1>3, <2>2 DEF ReadsFrame, toolVars
<1>4. ASSUME NEW w \in Worker, ReceivesFailure(w) PROVE EffectInv'
  <2>1. Goes(w, "gone") /\ "gone" \in Place /\ worker \in [Worker -> Hand] /\ asked' = asked
    BY <1>4 DEF ReceivesFailure, Goes, Place, TypeOK, ToolsOK, inputVars
  <2>2. /\ Only(w) /\ worker'[w].at = "gone"
        /\ worker'[w].call = worker[w].call
        /\ worker'[w].preview = worker[w].preview /\ worker'[w].outcome = worker[w].outcome
    BY <2>1, GoesType
  <2> QED BY <1>1, <2>1, <2>2, EffectStutter DEF Only, Call
<1>5. UNCHANGED <<worker, asked>> \/ ReadsFrame \/ \E w \in Worker : ReceivesFailure(w)
  BY DEF ReaderNext, ReaderStops, ReadsEnd, ReaderUnheard, MainNext, ReceivesTooLate,
         ReceivesCall, ReceivesOther, ReceivesEnd, MainAnswers, MainFails, Stops,
         HangsUp, Joins, toolVars, inputVars
<1> QED BY <1>2, <1>3, <1>4, <1>5

\* A worker whose step leaves the vault and the store alone, and that neither reaches for a
\* preview nor is refused one.
LEMMA EffectMoves ==
  ASSUME EffectInv, NEW w \in Worker, Only(w), UNCHANGED <<asked, issued, vault, store, effects>>,
         worker'[w].at # "commit",
         worker'[w].outcome = "missing" =>
           worker[w].outcome = "missing" /\ worker'[w].call = worker[w].call
  PROVE  EffectInv'
BY EffectStutter DEF Only, Call

\* A worker that is refused a preview.
LEMMA EffectRefused ==
  ASSUME TypeOK, Called, EffectInv, NEW w \in Worker, Only(w),
         UNCHANGED <<asked, issued, vault, store, effects>>,
         worker'[w].call = worker[w].call, worker'[w].at # "commit", worker[w].at \in Busy,
         Call(w).what = "apply", ~ Retained(Call(w).id)
  PROVE  EffectInv'
<1>1. Call(w)' = Call(w) /\ \A v \in Worker \ {w} : Call(v)' = Call(v)
  BY DEF Only, Call
<1>2. Call(w).id # Unknown => Call(w).id + PreviewLimit <= Len(issued)
  <2>1. Call(w).id \in DOMAIN issued \cup {Unknown}
    BY DEF Called, HandOK, Call
  <2> QED BY <2>1, GoneLongAgo DEF EffectInv
<1>3. RefusedOnlyIfEvicted'
  BY <1>1, <1>2 DEF EffectInv, RefusedOnlyIfEvicted, Only
<1>4. VaultInv'
  BY DEF EffectInv, VaultInv, Kept
<1>5. InHandInv'
  BY <1>1 DEF EffectInv, InHandInv, Only
<1>6. RevInv' /\ LastingInv' /\ SpentInv' /\ TakesEffectOnce'
  BY FilesStutter
<1> QED BY <1>3, <1>4, <1>5, <1>6 DEF EffectInv

\* A preview more changes nothing about the others.
LEMMA EffectRemembers ==
  ASSUME TypeOK, Called, EffectInv, NEW w \in Worker, Remembers(w)
  PROVE  EffectInv'
<1>1. /\ Only(w)
      /\ worker'[w].at = "answer" /\ worker'[w].call = worker[w].call /\ worker'[w].outcome = "made"
      /\ Len(issued) \in Nat /\ Len(issued') = Len(issued) + 1
      /\ DOMAIN issued = 1..Len(issued) /\ DOMAIN issued' = 1..Len(issued) + 1
      /\ \A i \in DOMAIN issued : issued'[i] = issued[i]
  BY RemembersStep
<1>2. UNCHANGED <<asked, store, effects>> /\ vault' = Remembered(Len(issued) + 1)
  BY DEF Remembers, inputVars
<1>3. VaultInv'
  BY <1>1, <1>2, VaultStep DEF EffectInv
<1>4. \A v \in Worker \ {w} : Call(v)' = Call(v)
  BY <1>1, <1>2 DEF Only, Call
<1>5. InHandInv'
  BY <1>1, <1>4 DEF EffectInv, InHandInv, Only
<1>6. RevInv' /\ LastingInv' /\ SpentInv' /\ TakesEffectOnce'
  <2>1. RevInv' /\ LastingInv'
    BY <1>2 DEF EffectInv, RevInv, LastingInv, Lasting, GoneAfter
  <2>2. SpentInv'
    BY <1>1, <1>2 DEF EffectInv, SpentInv, Spent
  <2>3. \A i \in DOMAIN effects :
          effects[i].id # Unknown =>
            effects[i].id \in DOMAIN issued /\ issued'[effects[i].id] = issued[effects[i].id]
    BY <1>1 DEF EffectInv, SpentInv, Spent
  <2>4. TakesEffectOnce'
    BY <1>2, <2>3 DEF EffectInv, TakesEffectOnce
  <2> QED BY <2>1, <2>2, <2>4
<1>7. RefusedOnlyIfEvicted'
  <2> SUFFICES ASSUME NEW v \in Worker, worker'[v].outcome = "missing", Call(v)'.id # Unknown
               PROVE  Call(v)'.id + PreviewLimit <= Len(issued')
    BY DEF RefusedOnlyIfEvicted
  <2>1. v # w /\ Call(v)' = Call(v) /\ worker'[v] = worker[v]
    BY <1>1, <1>4 DEF Only
  <2>2. Call(v).id + PreviewLimit <= Len(issued)
    BY <2>1 DEF EffectInv, RefusedOnlyIfEvicted
  <2>3. Call(v).id \in Nat /\ PreviewLimit \in Nat
    <3>1. Call(v).what = "apply" /\ worker[v].call \in DOMAIN asked
      BY <2>1 DEF Called, HandOK
    <3>2. asked \in Seq(Message)
      BY DEF TypeOK, InputOK
    <3>3. Call(v) \in Message
      BY <3>1, <3>2, LenProperties, ElementOfSeq DEF Call
    <3> QED BY <3>1, <3>3, MessageShape, SessionAssumption
  <2> QED BY <1>1, <2>1, <2>2, <2>3
<1> QED BY <1>3, <1>5, <1>6, <1>7 DEF EffectInv

\* One change more leaves what the others left, or replaces or deletes it.
LEMMA ChangedKeeps ==
  ASSUME TypeOK, RevInv, LastingInv, NEW id \in Nat, NEW tool \in Kind \cup {Nobody},
         NEW wrote \in SUBSET Path, NEW gone \in SUBSET Path, Changed(id, tool, wrote, gone)
  PROVE  RevInv' /\ LastingInv'
<1> DEFINE n == Len(effects)
<1>1. /\ n \in Nat /\ Len(effects') = n + 1
      /\ DOMAIN effects = 1..n /\ DOMAIN effects' = 1..n + 1
      /\ \A i \in DOMAIN effects : effects'[i] = effects[i]
      /\ effects'[n + 1].written = wrote /\ effects'[n + 1].deleted = gone
      /\ \A f \in Path : store'[f] = IF f \in wrote THEN n + 1
                                    ELSE IF f \in gone THEN Absent ELSE store[f]
  BY ChangedStep
<1>2. \A f \in Path : store[f] \in Nat
  BY DEF TypeOK, ToolsOK
<1>3. \A i \in DOMAIN effects : effects[i].written \subseteq Path /\ effects[i].deleted \subseteq Path
  BY EffectShape
<1> HIDE DEF n
<1>4. RevInv'
  <2> SUFFICES ASSUME NEW f \in Path PROVE store'[f] <= n + 1
    BY <1>1 DEF RevInv
  <2>1. store[f] <= n
    BY DEF RevInv, n
  <2> QED BY <1>1, <1>2, <2>1 DEF Absent
<1>5. ASSUME NEW i \in DOMAIN effects PROVE Lasting(i)'
  <2>1. effects'[i] = effects[i] /\ i \in 1..n /\ Lasting(i)
    BY <1>1 DEF LastingInv
  <2>2. \A f : GoneAfter(f, i) => GoneAfter(f, i)'
    BY <1>1 DEF GoneAfter
  <2>3. \A f \in gone : GoneAfter(f, i)'
    BY <1>1, <2>1 DEF GoneAfter
  <2>4. ASSUME NEW f \in effects[i].written
        PROVE  store'[f] >= i \/ (store'[f] = Absent /\ GoneAfter(f, i)')
    <3>1. f \in Path /\ store[f] \in Nat
      BY <1>2, <1>3
    <3>2. store[f] >= i \/ (store[f] = Absent /\ GoneAfter(f, i))
      BY <2>1 DEF Lasting
    <3>3. CASE f \in wrote
      BY <1>1, <2>1, <3>1, <3>3
    <3>4. CASE f \notin wrote /\ f \in gone
      BY <1>1, <2>3, <3>1, <3>4
    <3>5. CASE f \notin wrote /\ f \notin gone
      <4>1. store'[f] = store[f]
        BY <1>1, <3>1, <3>5
      <4> QED BY <2>2, <3>2, <4>1
    <3> QED BY <3>3, <3>4, <3>5
  <2>5. ASSUME NEW f \in effects[i].deleted PROVE store'[f] >= i \/ store'[f] = Absent
    <3>1. f \in Path /\ store[f] \in Nat
      BY <1>2, <1>3
    <3>2. store[f] >= i \/ store[f] = Absent
      BY <2>1 DEF Lasting
    <3> QED BY <1>1, <2>1, <3>1, <3>2
  <2> QED BY <2>1, <2>4, <2>5 DEF Lasting
<1>6. ASSUME NEW i \in DOMAIN effects', i = n + 1 PROVE Lasting(i)'
  <2>1. effects'[i].written = wrote /\ effects'[i].deleted = gone
    BY <1>1, <1>6
  <2>2. \A f \in wrote : store'[f] = i
    BY <1>1, <1>6
  <2>3. \A f \in gone : store'[f] = i \/ store'[f] = Absent
    BY <1>1, <1>6
  <2>4. i >= i
    BY <1>1, <1>6
  <2> QED BY <2>1, <2>2, <2>3, <2>4 DEF Lasting
<1>7. \A i \in DOMAIN effects' : i \in DOMAIN effects \/ i = n + 1
  BY <1>1
<1>8. LastingInv'
  <2>1. ASSUME NEW i \in DOMAIN effects' PROVE Lasting(i)'
    BY <1>5, <1>6, <1>7
  <2> QED BY <2>1 DEF LastingInv
<1> QED BY <1>4, <1>8

\* A change that was made without a preview is none of a preview's effects.
LEMMA EffectMeddles ==
  ASSUME TypeOK, Called, EffectInv, Meddles
  PROVE  EffectInv'
<1>1. PICK wrote \in SUBSET Path, gone \in SUBSET Path : Changed(Unknown, Nobody, wrote, gone)
  BY MeddlesStep
<1>2. Unknown \in Nat /\ Nobody \in Kind \cup {Nobody}
  BY DEF Unknown
<1>3. /\ DOMAIN effects = 1..Len(effects) /\ DOMAIN effects' = 1..Len(effects) + 1
      /\ Len(effects) \in Nat
      /\ \A i \in DOMAIN effects : effects'[i] = effects[i]
      /\ effects'[Len(effects) + 1].id = Unknown
  BY <1>1, <1>2, ChangedStep
<1>4. UNCHANGED <<asked, worker, issued, vault>>
  BY DEF Meddles, inputVars
<1>5. RevInv' /\ LastingInv'
  BY <1>1, <1>2, ChangedKeeps DEF EffectInv
<1>6. \A i \in DOMAIN effects' : effects'[i].id # Unknown => i \in DOMAIN effects
  BY <1>3
<1>7. SpentInv'
  BY <1>3, <1>4, <1>6 DEF EffectInv, SpentInv, Spent
<1>8. TakesEffectOnce'
  <2>1. ASSUME NEW i \in DOMAIN effects', NEW j \in DOMAIN effects', i < j,
               effects'[i].id = effects'[j].id, effects'[i].id # Unknown,
               NEW f \in effects'[i].written \cup effects'[i].deleted
        PROVE  /\ issued'[effects'[i].id].expected[f] = Absent
               /\ \E k \in i + 1 .. j - 1 : f \in effects'[k].deleted
    <3>1. i \in DOMAIN effects /\ j \in DOMAIN effects
      BY <1>6, <2>1
    <3>2. /\ issued[effects[i].id].expected[f] = Absent
          /\ \E k \in i + 1 .. j - 1 : f \in effects[k].deleted
      BY <1>3, <2>1, <3>1 DEF EffectInv, TakesEffectOnce
    <3>3. \A k \in i + 1 .. j - 1 : k \in DOMAIN effects
      BY <1>3, <3>1
    <3> QED BY <1>3, <1>4, <3>1, <3>2, <3>3
  <2>2. \A i \in DOMAIN effects' :
          effects'[i].id # Unknown => issued'[effects'[i].id].kind = effects'[i].tool
    BY <1>7 DEF SpentInv, Spent
  <2> QED BY <2>1, <2>2 DEF TakesEffectOnce
<1>9. VaultInv' /\ InHandInv' /\ RefusedOnlyIfEvicted'
  BY <1>4 DEF EffectInv, VaultInv, Kept, InHandInv, RefusedOnlyIfEvicted, Call
<1> QED BY <1>5, <1>7, <1>8, <1>9 DEF EffectInv

\* A preview that takes effect is current: what it did before, if it did, somebody has undone.
LEMMA EffectCommits ==
  ASSUME TypeOK, Called, EffectInv, NEW w \in Worker, Commits(w)
  PROVE  EffectInv'
<1> DEFINE id == worker[w].preview
           p == issued[id]
           n == Len(effects)
<1>1. id \in DOMAIN issued /\ p.kind = Call(w).kind
  BY DEF EffectInv, InHandInv, Commits
<1>2. Only(w) /\ worker'[w].at = "answer" /\ worker'[w].outcome = "applied"
      /\ worker'[w].call = worker[w].call
  BY <1>1, CommitsStep
<1>3. UNCHANGED <<asked, issued, vault>>
  BY DEF Commits, inputVars
<1>4. StillCurrent(p) /\ p \in Preview
  BY <1>1, CommitPicks
<1>5. PICK wrote \in SUBSET DOMAIN p.expected, gone \in SUBSET DOMAIN p.expected :
        /\ Changed(id, Call(w).kind, wrote, gone)
        /\ \A f \in gone : p.expected[f] # Absent
  BY <1>1, CommitPicks
<1>6. id \in Nat /\ id # Unknown /\ Call(w).kind \in Kind
  <2>1. id \in 1..Len(issued) /\ Len(issued) \in Nat
    BY <1>1, IssuedShape
  <2> QED BY <2>1, CommitShape DEF Commits, Unknown
<1> HIDE DEF p
<1>7. /\ wrote \in SUBSET Path /\ gone \in SUBSET Path
      /\ \A f \in DOMAIN p.expected : f \in Path /\ p.expected[f] \in Nat
  BY <1>4, PreviewShape
<1> HIDE DEF id
<1>8. /\ n \in Nat /\ DOMAIN effects = 1..n /\ DOMAIN effects' = 1..n + 1
      /\ \A i \in DOMAIN effects : effects'[i] = effects[i]
      /\ effects'[n + 1].id = id /\ effects'[n + 1].tool = Call(w).kind
      /\ effects'[n + 1].written = wrote /\ effects'[n + 1].deleted = gone
  <2>1. PICK tool \in Kind \cup {Nobody} : tool = Call(w).kind
    BY <1>6
  <2>2. PICK one \in Nat : one = id
    BY <1>6
  <2>3. Changed(one, tool, wrote, gone)
    BY <1>5, <2>1, <2>2
  <2>4. wrote \in SUBSET Path /\ gone \in SUBSET Path
    BY <1>7
  <2> HIDE DEF n
  <2>5. /\ Len(effects) \in Nat
        /\ DOMAIN effects = 1..Len(effects) /\ DOMAIN effects' = 1..Len(effects) + 1
        /\ \A i \in DOMAIN effects : effects'[i] = effects[i]
        /\ effects'[Len(effects) + 1].id = one /\ effects'[Len(effects) + 1].tool = tool
        /\ effects'[Len(effects) + 1].written = wrote
        /\ effects'[Len(effects) + 1].deleted = gone
    BY <2>3, <2>4, ChangedStep
  <2> QED BY <2>1, <2>2, <2>5 DEF n
<1>9. RevInv' /\ LastingInv'
  BY <1>5, <1>6, <1>7, ChangedKeeps DEF EffectInv
<1>10. \A f \in DOMAIN p.expected : store[f] = p.expected[f] /\ p.expected[f] < n + 1
  <2> SUFFICES ASSUME NEW f \in DOMAIN p.expected
               PROVE  store[f] = p.expected[f] /\ p.expected[f] < n + 1
    OBVIOUS
  <2>1. store[f] = p.expected[f]
    BY <1>4 DEF StillCurrent
  <2>2. store[f] <= n
    BY <1>7 DEF EffectInv, RevInv
  <2> QED BY <1>7, <1>8, <2>1, <2>2
<1> HIDE DEF n
<1>11. \A i \in DOMAIN effects' : i \in DOMAIN effects \/ i = n + 1
  BY <1>8
<1>12. SpentInv'
  <2>1. ASSUME NEW i \in DOMAIN effects PROVE Spent(i)'
    BY <1>3, <1>8 DEF EffectInv, SpentInv, Spent
  <2>2. ASSUME NEW i \in DOMAIN effects', i = n + 1 PROVE Spent(i)'
    <3>1. /\ effects'[i].id = id /\ effects'[i].tool = Call(w).kind
          /\ effects'[i].written = wrote /\ effects'[i].deleted = gone
      BY <1>8, <2>2
    <3>2. \A f \in wrote \cup gone : f \in DOMAIN p.expected /\ p.expected[f] < i
      BY <1>5, <1>10, <2>2
    <3> QED BY <1>1, <1>3, <1>5, <3>1, <3>2 DEF Spent, p
  <2>3. ASSUME NEW i \in DOMAIN effects' PROVE Spent(i)'
    BY <1>11, <2>1, <2>2
  <2> QED BY <2>3 DEF SpentInv
<1>13. ASSUME NEW i \in DOMAIN effects, effects[i].id = id,
              NEW f \in effects[i].written \cup effects[i].deleted
       PROVE  p.expected[f] = Absent /\ \E k \in i + 1 .. n : f \in effects[k].deleted
  <2>1. f \in DOMAIN p.expected /\ p.expected[f] < i
        /\ (f \in effects[i].deleted => p.expected[f] # Absent)
    BY <1>6, <1>13 DEF EffectInv, SpentInv, Spent, p
  <2>2. store[f] = p.expected[f] /\ p.expected[f] \in Nat /\ i \in Nat
    BY <1>7, <1>8, <1>10, <2>1
  <2>3. ~ (store[f] >= i)
    BY <2>1, <2>2
  <2>4. Lasting(i)
    BY DEF EffectInv, LastingInv
  <2>5. f \notin effects[i].deleted
    BY <2>1, <2>2, <2>3, <2>4 DEF Lasting
  <2>6. store[f] = Absent /\ GoneAfter(f, i)
    BY <1>13, <2>3, <2>4, <2>5 DEF Lasting
  <2>7. PICK k \in DOMAIN effects : k > i /\ f \in effects[k].deleted
    BY <2>6 DEF GoneAfter
  <2>8. k \in i + 1 .. n
    BY <1>8, <2>2, <2>7
  <2> QED BY <2>2, <2>6, <2>7, <2>8
<1>14. TakesEffectOnce'
  <2>1. ASSUME NEW i \in DOMAIN effects', NEW j \in DOMAIN effects', i < j,
               effects'[i].id = effects'[j].id, effects'[i].id # Unknown,
               NEW f \in effects'[i].written \cup effects'[i].deleted
        PROVE  /\ issued'[effects'[i].id].expected[f] = Absent
               /\ \E k \in i + 1 .. j - 1 : f \in effects'[k].deleted
    <3>1. i \in DOMAIN effects /\ effects'[i] = effects[i]
      BY <1>8, <2>1
    <3>2. \A k \in i + 1 .. j - 1 : k \in DOMAIN effects /\ effects'[k] = effects[k]
      BY <1>8, <3>1
    <3>3. CASE j \in DOMAIN effects
      <4>1. effects'[j] = effects[j]
        BY <1>8, <3>3
      <4>2. /\ issued[effects[i].id].expected[f] = Absent
            /\ \E k \in i + 1 .. j - 1 : f \in effects[k].deleted
        BY <2>1, <3>1, <3>3, <4>1 DEF EffectInv, TakesEffectOnce
      <4> QED BY <1>3, <3>1, <3>2, <4>2
    <3>4. CASE j = n + 1
      <4>1. effects[i].id = id /\ f \in effects[i].written \cup effects[i].deleted
        BY <1>8, <2>1, <3>1, <3>4
      <4>2. p.expected[f] = Absent /\ \E k \in i + 1 .. n : f \in effects[k].deleted
        BY <1>13, <3>1, <4>1
      <4>3. j - 1 = n
        BY <1>8, <3>4
      <4> QED BY <1>3, <3>1, <3>2, <4>1, <4>2, <4>3 DEF p
    <3> QED BY <1>11, <3>3, <3>4
  <2>2. \A i \in DOMAIN effects' :
          effects'[i].id # Unknown => issued'[effects'[i].id].kind = effects'[i].tool
    BY <1>12 DEF SpentInv, Spent
  <2> QED BY <2>1, <2>2 DEF TakesEffectOnce
<1>15. VaultInv'
  BY <1>3 DEF EffectInv, VaultInv, Kept
<1>16. \A v \in Worker \ {w} : Call(v)' = Call(v)
  BY <1>2, <1>3 DEF Only, Call
<1>17. InHandInv' /\ RefusedOnlyIfEvicted'
  BY <1>2, <1>3, <1>16 DEF EffectInv, InHandInv, RefusedOnlyIfEvicted, Only
<1> QED BY <1>9, <1>12, <1>14, <1>15, <1>17 DEF EffectInv

\* Every step of a worker keeps the vault, what is in hand and what took effect in order.
LEMMA EffectWorker ==
  ASSUME TypeOK, Called, EffectInv, NEW w \in Worker, WorkerNext(w)
  PROVE  EffectInv'
<1>1. CASE Takes(w)
  <2>1. Only(w) /\ worker'[w].at = "tool" /\ worker'[w].outcome = "none"
    BY <1>1, TakesStep
  <2> QED BY <1>1, <2>1, EffectMoves DEF Takes, inputVars
<1>2. CASE Previews(w)
  <2>1. Only(w) /\ worker'[w].at = "remember" /\ worker'[w].call = worker[w].call
        /\ worker'[w].outcome = worker[w].outcome
    BY <1>2, PreviewsStep
  <2> QED BY <1>2, <2>1, EffectMoves DEF Previews, inputVars
<1>3. CASE Leaves(w) \/ FailsUnheard(w) \/ Panics(w) \/ AnswerFails(w)
  <2>1. /\ UNCHANGED <<inputVars, main, queue, issued, vault, store, effects, answers, shown,
                       result>>
        /\ pipe' \in {pipe, "broken"}
    BY <1>3 DEF Leaves, FailsUnheard, Panics, AnswerFails, WriteFails, outputVars
  <2>2. PICK where \in {"gone", "panicked", "fail"} : Goes(w, where)
    BY <1>3 DEF Leaves, FailsUnheard, Panics, AnswerFails
  <2>3. where \in Place
    BY DEF Place
  <2>4. /\ Only(w) /\ worker'[w].at = where /\ worker'[w].call = worker[w].call
        /\ worker'[w].outcome = worker[w].outcome
    BY <2>1, <2>2, <2>3, MovesStep
  <2> QED BY <2>1, <2>4, EffectMoves DEF inputVars
<1>4. CASE AsksKind(w)
  <2>1. /\ UNCHANGED <<asked, issued, vault, store, effects>> /\ worker[w].at \in Busy
        /\ Call(w).what = "apply"
    BY <1>4 DEF AsksKind, Busy, inputVars
  <2>2. Only(w) /\ worker'[w].call = worker[w].call /\ worker'[w].at # "commit"
    BY <1>4, AsksKindStep
  <2>3. CASE worker'[w].outcome = "missing" /\ ~ Retained(Call(w).id)
    BY <2>1, <2>2, <2>3, EffectRefused
  <2>4. CASE worker'[w].outcome = "other kind" \/ worker'[w].outcome = worker[w].outcome
    BY <2>1, <2>2, <2>4, EffectMoves
  <2> QED BY <1>4, <2>3, <2>4, AsksKindStep
<1>5. CASE Gets(w)
  <2>1. UNCHANGED <<asked, issued, vault, store, effects>> /\ worker[w].at \in Busy
    BY <1>5 DEF Gets, Busy, inputVars
  <2>2. Only(w) /\ worker'[w].call = worker[w].call /\ Call(w).what = "apply"
    BY <1>5, GetsStep
  <2>3. CASE worker'[w].at = "answer" /\ worker'[w].outcome = "missing" /\ ~ Retained(Call(w).id)
    BY <2>1, <2>2, <2>3, EffectRefused
  <2>4. CASE worker'[w].at = "answer" /\ worker'[w].outcome = "other kind"
    BY <2>1, <2>2, <2>4, EffectMoves
  <2>5. CASE /\ worker'[w].at = "commit" /\ worker'[w].outcome = worker[w].outcome
             /\ worker'[w].preview = Call(w).id /\ Retained(Call(w).id) /\ KindFits(w)
    <3>1. \A v \in Worker : Call(v)' = Call(v)
      BY <2>1, <2>2 DEF Only, Call
    <3>2. InHandInv'
      BY <2>1, <2>2, <2>5, <3>1, RetainedIssued DEF EffectInv, InHandInv, Only, KindFits
    <3>3. RefusedOnlyIfEvicted'
      BY <2>1, <2>2, <2>5, <3>1 DEF EffectInv, RefusedOnlyIfEvicted, Only
    <3>4. VaultInv' /\ RevInv' /\ LastingInv' /\ SpentInv' /\ TakesEffectOnce'
      BY <2>1, FilesStutter DEF EffectInv, VaultInv, Kept
    <3> QED BY <3>2, <3>3, <3>4 DEF EffectInv
  <2> QED BY <1>5, <2>3, <2>4, <2>5, GetsStep
<1>6. CASE Answers(w)
  <2>1. Only(w) /\ worker'[w].at = "take" /\ worker'[w].outcome = "none"
    BY <1>6, AnswersStep, IdleHand
  <2> QED BY <1>6, <2>1, EffectMoves DEF Answers, inputVars
<1>7. CASE Settles(w) \/ CallFails(w)
  <2>1. Only(w) /\ worker'[w].at = "answer" /\ worker'[w].outcome \in {"applied", "failed"}
    BY <1>7, RefusesStep
  <2> QED BY <1>7, <2>1, EffectMoves DEF Settles, CallFails, inputVars
<1> QED
  BY <1>7, <1>1, <1>2, <1>3, <1>4, <1>5, <1>6, EffectRemembers, EffectCommits DEF WorkerNext

-----------------------------------------------------------------------------
(* Where the requests are. *)

\* The numbers of the requests.
LEMMA AskedShape ==
  ASSUME TypeOK
  PROVE  /\ Len(asked) \in Nat /\ DOMAIN asked = 1..Len(asked)
         /\ answers \in [DOMAIN asked -> Nat]
         /\ Len(queue) \in Nat /\ DOMAIN queue = 1..Len(queue)
         /\ \A w \in Worker : worker[w].call \in Nat
<1>1. asked \in Seq(Message) /\ answers \in Seq(Nat) /\ Len(answers) = Len(asked)
      /\ queue \in Seq(Nat)
  BY DEF TypeOK, InputOK, OutputOK, ToolsOK
<1>2. \A w \in Worker : worker[w].call \in Nat
  BY DEF TypeOK, ToolsOK, Hand
<1> HIDE DEF Message
<1> QED BY <1>1, <1>2, LenProperties

\* There is no request to account for when the session starts.
LEMMA AccountInit == Init => AccountInv
<1> SUFFICES ASSUME Init PROVE AccountInv
  OBVIOUS
<1>1. \A w \in Worker : worker[w].call = 0
  BY IdleHand DEF Init
<1> QED
  BY <1>1 DEF Init, AccountInv, OnePlace, Unanswered, Waits, Held, Mine, Handed, InHand, Answering

\* Steps that move no request, or only let one go.
LEMMA AccountQuiet ==
  ASSUME AccountInv, UNCHANGED <<asked, answers, queue>>,
         \A w \in Worker : worker'[w].call = worker[w].call,
         Answering' => Answering /\ main'.call = main.call,
         InHand' => InHand
  PROVE  AccountInv'
<1>1. \A i \in Nat : (Waits(i)' <=> Waits(i)) /\ (Held(i)' <=> Held(i)) /\ (Mine(i)' => Mine(i))
                     /\ (Handed(i)' => Handed(i))
  BY DEF Waits, Held, Mine, Handed
<1>2. \A i \in Nat : OnePlace(i)' /\ Unanswered(i)'
  BY <1>1 DEF AccountInv, OnePlace, Unanswered
<1> QED BY <1>1, <1>2 DEF AccountInv

\* A request that is read is with the reader, and a notification is nowhere.
LEMMA AccountReadsFrame ==
  ASSUME TypeOK, AccountInv, ReadsFrame
  PROVE  /\ AccountInv'
         /\ \A i \in DOMAIN asked : Accounted(i) => Accounted(i)'
         /\ \A i \in DOMAIN asked' : i \in DOMAIN asked \/ Accounted(i)'
<1> DEFINE n == Len(asked)
<1>1. PICK m \in Message : asked' = Append(asked, m)
  <2>1. shown \cup {Unknown} \subseteq Nat
    BY DEF TypeOK, OutputOK, Unknown
  <2> QED BY <2>1 DEF ReadsFrame, Sendable, Message
<1>2. asked \in Seq(Message) /\ answers \in Seq(Nat) /\ Len(answers) = n
  BY DEF TypeOK, InputOK, OutputOK
<1>3. answers' = Append(answers, 0) /\ UNCHANGED <<main, queue, worker>>
  BY DEF ReadsFrame, toolVars
<1>4. /\ n \in Nat /\ DOMAIN asked = 1..n /\ DOMAIN asked' = 1..n + 1 /\ Len(asked') = n + 1
      /\ \A i \in 1..n : asked'[i] = asked[i]
  <2> HIDE DEF Message
  <2> QED BY <1>1, <1>2, AppendProperties, LenProperties
<1>5. /\ answers \in [1..n -> Nat] /\ answers' \in [1..n + 1 -> Nat]
      /\ answers'[n + 1] = 0 /\ \A i \in 1..n : answers'[i] = answers[i]
  <2>1. /\ answers' \in Seq(Nat) /\ Len(answers') = Len(answers) + 1
        /\ \A i \in 1..Len(answers) : answers'[i] = answers[i]
        /\ answers'[Len(answers) + 1] = 0
    BY <1>2, <1>3, AppendProperties
  <2>2. answers \in [1..n -> Nat] /\ answers' \in [1..n + 1 -> Nat]
    BY <1>2, <2>1, LenProperties
  <2> QED BY <1>2, <2>1, <2>2
<1>6. PICK k \in Nat : k = n + 1
  BY <1>4
<1>7. ~ InHand /\ InHand'
  BY DEF ReadsFrame, InHand
<1> HIDE DEF n
<1>8. \A i \in Nat : (Waits(i)' <=> Waits(i)) /\ (Held(i)' <=> Held(i)) /\ (Mine(i)' <=> Mine(i))
                     /\ (Handed(i)' <=> i = k) /\ ~ Handed(i)
  BY <1>3, <1>4, <1>6, <1>7 DEF Waits, Held, Mine, Handed, Answering
<1>9. \A i \in Nat : Waits(i) \/ Held(i) \/ Mine(i) => i \in 1..n /\ answers[i] = 0
  BY <1>4 DEF AccountInv, Unanswered
<1>10. ASSUME NEW i \in Nat PROVE OnePlace(i)' /\ Unanswered(i)'
  <2>1. Waits(i) \/ Held(i) \/ Mine(i) => i # k
    BY <1>4, <1>6, <1>9
  <2>2. OnePlace(i)'
    BY <1>8, <2>1 DEF AccountInv, OnePlace
  <2>3. Unanswered(i)'
    BY <1>4, <1>5, <1>6, <1>8, <1>9 DEF Unanswered
  <2> QED BY <2>2, <2>3
<1>11. \A i \in Nat : Mine(i)' => asked'[i].what # "notification"
  BY <1>4, <1>8, <1>9 DEF AccountInv
<1>12. \A i \in DOMAIN asked' : answers'[i] <= (IF asked'[i].what = "notification" THEN 0 ELSE 1)
  <2> SUFFICES ASSUME NEW i \in DOMAIN asked'
               PROVE  answers'[i] <= (IF asked'[i].what = "notification" THEN 0 ELSE 1)
    OBVIOUS
  <2>1. CASE i \in 1..n
    BY <1>4, <1>5, <2>1 DEF AccountInv
  <2>2. CASE i = n + 1
    BY <1>5, <2>2
  <2> QED BY <1>4, <2>1, <2>2
<1>13. AccountInv'
  BY <1>3, <1>10, <1>11, <1>12 DEF AccountInv
<1>14. \A i \in DOMAIN asked : Accounted(i) => Accounted(i)'
  BY <1>4, <1>5, <1>8 DEF Accounted
<1>15. Accounted(k)'
  BY <1>8 DEF Accounted
<1> QED BY <1>4, <1>6, <1>13, <1>14, <1>15

\* The request that the reader handed over.
LEMMA HandedOver ==
  ASSUME TypeOK, Called, InHand
  PROVE  Len(asked) \in DOMAIN asked /\ Last(asked) = asked[Len(asked)] /\ Handed(Len(asked))
BY LastAsked DEF Called, InHand, Handed

\* From the reader's hand into the queue.
LEMMA AccountReceivesCall ==
  ASSUME TypeOK, Called, AccountInv, ReceivesCall
  PROVE  /\ AccountInv'
         /\ \A i \in DOMAIN asked : Accounted(i) => Accounted(i)'
<1>1. InHand /\ ~ InHand' /\ ~ Answering /\ ~ Answering'
  BY DEF ReceivesCall, InHand, Answering, Received, TypeOK, InputOK
<1>2. UNCHANGED <<asked, answers, worker>> /\ queue' = Append(queue, Len(asked))
  BY DEF ReceivesCall, toolVars, outputVars
<1>3. Len(asked) \in DOMAIN asked /\ DOMAIN asked = 1..Len(asked) /\ Len(asked) \in Nat
  BY <1>1, HandedOver, AskedShape
<1>4. PICK k \in Nat : k = Len(asked)
  BY <1>3
<1>5. /\ DOMAIN queue = 1..Len(queue) /\ Len(queue) \in Nat /\ DOMAIN queue' = 1..Len(queue) + 1
      /\ \A j \in DOMAIN queue : queue'[j] = queue[j]
      /\ queue'[Len(queue) + 1] = k
  <2>1. queue \in Seq(Nat)
    BY DEF TypeOK, ToolsOK
  <2> QED BY <1>2, <1>4, <2>1, AppendProperties, LenProperties
<1>6. ASSUME NEW i \in Nat
      PROVE  /\ Waits(i)' <=> Waits(i) \/ i = k
             /\ Held(i)' <=> Held(i)
             /\ ~ Mine(i) /\ ~ Mine(i)' /\ ~ Handed(i)'
             /\ Handed(i) <=> i = k
  <2>1. Waits(i)' => Waits(i) \/ i = k
    BY <1>5 DEF Waits
  <2>2. Waits(i) \/ i = k => Waits(i)'
    BY <1>5 DEF Waits
  <2> QED BY <1>1, <1>2, <1>4, <2>1, <2>2 DEF Held, Mine, Handed
<1>7. \A i \in Nat : OnePlace(i)'
  BY <1>6 DEF AccountInv, OnePlace
<1>8. \A i \in Nat : Unanswered(i)'
  BY <1>2, <1>6 DEF AccountInv, Unanswered
<1>9. \A j \in DOMAIN queue : queue[j] # k
  BY <1>6 DEF AccountInv, OnePlace, Waits
<1>10. \A i, j \in DOMAIN queue' : queue'[i] = queue'[j] => i = j
  BY <1>5, <1>9 DEF AccountInv
<1>11. AccountInv'
  BY <1>2, <1>6, <1>7, <1>8, <1>10 DEF AccountInv
<1> QED BY <1>2, <1>3, <1>6, <1>11 DEF Accounted

\* From the reader's hand to the main loop.
LEMMA AccountReceivesOther ==
  ASSUME TypeOK, Called, AccountInv, ReceivesOther
  PROVE  /\ AccountInv'
         /\ \A i \in DOMAIN asked : Accounted(i) => Accounted(i)'
<1>1. InHand /\ ~ InHand' /\ ~ Answering
  BY DEF ReceivesOther, InHand, Answering, Received, TypeOK, InputOK
<1>2. UNCHANGED <<asked, answers, worker, queue>>
  BY DEF ReceivesOther, toolVars, outputVars
<1>3. /\ Len(asked) \in DOMAIN asked /\ DOMAIN asked = 1..Len(asked) /\ Len(asked) \in Nat
      /\ Last(asked) = asked[Len(asked)]
  BY <1>1, HandedOver, AskedShape
<1>4. PICK k \in Nat : k = Len(asked)
  BY <1>3
<1>5. \A i \in Nat : /\ Waits(i)' <=> Waits(i)
                     /\ Held(i)' <=> Held(i)
                     /\ ~ Mine(i) /\ ~ Handed(i)'
                     /\ Handed(i) <=> i = k
  BY <1>1, <1>2, <1>4 DEF Waits, Held, Mine, Handed
<1>6. CASE asked[k].what = "notification"
  <2>1. ~ Answering'
    BY <1>1, <1>3, <1>4, <1>6 DEF ReceivesOther, Answering
  <2>2. AccountInv'
    BY <1>1, <1>2, <2>1, AccountQuiet
  <2> QED BY <1>2, <1>3, <1>5, <1>6, <2>2 DEF Accounted
<1>7. CASE asked[k].what # "notification"
  <2>1. Answering' /\ main'.call = k
    BY <1>3, <1>4, <1>7 DEF ReceivesOther, Answering
  <2>2. \A i \in Nat : Mine(i)' <=> i = k
    BY <2>1 DEF Mine
  <2>3. \A i \in Nat : OnePlace(i)'
    BY <1>5, <2>2 DEF AccountInv, OnePlace
  <2>4. \A i \in Nat : Unanswered(i)'
    BY <1>2, <1>5, <2>2 DEF AccountInv, Unanswered
  <2>5. AccountInv'
    BY <1>2, <1>7, <2>2, <2>3, <2>4 DEF AccountInv
  <2> QED BY <1>2, <1>3, <1>5, <2>2, <2>5 DEF Accounted
<1> QED BY <1>6, <1>7

\* One answer more, for a request that had none.
LEMMA AnswerBound ==
  ASSUME TypeOK, AccountInv, NEW c \in DOMAIN asked, answers[c] = 0,
         asked[c].what # "notification", answers' = [answers EXCEPT ![c] = @ + 1], asked' = asked
  PROVE  /\ answers'[c] = 1 /\ \A i \in DOMAIN asked \ {c} : answers'[i] = answers[i]
         /\ \A i \in DOMAIN asked' :
              answers'[i] <= (IF asked'[i].what = "notification" THEN 0 ELSE 1)
<1>1. answers \in [DOMAIN asked -> Nat]
  BY AskedShape
<1>2. answers'[c] = 1 /\ \A i \in DOMAIN asked \ {c} : answers'[i] = answers[i]
  BY <1>1
<1>3. \A i \in DOMAIN asked \ {c} :
        answers'[i] <= (IF asked[i].what = "notification" THEN 0 ELSE 1)
  BY <1>2 DEF AccountInv
<1> QED BY <1>2, <1>3

\* The answer of the main loop itself, to what is not a tool call.
LEMMA AccountMainAnswers ==
  ASSUME TypeOK, Called, AccountInv, MainAnswers
  PROVE  /\ AccountInv'
         /\ \A i \in DOMAIN asked : Accounted(i) => Accounted(i)'
<1>1. Answering /\ ~ Answering' /\ UNCHANGED <<asked, reader, queue, worker>>
      /\ answers' = [answers EXCEPT ![main.call] = @ + 1]
  BY DEF MainAnswers, Answering, inputVars, toolVars
<1>2. main.call \in Nat
  BY DEF TypeOK, InputOK
<1>3. PICK c \in Nat : c = main.call
  BY <1>2
<1>4. \A i \in Nat : (Waits(i)' <=> Waits(i)) /\ (Held(i)' <=> Held(i)) /\ (Mine(i) <=> i = c)
                     /\ ~ Mine(i)' /\ (Handed(i)' <=> Handed(i))
  BY <1>1, <1>3 DEF Waits, Held, Mine, Handed, InHand
<1>5. c \in DOMAIN asked /\ answers[c] = 0 /\ asked[c].what # "notification"
  BY <1>4 DEF AccountInv, Unanswered
<1>6. /\ answers'[c] = 1 /\ \A i \in DOMAIN asked \ {c} : answers'[i] = answers[i]
      /\ \A i \in DOMAIN asked' :
           answers'[i] <= (IF asked'[i].what = "notification" THEN 0 ELSE 1)
  BY <1>1, <1>3, <1>5, AnswerBound
<1>7. \A i \in Nat : OnePlace(i)'
  BY <1>4 DEF AccountInv, OnePlace
<1>8. \A i \in Nat : Unanswered(i)'
  BY <1>1, <1>4, <1>6 DEF AccountInv, OnePlace, Unanswered
<1>9. AccountInv'
  BY <1>1, <1>4, <1>6, <1>7, <1>8 DEF AccountInv
<1>10. \A i \in DOMAIN asked : i \in Nat
  BY AskedShape
<1> QED BY <1>1, <1>4, <1>6, <1>9, <1>10 DEF Accounted

\* From the queue to a worker.
LEMMA AccountTakes ==
  ASSUME TypeOK, Called, AccountInv, NEW w \in Worker, Takes(w)
  PROVE  /\ AccountInv'
         /\ \A i \in DOMAIN asked : Accounted(i) => Accounted(i)'
<1>1. /\ Only(w) /\ worker'[w].call = Head(queue)
      /\ queue # <<>> /\ queue' = Tail(queue)
  BY TakesStep
<1>2. UNCHANGED <<asked, reader, main, answers>> /\ worker[w].call = 0
  BY DEF Takes, inputVars, outputVars, Called, HandOK
<1>3. queue \in Seq(Nat)
  BY DEF TypeOK, ToolsOK
<1>4. /\ DOMAIN queue = 1..Len(queue) /\ Len(queue) \in Nat /\ Len(queue) # 0
      /\ DOMAIN queue' = 1..Len(queue) - 1
      /\ \A j \in 1..Len(queue) - 1 : queue'[j] = queue[j + 1]
      /\ Head(queue) = queue[1] /\ Head(queue) \in Nat
  BY <1>1, <1>3, HeadTailProperties, LenProperties, EmptySeq
<1>5. PICK k \in Nat : k = Head(queue)
  BY <1>4
<1>6. Waits(k)
  BY <1>4, <1>5 DEF Waits
<1>7. k \in DOMAIN asked /\ k # 0
  BY <1>6, AskedShape DEF AccountInv, Unanswered
<1>8. ASSUME NEW i \in Nat
      PROVE  /\ Waits(i) <=> Waits(i)' \/ i = k
             /\ ~ Waits(k)'
             /\ Held(i)' <=> Held(i) \/ i = k
             /\ Mine(i)' <=> Mine(i)
             /\ Handed(i)' <=> Handed(i)
  <2>1. Waits(i)' => Waits(i)
    BY <1>4 DEF Waits
  <2>2. Waits(i) => Waits(i)' \/ i = k
    <3> SUFFICES ASSUME NEW j \in DOMAIN queue, queue[j] = i PROVE Waits(i)' \/ i = k
      BY DEF Waits
    <3>1. CASE j = 1
      BY <1>4, <1>5, <3>1
    <3>2. CASE j # 1
      <4>1. j - 1 \in DOMAIN queue' /\ queue'[j - 1] = i
        BY <1>4, <3>2
      <4> QED BY <4>1 DEF Waits
    <3> QED BY <3>1, <3>2
  <2>3. ~ Waits(k)'
    <3>1. \A j \in 1..Len(queue) - 1 : queue[j + 1] # queue[1]
      BY <1>4 DEF AccountInv
    <3> QED BY <1>4, <1>5, <3>1 DEF Waits
  <2>4. Held(i)' <=> Held(i) \/ i = k
    BY <1>1, <1>2, <1>5, <1>7 DEF Held, Only
  <2>5. (Mine(i)' <=> Mine(i)) /\ (Handed(i)' <=> Handed(i))
    BY <1>2 DEF Mine, Answering, Handed, InHand
  <2> QED BY <1>6, <2>1, <2>2, <2>3, <2>4, <2>5
<1>9. \A i \in Nat : OnePlace(i)'
  BY <1>6, <1>8 DEF AccountInv, OnePlace
<1>10. \A i \in Nat : Unanswered(i)'
  BY <1>2, <1>8 DEF AccountInv, Unanswered
<1>11. \A i, j \in DOMAIN queue' : queue'[i] = queue'[j] => i = j
  <2> SUFFICES ASSUME NEW i \in DOMAIN queue', NEW j \in DOMAIN queue', queue'[i] = queue'[j]
               PROVE  i = j
    OBVIOUS
  <2>1. i + 1 \in DOMAIN queue /\ j + 1 \in DOMAIN queue /\ queue[i + 1] = queue[j + 1]
    BY <1>4
  <2>2. i + 1 = j + 1
    BY <2>1 DEF AccountInv
  <2> QED BY <1>4, <2>2
<1>12. \A v \in Worker : worker[v].call # k
  BY <1>6, <1>7 DEF AccountInv, OnePlace, Held
<1>13. \A u, v \in Worker : worker'[u].call = worker'[v].call /\ worker'[u].call # 0 => u = v
  BY <1>1, <1>5, <1>12 DEF AccountInv, Only
<1>14. AccountInv'
  BY <1>2, <1>8, <1>9, <1>10, <1>11, <1>13 DEF AccountInv
<1>15. \A i \in DOMAIN asked : i \in Nat
  BY AskedShape
<1> QED BY <1>2, <1>8, <1>14, <1>15 DEF Accounted

\* From a worker to the client.
LEMMA AccountAnswers ==
  ASSUME TypeOK, Called, AccountInv, NEW w \in Worker, Answers(w)
  PROVE  /\ AccountInv'
         /\ \A i \in DOMAIN asked : Accounted(i) => Accounted(i)'
<1>1. Only(w) /\ worker'[w].call = 0
  BY AnswersStep, IdleHand
<1>2. /\ UNCHANGED <<asked, reader, main, queue>> /\ worker[w].at \in Busy
      /\ answers' = [answers EXCEPT ![worker[w].call] = @ + 1]
  BY DEF Answers, inputVars, Busy
<1>3. worker[w].call \in Nat
  BY AskedShape
<1>4. PICK c \in Nat : c = worker[w].call
  BY <1>3
<1>5. c \in DOMAIN asked /\ asked[c].what # "notification" /\ c # 0
  BY <1>2, <1>4, AskedShape DEF Called, HandOK, Call, IsToolCall, Tool
<1>6. Held(c)
  BY <1>4, <1>5 DEF Held
<1>7. answers[c] = 0
  BY <1>6 DEF AccountInv, Unanswered
<1>8. \A i \in Nat :
         (Waits(i)' <=> Waits(i)) /\ (Mine(i)' <=> Mine(i)) /\ (Handed(i)' <=> Handed(i))
  BY <1>2 DEF Waits, Mine, Answering, Handed, InHand
<1>9. \A v \in Worker \ {w} : worker[v].call # c
  BY <1>4, <1>5 DEF AccountInv
<1>10. \A i \in Nat : Held(i)' <=> Held(i) /\ i # c
  BY <1>1, <1>4, <1>9 DEF Held, Only
<1>11. /\ answers'[c] = 1 /\ \A i \in DOMAIN asked \ {c} : answers'[i] = answers[i]
       /\ \A i \in DOMAIN asked' :
            answers'[i] <= (IF asked'[i].what = "notification" THEN 0 ELSE 1)
  BY <1>2, <1>4, <1>5, <1>7, AnswerBound
<1>12. \A i \in Nat : OnePlace(i)'
  BY <1>8, <1>10 DEF AccountInv, OnePlace
<1>13. \A i \in Nat : Unanswered(i)'
  BY <1>2, <1>6, <1>8, <1>10, <1>11 DEF AccountInv, OnePlace, Unanswered
<1>14. \A u, v \in Worker : worker'[u].call = worker'[v].call /\ worker'[u].call # 0 => u = v
  BY <1>1 DEF AccountInv, Only
<1>15. AccountInv'
  BY <1>2, <1>8, <1>11, <1>12, <1>13, <1>14 DEF AccountInv
<1>16. \A i \in DOMAIN asked : i \in Nat
  BY AskedShape
<1> QED BY <1>2, <1>8, <1>10, <1>11, <1>15, <1>16 DEF Accounted

\* However an application goes, the worker answers its call next.
LEMMA CommitEnds ==
  ASSUME TypeOK, NEW w \in Worker, Commits(w) \/ Settles(w) \/ CallFails(w)
  PROVE  Only(w) /\ worker'[w].at = "answer" /\ worker'[w].call = worker[w].call
<1>1. worker \in [Worker -> Hand]
  BY DEF TypeOK, ToolsOK
<1>2. PICK outcome \in {"applied", "failed"} : Ends(w, outcome)
  BY DEF Commits, Settles, CallFails
<1>3. outcome \in Outcome
  BY DEF Outcome
<1> QED BY <1>1, <1>2, <1>3, EndsType

\* A step of a worker that neither takes a call nor answers one moves no request.
LEMMA CallStays ==
  ASSUME TypeOK, Called, NEW w \in Worker, WorkerNext(w), ~ Takes(w), ~ Answers(w)
  PROVE  \A v \in Worker : worker'[v].call = worker[v].call
<1>1. CASE Leaves(w) \/ FailsUnheard(w) \/ Panics(w) \/ AnswerFails(w)
  <2>1. PICK where \in {"gone", "panicked", "fail"} : Goes(w, where)
    BY <1>1 DEF Leaves, FailsUnheard, Panics, AnswerFails
  <2>2. where \in Place /\ worker \in [Worker -> Hand]
    BY DEF Place, TypeOK, ToolsOK
  <2> QED BY <2>1, <2>2, GoesType DEF Only
<1> QED
  BY <1>1, PreviewsStep, RemembersStep, AsksKindStep, GetsStep, CommitEnds, ZenonT(40)
    DEF WorkerNext, Only

\* Every step of a worker keeps a request in one place and unanswered until it leaves it.
LEMMA AccountWorker ==
  ASSUME TypeOK, Called, AccountInv, NEW w \in Worker, WorkerNext(w)
  PROVE  /\ AccountInv'
         /\ \A i \in DOMAIN asked : Accounted(i) => Accounted(i)'
<1>1. CASE ~ Takes(w) /\ ~ Answers(w)
  <2>1. UNCHANGED <<asked, reader, main, queue, answers>>
    BY <1>1
    DEF WorkerNext, Leaves, Previews, Remembers, AsksKind, Gets, Commits, Settles, CallFails,
        Panics, AnswerFails, FailsUnheard, inputVars, outputVars
  <2>2. \A v \in Worker : worker'[v].call = worker[v].call
    BY <1>1, CallStays
  <2>3. AccountInv'
    BY <2>1, <2>2, AccountQuiet DEF InHand, Answering
  <2>4. \A i \in DOMAIN asked : Accounted(i) => Accounted(i)'
    BY <2>1, <2>2 DEF Accounted, Waits, Held, Mine, Handed, InHand, Answering
  <2> QED BY <2>3, <2>4
<1> QED BY <1>1, AccountTakes, AccountAnswers

\* What the reader and the main loop do to the requests: one that is let go, is let go after a
\* failure, or by a session that ends with an error.
LEMMA AccountInput ==
  ASSUME TypeOK, Called, AccountInv, EndInv, NoneLost, ReaderNext \/ MainNext
  PROVE  AccountInv' /\ NoneLost'
<1>1. ASSUME UNCHANGED <<asked, answers, queue>>,
             \A w \in Worker : worker'[w].call = worker[w].call,
             Answering' => Answering /\ main'.call = main.call,
             InHand' => InHand
      PROVE  /\ AccountInv'
             /\ (Answering => Answering' /\ main'.call = main.call) /\ (InHand => InHand')
                  => \A i \in DOMAIN asked : Accounted(i) => Accounted(i)'
  <2>1. AccountInv'
    BY <1>1, AccountQuiet
  <2>2. ASSUME Answering => Answering' /\ main'.call = main.call, InHand => InHand'
        PROVE  \A i \in DOMAIN asked : Accounted(i) => Accounted(i)'
    BY <1>1, <2>2 DEF Accounted, Waits, Held, Mine, Handed
  <2> QED BY <2>1, <2>2
<1>2. ASSUME \A i \in DOMAIN asked : Accounted(i) => Accounted(i)',
             \A i \in DOMAIN asked' : i \in DOMAIN asked \/ Accounted(i)',
             fatal => fatal', result = "error" => result' = "error"
      PROVE  NoneLost'
  BY <1>2 DEF NoneLost
<1>3. CASE ReaderStops \/ ReadsEnd
  <2>1. UNCHANGED <<asked, answers, queue, worker, main, fatal, result>> /\ ~ InHand /\ ~ InHand'
    <3>1. CASE ReaderStops
      BY <3>1 DEF ReaderStops, InHand, toolVars, outputVars, TypeOK, InputOK
    <3>2. CASE ReadsEnd
      BY <3>2 DEF ReadsEnd, InHand, toolVars, outputVars
    <3> QED BY <1>3, <3>1, <3>2
  <2> QED BY <1>1, <1>2, <2>1 DEF Answering
<1>4. CASE ReadsFrame
  <2>1. UNCHANGED <<fatal, result>>
    BY <1>4 DEF ReadsFrame
  <2> QED BY <1>2, <1>4, <2>1, AccountReadsFrame
<1>5. CASE ReaderUnheard
  <2>1. UNCHANGED <<asked, answers, queue, worker, main, fatal, result>> /\ ~ InHand'
        /\ reader.at # "gone" /\ main.at \in Over
    BY <1>5 DEF ReaderUnheard, InHand, toolVars, outputVars, TypeOK, InputOK, HungUp, Over
  <2>2. fatal \/ result = "error"
    BY <2>1 DEF EndInv
  <2> QED BY <1>1, <2>1, <2>2 DEF Answering, NoneLost
<1>6. CASE ReceivesTooLate
  <2>1. UNCHANGED <<asked, answers, queue, worker, main, fatal, result>> /\ ~ InHand'
        /\ stopped /\ main.at = "receive"
    BY <1>6 DEF ReceivesTooLate, Received, InHand, toolVars, outputVars, TypeOK, InputOK
  <2>2. fatal
    BY <2>1 DEF EndInv
  <2> QED BY <1>1, <2>1, <2>2 DEF Answering, NoneLost
<1>7. CASE ReceivesCall \/ ReceivesOther
  <2>1. UNCHANGED <<asked, fatal, result>>
    BY <1>7 DEF ReceivesCall, ReceivesOther
  <2> QED BY <1>2, <1>7, <2>1, AccountReceivesCall, AccountReceivesOther
<1>8. CASE ReceivesEnd
  <2>1. UNCHANGED <<asked, answers, queue, worker, fatal>> /\ ~ InHand /\ ~ InHand'
        /\ ~ Answering /\ ~ Answering' /\ result = "none"
    BY <1>8
    DEF ReceivesEnd, Received, InHand, Answering, toolVars, outputVars, TypeOK, InputOK, EndInv,
        Over
  <2> QED BY <1>1, <1>2, <2>1
<1>9. ASSUME NEW w \in Worker, ReceivesFailure(w) PROVE AccountInv' /\ NoneLost'
  <2>1. Goes(w, "gone") /\ "gone" \in Place /\ worker \in [Worker -> Hand]
    BY <1>9 DEF ReceivesFailure, Goes, Place, TypeOK, ToolsOK
  <2>2. \A v \in Worker : worker'[v].call = worker[v].call
    BY <2>1, GoesType DEF Only
  <2>3. UNCHANGED <<asked, reader, answers, queue, fatal>> /\ ~ Answering /\ ~ Answering' /\ fatal
    BY <1>9 DEF ReceivesFailure, Answering, inputVars, outputVars, TypeOK, InputOK, EndInv
  <2>4. NoneLost'
    BY <2>3 DEF NoneLost
  <2> QED BY <1>1, <2>2, <2>3, <2>4 DEF InHand
<1>10. CASE MainAnswers
  <2>1. UNCHANGED <<asked, fatal, result>>
    BY <1>10 DEF MainAnswers, inputVars
  <2> QED BY <1>2, <1>10, <2>1, AccountMainAnswers
<1>11. CASE MainFails
  <2>1. UNCHANGED <<asked, reader, answers, queue, worker>> /\ ~ Answering' /\ result' = "error"
    BY <1>11 DEF MainFails, Answering, inputVars, toolVars, TypeOK, InputOK
  <2>2. NoneLost'
    BY <2>1 DEF NoneLost
  <2> QED BY <1>1, <2>1, <2>2 DEF InHand
<1>12. CASE Stops \/ HangsUp \/ Joins
  <2>1. UNCHANGED <<asked, reader, answers, queue, worker, fatal>> /\ ~ Answering /\ ~ Answering'
    BY <1>12
    DEF Stops, HangsUp, Joins, Drained, Answering, inputVars, toolVars, outputVars, TypeOK, InputOK
  <2>2. result = "error" => result' = "error"
    BY <1>12 DEF Stops, HangsUp, Joins, Verdict
  <2> QED BY <1>1, <1>2, <2>1, <2>2 DEF InHand
<1> QED
  BY <1>3, <1>4, <1>5, <1>6, <1>7, <1>8, <1>9, <1>10, <1>11, <1>12 DEF ReaderNext, MainNext

-----------------------------------------------------------------------------
(* How the session ends. *)

\* The session has not ended when it starts.
LEMMA EndInit == Init => EndInv /\ NoneLost
<1>1. ASSUME Init PROVE EndInv
  <2>1. \A w \in Worker : worker[w].at = "take"
    BY <1>1, IdleHand DEF Init
  <2> QED BY <1>1, <2>1 DEF Init, EndInv, Over
<1>2. ASSUME Init PROVE NoneLost
  BY <1>2 DEF Init, NoneLost
<1> QED BY <1>1, <1>2

\* The reader decides nothing.
LEMMA EndReader == TypeOK /\ EndInv /\ ReaderNext => EndInv'
<1> SUFFICES ASSUME TypeOK, EndInv, ReaderNext PROVE EndInv'
  OBVIOUS
<1>1. UNCHANGED <<main, stopped, queue, worker, fatal, result>>
  BY DEF ReaderNext, ReaderStops, ReadsFrame, ReadsEnd, ReaderUnheard, toolVars
<1>2. reader.at = "gone" => reader'.at = "gone"
  BY DEF ReaderNext, ReaderStops, ReadsFrame, ReadsEnd, ReaderUnheard, TypeOK, InputOK
<1> QED BY <1>1, <1>2 DEF EndInv, HungUp, Joinable

\* While the main loop goes on, its steps but for the last leave the flags alone.
LEMMA EndMain == TypeOK /\ Called /\ EndInv /\ MainNext => EndInv'
<1> SUFFICES ASSUME TypeOK, Called, EndInv, MainNext PROVE EndInv'
  OBVIOUS
<1>1. CASE ReceivesTooLate \/ ReceivesCall \/ ReceivesOther \/ MainAnswers
  <2>1. /\ UNCHANGED <<stopped, worker, fatal, result>>
        /\ main.at \in {"receive", "answer"} /\ main'.at \in {"receive", "answer"}
        /\ queue' = queue \/ main.at = "receive"
    <3>1. UNCHANGED <<stopped, worker, fatal, result>>
      BY <1>1 DEF ReceivesTooLate, ReceivesCall, ReceivesOther, MainAnswers, toolVars
    <3>2. /\ main.at \in {"receive", "answer"}
          /\ \/ main' = main
             \/ main' = [at |-> "answer", call |-> Len(asked)]
             \/ main' = [at |-> "receive", call |-> 0]
          /\ queue' = queue \/ main.at = "receive"
      BY <1>1 DEF ReceivesTooLate, ReceivesCall, ReceivesOther, MainAnswers
    <3> QED BY <3>1, <3>2
  <2>2. main.at \notin Over /\ main'.at \notin Over /\ ~ HungUp /\ main'.at # "done"
    BY <2>1 DEF Over, HungUp
  <2> QED BY <2>1, <2>2 DEF EndInv
<1>2. CASE ReceivesEnd
  <2>1. /\ UNCHANGED <<stopped, worker, fatal, queue>> /\ result' \in {"ok", "error"}
        /\ main.at = "receive" /\ main'.at = "stop" /\ reader'.at = "gone"
    BY <1>2 DEF ReceivesEnd, Received, toolVars, TypeOK, InputOK
  <2>2. ~ HungUp /\ main'.at \in Over
    BY <2>1 DEF Over, HungUp
  <2> QED BY <2>1, <2>2 DEF EndInv
<1>3. ASSUME NEW w \in Worker, ReceivesFailure(w) PROVE EndInv'
  <2>1. /\ UNCHANGED <<stopped, fatal, queue>> /\ result' = "ok" /\ fatal
        /\ main.at = "receive" /\ main'.at = "stop"
    BY <1>3 DEF ReceivesFailure, TypeOK, InputOK, EndInv
  <2>2. ~ HungUp /\ main'.at \in Over
    BY <2>1 DEF Over, HungUp
  <2> QED BY <2>1, <2>2 DEF EndInv
<1>4. CASE MainFails
  <2>1. /\ UNCHANGED <<stopped, worker, fatal, queue>> /\ result' = "error"
        /\ main.at = "answer" /\ main'.at = "stop"
    BY <1>4 DEF MainFails, toolVars, TypeOK, InputOK
  <2>2. ~ HungUp /\ main'.at \in Over
    BY <2>1 DEF Over, HungUp
  <2> QED BY <2>1, <2>2 DEF EndInv
<1>5. CASE Stops \/ HangsUp
  <2>1. /\ UNCHANGED <<reader, worker, fatal, queue, result>>
        /\ main.at \in {"stop", "hang up"} /\ main'.at \in {"hang up", "join"}
    BY <1>5 DEF Stops, HangsUp, Drained, inputVars, toolVars, TypeOK, InputOK
  <2>2. ~ HungUp /\ main.at \in Over /\ main'.at \in Over
    BY <2>1 DEF Over, HungUp
  <2>3. main'.at \notin {"receive", "answer", "stop", "done"}
    BY <2>1
  <2> QED BY <2>1, <2>2, <2>3 DEF EndInv
<1>6. CASE Joins
  <2>1. /\ UNCHANGED <<reader, worker, fatal, queue>> /\ Joinable /\ result' = Verdict
        /\ main.at = "join" /\ main'.at = "done"
    BY <1>6 DEF Joins, inputVars, toolVars, TypeOK, InputOK
  <2>2. HungUp /\ HungUp' /\ main.at \in Over /\ main'.at \in Over
    BY <2>1 DEF Over, HungUp
  <2>3. result' \in {"ok", "error"}
    BY <2>1, <2>2 DEF EndInv, Verdict
  <2>4. result' = "ok" => result = "ok" /\ ~ fatal /\ \A w \in Worker : worker[w].at # "panicked"
    BY <2>1 DEF Verdict
  <2>5. Joinable'
    BY <2>1 DEF Joinable
  <2> QED BY <2>1, <2>2, <2>3, <2>4, <2>5 DEF EndInv
<1> QED BY <1>1, <1>2, <1>3, <1>4, <1>5, <1>6 DEF MainNext

\* A worker leaves for good only when nothing waits any more, or after a failure.
LEMMA EndWorker ==
  ASSUME TypeOK, Called, EndInv, NEW w \in Worker, WorkerNext(w)
  PROVE  EndInv'
<1>1. UNCHANGED <<main, reader, result>>
  BY DEF WorkerNext, Takes, Leaves, Previews, Remembers, AsksKind, Gets, Commits, Settles,
         CallFails, Panics, Answers, AnswerFails, FailsUnheard, inputVars
<1>2. worker[w].at \notin {"gone", "panicked"} /\ main.at # "done"
  <2>1. worker[w].at \notin {"gone", "panicked"}
    BY DEF WorkerNext, Takes, Leaves, Previews, Remembers, AsksKind, Gets, Commits, Settles,
           CallFails, Panics, Answers, AnswerFails, FailsUnheard
  <2> QED BY <2>1 DEF EndInv, Joinable
<1>3. ASSUME UNCHANGED <<stopped, queue, fatal>>, Only(w), worker'[w].at # "fail",
             worker'[w].at = "gone" => fatal \/ (worker'[w].call = 0 /\ queue = <<>> /\ HungUp)
      PROVE  EndInv'
  BY <1>1, <1>2, <1>3 DEF EndInv, Only, HungUp
<1>4. CASE Takes(w)
  <2>1. Only(w) /\ worker'[w].at = "tool" /\ queue # <<>> /\ UNCHANGED <<stopped, fatal>>
    BY <1>4, TakesStep DEF Takes
  <2> QED BY <1>1, <1>2, <2>1 DEF EndInv, Only, HungUp
<1>5. CASE Leaves(w)
  <2>1. /\ Goes(w, "gone") /\ "gone" \in Place /\ worker \in [Worker -> Hand]
        /\ worker[w].call = 0 /\ queue = <<>> /\ HungUp /\ UNCHANGED <<stopped, queue, fatal>>
    BY <1>5 DEF Leaves, Place, TypeOK, ToolsOK, Called, HandOK
  <2>2. Only(w) /\ worker'[w].at = "gone" /\ worker'[w].call = 0
    BY <2>1, GoesType
  <2> QED BY <1>3, <2>1, <2>2
<1>6. CASE Panics(w)
  <2>1. /\ Goes(w, "panicked") /\ "panicked" \in Place /\ worker \in [Worker -> Hand]
        /\ UNCHANGED <<stopped, queue, fatal>>
    BY <1>6 DEF Panics, Place, TypeOK, ToolsOK
  <2>2. Only(w) /\ worker'[w].at = "panicked"
    BY <2>1, GoesType
  <2> QED BY <1>3, <2>1, <2>2
<1>7. CASE FailsUnheard(w)
  <2>1. /\ Goes(w, "gone") /\ "gone" \in Place /\ worker \in [Worker -> Hand]
        /\ UNCHANGED <<stopped, queue, fatal>> /\ fatal
    BY <1>7 DEF FailsUnheard, Place, TypeOK, ToolsOK, EndInv
  <2>2. Only(w) /\ worker'[w].at = "gone"
    BY <2>1, GoesType
  <2> QED BY <1>3, <2>1, <2>2
<1>8. CASE AnswerFails(w)
  <2>1. fatal' /\ UNCHANGED <<queue>>
    BY <1>8 DEF AnswerFails
  <2> QED BY <1>1, <1>2, <2>1 DEF EndInv
<1>9. CASE \/ Previews(w) \/ Remembers(w) \/ AsksKind(w) \/ Gets(w) \/ Answers(w)
           \/ Commits(w) \/ Settles(w) \/ CallFails(w)
  <2>1. UNCHANGED <<stopped, queue, fatal>>
    BY <1>9 DEF Previews, Remembers, AsksKind, Gets, Commits, Settles, CallFails, Answers
  <2>2. Only(w) /\ worker'[w].at \in {"remember", "answer", "get", "commit", "take"}
    <3>1. CASE Previews(w)
      BY <3>1, PreviewsStep
    <3>2. CASE Remembers(w)
      BY <3>2, RemembersStep
    <3>3. CASE AsksKind(w)
      BY <3>3, AsksKindStep
    <3>4. CASE Gets(w)
      BY <3>4, GetsStep
    <3>5. CASE Commits(w) \/ Settles(w) \/ CallFails(w)
      BY <3>5, CommitEnds
    <3>6. CASE Answers(w)
      BY <3>6, AnswersStep, IdleHand
    <3> QED BY <1>9, <3>1, <3>2, <3>3, <3>4, <3>5, <3>6
  <2> QED BY <1>3, <2>1, <2>2
<1> QED BY <1>4, <1>5, <1>6, <1>7, <1>8, <1>9 DEF WorkerNext

\* Nothing is lost with a worker.
LEMMA NoneLostWorker ==
  ASSUME TypeOK, Called, AccountInv, NoneLost, NEW w \in Worker, WorkerNext(w)
  PROVE  NoneLost'
<1>1. asked' = asked /\ result' = result
  BY DEF WorkerNext, Takes, Leaves, Previews, Remembers, AsksKind, Gets, Commits, Settles,
         CallFails, Panics, Answers, AnswerFails, FailsUnheard, inputVars
<1>2. fatal => fatal'
  BY DEF WorkerNext, Takes, Leaves, Previews, Remembers, AsksKind, Gets, Commits, Settles,
         CallFails, Panics, Answers, AnswerFails, FailsUnheard
<1> QED BY <1>1, <1>2, AccountWorker DEF NoneLost

-----------------------------------------------------------------------------
(* Theorems. *)

SessionInv == TypeOK /\ Called /\ EffectInv /\ AccountInv /\ EndInv /\ NoneLost

\* The types, with where the calls, the previews and the requests are and what became of the
\* files, hold throughout.
THEOREM SessionInvariant == Spec => []SessionInv
<1>1. Init => SessionInv
  BY TypeInit, CalledInit, EffectInit, AccountInit, EndInit DEF SessionInv
<1>2. SessionInv /\ [Next]_vars => SessionInv'
  <2> SUFFICES ASSUME SessionInv, [Next]_vars PROVE SessionInv'
    OBVIOUS
  <2>a. TypeOK /\ Called /\ EffectInv /\ AccountInv /\ EndInv /\ NoneLost
    BY DEF SessionInv
  <2>1. CASE ReaderNext \/ MainNext
    BY <2>a, <2>1, TypeInput, CalledInput, EffectInput, AccountInput, EndReader, EndMain
    DEF SessionInv
  <2>2. CASE \E w \in Worker : WorkerNext(w)
    BY <2>a, <2>2, TypeWorker, CalledWorker, EffectWorker, AccountWorker, EndWorker, NoneLostWorker
    DEF SessionInv
  <2>3. CASE Meddles
    <3>1. TypeOK'
      BY <2>a, <2>3, MeddlesStep
    <3>2. UNCHANGED <<inputVars, main, stopped, queue, worker, issued, vault, outputVars, fatal,
                      result>>
      BY <2>3 DEF Meddles
    <3>3. Called'
      BY <2>a, <3>2, CalledStutter DEF inputVars, outputVars
    <3>4. EffectInv'
      BY <2>a, <2>3, EffectMeddles
    <3>5. AccountInv'
      BY <2>a, <3>2, AccountQuiet DEF inputVars, outputVars, Answering, InHand
    <3>6. EndInv'
      BY <2>a, <3>2 DEF inputVars, EndInv, HungUp, Joinable
    <3>7. NoneLost'
      BY <2>a, <3>2
      DEF inputVars, outputVars, NoneLost, Accounted, Waits, Held, Mine, Handed, InHand, Answering
    <3> QED BY <3>1, <3>3, <3>4, <3>5, <3>6, <3>7 DEF SessionInv
  <2>4. CASE UNCHANGED vars
    <3>1. TypeOK'
      BY <2>a, <2>4, TypeStutter, OutputStutter DEF vars, TypeOK, InputOK
    <3>2. Called' /\ EffectInv'
      BY <2>a, <2>4, CalledStutter, EffectStutter DEF vars, Call
    <3>3. AccountInv'
      BY <2>a, <2>4, AccountQuiet DEF vars, Answering, InHand
    <3>4. EndInv'
      BY <2>a, <2>4 DEF vars, EndInv, HungUp, Joinable
    <3>5. NoneLost'
      BY <2>a, <2>4 DEF vars, NoneLost, Accounted, Waits, Held, Mine, Handed, InHand, Answering
    <3> QED BY <3>1, <3>2, <3>3, <3>4, <3>5 DEF SessionInv
  <2> QED BY <2>1, <2>2, <2>3, <2>4 DEF Next, Finished
<1> QED BY <1>1, <1>2, PTL DEF Spec

\* However many workers hold the same preview, and whatever others do to the files meanwhile, it
\* changes a file a second time only if it found it absent and somebody has deleted it since, and
\* only through the tool of its own kind (PreviewVault::get never uses a preview up).
THEOREM PreviewTakesEffectOnce == Spec => []TakesEffectOnce
<1>1. SessionInv => TakesEffectOnce
  BY DEF SessionInv, EffectInv
<1> QED BY <1>1, SessionInvariant, PTL

\* Whatever the vault's limit, a client is told that its preview is not there only when as many
\* newer ones were made since (PreviewVault::remember).
THEOREM RefusedIsEvicted == Spec => []RefusedOnlyIfEvicted
<1>1. SessionInv => RefusedOnlyIfEvicted
  BY DEF SessionInv, EffectInv
<1> QED BY <1>1, SessionInvariant, PTL

\* However the threads interleave, no request is answered twice, and a session that ends without an
\* error has answered everything it read (run_with_input).
THEOREM CleanEnd == Spec => []CleanEndAnswersAll
<1>1. ASSUME SessionInv PROVE CleanEndAnswersAll
  <2>1. TypeOK /\ Called /\ AccountInv /\ EndInv /\ NoneLost
    BY <1>1 DEF SessionInv
  <2>2. ASSUME main.at = "done", result = "ok", NEW i \in DOMAIN asked,
               asked[i].what # "notification"
        PROVE  answers[i] = 1
    <3>1. ~ fatal /\ reader.at = "gone"
      BY <2>1, <2>2 DEF EndInv, Over
    <3>2. \A w \in Worker : worker[w].at = "gone"
      BY <2>1, <2>2 DEF EndInv, Joinable
    <3>3. queue = <<>> /\ \A w \in Worker : worker[w].call = 0
      BY <2>1, <3>1, <3>2, SessionAssumption DEF EndInv
    <3>4. ~ Waits(i)
      BY <3>3 DEF Waits
    <3>5. ~ Held(i) /\ ~ Mine(i) /\ ~ Handed(i)
      BY <2>2, <3>1, <3>3 DEF Held, Mine, Answering, Handed, InHand
    <3>6. Accounted(i)
      BY <2>1, <2>2, <3>1 DEF NoneLost
    <3> QED BY <2>2, <3>4, <3>5, <3>6 DEF Accounted
  <2> QED BY <2>1, <2>2 DEF AccountInv, CleanEndAnswersAll
<1> QED BY <1>1, SessionInvariant, PTL

-----------------------------------------------------------------------------
(* The set-up of the Claude adapter.                                       *)

HomeFields == {"executables", "server", "depth", "pointer"}

ClaudeShape ==
    /\ claudeHome = [f \in HomeFields |-> claudeHome[f]]
    /\ DOMAIN claudeJob = {"at", "kind", "server", "previous", "overwrite", "done", "found",
                           "before", "left"}
    /\ DOMAIN claudeHistory = {"start", "quiet", "clean", "original", "target", "overlooked"}
    /\ claudeHistory.quiet \in BOOLEAN /\ claudeHistory.clean \in BOOLEAN
    /\ claudeReceipts \in Seq({claudeReceipts[i] : i \in 1 .. Len(claudeReceipts)})
    /\ claudeHome.pointer \in 0 .. Len(claudeReceipts)

(* Before Casefile there was a home without any of it. *)
ClaudeOriginal ==
    /\ claudeHistory.original = [f \in HomeFields |-> claudeHistory.original[f]]
    /\ claudeHistory.original.executables = {}
    /\ claudeHistory.original.pointer = 0
    /\ claudeHistory.original.depth \in Claude!Depth

(* The receipt in force stays in force as long as a command runs. *)
ClaudePlan ==
    LET j == claudeJob IN
      j.at # "idle" =>
        /\ j.previous \in 0 .. Len(claudeReceipts)
        /\ j.previous = claudeHistory.start.pointer
        /\ j.previous = claudeHome.pointer
        /\ \/ /\ j.kind = "install"
              /\ j.at \in Claude!InstallSteps \cup Claude!UndoSteps
              /\ j.server.version = claudeHistory.target
           \/ /\ j.kind = "uninstall"
              /\ j.at \in Claude!RemovalSteps \cup Claude!RestoreSteps
              /\ j.previous # 0
              /\ j.server = claudeHistory.start.server

(* The depth that a removal is to restore: what was there before Casefile. *)
DepthBefore ==
    IF claudeJob.previous = 0 THEN claudeHistory.start.depth
    ELSE claudeReceipts[claudeJob.previous].before

(* A depth that came back after a failed first installation. *)
DepthBack(d) == d \in {claudeHistory.start.depth, Claude!Printed(claudeHistory.start.depth)}

(* Undone: the binding is back, the depth of a first installation, and no  *)
(* executable is more than there was.                                       *)
ClaudeInstalls ==
    LET j == claudeJob
        start == claudeHistory.start
        undone == j.at = "undoCopy" \/ (j.at = "report" /\ "failed" \notin j.done)
    IN
      claudeHistory.quiet /\ j.at # "idle" /\ j.kind = "install" =>
        /\ j.previous = 0 => start.server = None \/ claudeHistory.overlooked
        /\ IF j.at = "begin" THEN claudeHome.server = start.server
           ELSE j.found = start.server
        /\ j.at \in {"register", "remove", "add"} => "registering" \in j.done
        /\ "registering" \notin j.done => claudeHome.server = start.server
        /\ claudeHome.executables \ {claudeHistory.target}
             = start.executables \ {claudeHistory.target}
        /\ "copied" \notin j.done => claudeHome.executables = start.executables
        /\ j.at = "report" /\ "failed" \notin j.done =>
             claudeHome.executables \subseteq start.executables
        /\ "deepened" \notin j.done => claudeHome.depth = start.depth
        /\ "deepened" \in j.done => j.before = DepthBefore
        /\ j.at = "writeDepth" => j.before = start.depth
        /\ j.at \in Claude!InstallSteps =>
             ("deepened" \in j.done <=> j.at \in {"receipt", "point"})
        /\ undone \/ j.at = "undoCheck" => claudeHome.server = start.server
        /\ (undone \/ j.at \in {"undoConfig", "undoCheck"}) /\ j.previous = 0 =>
             DepthBack(claudeHome.depth)
        /\ j.at = "point" =>
             LET r == claudeReceipts[Len(claudeReceipts)] IN
               /\ claudeReceipts # <<>>
               /\ r.before = j.before
               /\ r.owned = {j.server.version} \cup
                    (IF j.previous = 0 THEN {} ELSE claudeReceipts[j.previous].owned)

(* What a removal has taken away, and that a failed one puts it back. *)
ClaudeRemoves ==
    LET j == claudeJob
        start == claudeHistory.start
        owned == claudeReceipts[j.previous].owned
        kept == start.executables \ owned
    IN
      claudeHistory.quiet /\ j.at # "idle" /\ j.kind = "uninstall" =>
        /\ owned \subseteq start.executables
        /\ claudeHome.executables \ owned = kept
        /\ j.at \in Claude!RemovalSteps => claudeHome.executables \cap owned = j.left
        /\ j.at = "unpoint" => j.left = {}
        /\ j.at \in Claude!RestoreSteps \ {"putBack"} => owned \subseteq claudeHome.executables
        /\ j.at \in {"clearDepth", "unlink", "unpoint"} => claudeHome.server = None
        /\ j.at \in {"unlink", "unpoint"} =>
             claudeHome.depth = Claude!Restored(claudeReceipts[j.previous].before)
        /\ j.at = "repoint" => claudeHome.server = j.server

(* What Casefile has to know of a home to give it back. *)
ClaudeKeeps(h) ==
    LET original == claudeHistory.original IN
    /\ h.pointer = 0 =>
         /\ h.executables = {}
         /\ h.server = original.server \/ claudeHistory.overlooked
         /\ Claude!Plain(original.depth) => h.depth = original.depth
    /\ h.pointer # 0 =>
         /\ original.server = None \/ claudeHistory.overlooked
         /\ Claude!Plain(original.depth) => claudeReceipts[h.pointer].before = original.depth
         /\ h.executables \subseteq claudeReceipts[h.pointer].owned

ClaudeClean ==
    claudeHistory.clean =>
      /\ claudeJob.at = "idle" =>
           /\ ClaudeKeeps(claudeHome)
           /\ claudeOutcome = "uninstalled" => claudeHome.pointer = 0
      /\ claudeJob.at # "idle" => claudeHistory.quiet /\ ClaudeKeeps(claudeHistory.start)

(* What is told as undone is. *)
ClaudeUndone ==
    claudeHistory.quiet /\ claudeJob.at = "idle" /\ claudeOutcome = "undone" =>
      LET start == claudeHistory.start IN
        /\ claudeHome.server = start.server
        /\ claudeHome.pointer = start.pointer
        /\ claudeHome.executables \ {claudeHistory.target}
             = start.executables \ {claudeHistory.target}
        /\ claudeHome.pointer = 0 => DepthBack(claudeHome.depth)

ClaudeInvariant ==
    /\ ClaudeShape /\ ClaudeOriginal /\ ClaudePlan /\ ClaudeInstalls /\ ClaudeRemoves
    /\ ClaudeClean /\ ClaudeUndone

(* A plain depth is written back as it was, by a failed installation as by a removal. *)
LEMMA PlainDepths ==
  ASSUME NEW d \in Claude!Depth, Claude!Plain(d)
  PROVE  Claude!Printed(d) = d /\ Claude!Restored(d) = d
<1>1. CASE d = None
  BY <1>1 DEF Claude!Printed, Claude!Restored
<1>2. CASE d # None
  <2>1. d.type = "decimal"
    BY <1>2 DEF Claude!Plain
  <2>2. d \in [type : {"decimal", "padded", "number", "word"}, value : Nat]
    BY <1>2 DEF Claude!Depth
  <2>3. d = [type |-> "decimal", value |-> d.value]
    BY <2>1, <2>2
  <2> QED BY <1>2, <2>1, <2>3 DEF Claude!Printed, Claude!Restored, Claude!Decimal
<1> QED BY <1>1, <1>2

(* A sequence with one more at its end. *)
LEMMA Appended ==
  ASSUME NEW s, s \in Seq({s[i] : i \in 1 .. Len(s)}), NEW e, NEW t, t = Append(s, e)
  PROVE  /\ Len(s) \in Nat /\ Len(t) = Len(s) + 1
         /\ t \in Seq({t[i] : i \in 1 .. Len(t)})
         /\ t[Len(t)] = e /\ \A i \in 1 .. Len(s) : t[i] = s[i]
<1> DEFINE S == {s[i] : i \in 1 .. Len(s)}
           T == {t[i] : i \in 1 .. Len(t)}
<1>1. s \in Seq(S)
  OBVIOUS
<1> HIDE DEF S
<1>2. Len(s) \in Nat /\ s \in Seq(S \cup {e})
  BY <1>1
<1>3. t \in Seq(S \cup {e}) /\ Len(t) = Len(s) + 1
      /\ t[Len(t)] = e /\ \A i \in 1 .. Len(s) : t[i] = s[i]
  BY <1>2
<1>4. \A i \in 1 .. Len(t) : t[i] \in T
  OBVIOUS
<1> HIDE DEF T
<1>5. t \in Seq(T)
  BY <1>3, <1>4
<1> QED BY <1>2, <1>3, <1>5 DEF T

(* What a step leaves of the job when it only moves it on. *)
LEMMA ClaudeGoes ==
  ASSUME ClaudeShape, NEW step, Claude!Goto(step)
  PROVE  /\ DOMAIN claudeJob' = DOMAIN claudeJob
         /\ claudeJob'.at = step /\ claudeJob'.kind = claudeJob.kind
         /\ claudeJob'.server = claudeJob.server /\ claudeJob'.previous = claudeJob.previous
         /\ claudeJob'.done = claudeJob.done /\ claudeJob'.found = claudeJob.found
         /\ claudeJob'.before = claudeJob.before /\ claudeJob'.left = claudeJob.left
BY DEF Claude!Goto, ClaudeShape

(* One field of the home is set. *)
LEMMA ClaudeSets ==
  ASSUME ClaudeShape, NEW field \in HomeFields, NEW value, Claude!Set(field, value)
  PROVE  /\ claudeHome' = [f \in HomeFields |-> claudeHome'[f]]
         /\ claudeHome'[field] = value
         /\ \A f \in HomeFields \ {field} : claudeHome'[f] = claudeHome[f]
BY DEF Claude!Set, ClaudeShape

(* What holds of a home, of the receipts and of what there was before       *)
(* Casefile stays so.                                                       *)
LEMMA ClaudeFramed ==
  ASSUME ClaudeShape, ClaudeOriginal, UNCHANGED claudeReceipts,
         claudeHome' = [f \in HomeFields |-> claudeHome'[f]],
         claudeHome'.pointer \in 0 .. Len(claudeReceipts),
         DOMAIN claudeJob' = DOMAIN claudeJob,
         DOMAIN claudeHistory' = DOMAIN claudeHistory,
         claudeHistory'.original = claudeHistory.original,
         claudeHistory'.quiet \in BOOLEAN, claudeHistory'.clean \in BOOLEAN
  PROVE  ClaudeShape' /\ ClaudeOriginal'
<1>1. ClaudeOriginal'
  BY DEF ClaudeOriginal
<1>2. ClaudeShape'
  BY DEF ClaudeShape
<1> QED BY <1>1, <1>2

(* A command goes on under the same receipt, and what it has done so far is *)
(* in order.                                                                *)
LEMMA ClaudeGoesOn ==
  ASSUME ClaudeInvariant, claudeJob.at # "idle", DOMAIN claudeJob' = DOMAIN claudeJob,
         claudeJob'.kind = claudeJob.kind, claudeJob'.server = claudeJob.server,
         claudeJob'.previous = claudeJob.previous,
         UNCHANGED <<claudeReceipts, claudeOutcome, claudeHistory>>,
         claudeHome' = [f \in HomeFields |-> claudeHome'[f]],
         claudeHome'.pointer = claudeHome.pointer,
         \/ /\ claudeJob.kind = "install"
            /\ claudeJob'.at \in Claude!InstallSteps \cup Claude!UndoSteps
         \/ /\ claudeJob.kind = "uninstall"
            /\ claudeJob'.at \in Claude!RemovalSteps \cup Claude!RestoreSteps,
         ClaudeInstalls', ClaudeRemoves'
  PROVE  ClaudeInvariant'
<1> USE DEF ClaudeInvariant
<1>1. claudeJob'.at # "idle"
  BY DEF Claude!InstallSteps, Claude!UndoSteps, Claude!RemovalSteps, Claude!RestoreSteps
<1>2. ClaudeShape' /\ ClaudeOriginal'
  <2>1. claudeHome.pointer \in 0 .. Len(claudeReceipts)
        /\ claudeHistory.quiet \in BOOLEAN /\ claudeHistory.clean \in BOOLEAN
    BY DEF ClaudeShape
  <2> QED BY <2>1, ClaudeFramed
<1>3. ClaudePlan'
  BY <1>1 DEF ClaudePlan
<1>4. ClaudeClean'
  BY <1>1 DEF ClaudeClean, ClaudeKeeps
<1>5. ClaudeUndone'
  BY <1>1 DEF ClaudeUndone, DepthBack
<1> QED BY <1>2, <1>3, <1>4, <1>5

(* At first there is nothing of Casefile. *)
LEMMA ClaudeStarts ==
  ASSUME Claude!Init PROVE ClaudeInvariant
<1>1. /\ claudeHome \in [executables : {{}}, server : {None, Foreign}, depth : UserDepth,
                         pointer : {0}]
      /\ claudeReceipts = <<>> /\ claudeOutcome = "none"
      /\ claudeHistory = [start |-> claudeHome, quiet |-> TRUE, clean |-> TRUE,
                          original |-> claudeHome, target |-> None, overlooked |-> FALSE]
      /\ claudeJob = Claude!Idle
  BY DEF Claude!Init
<1>2. claudeJob.at = "idle"
      /\ DOMAIN claudeJob = {"at", "kind", "server", "previous", "overwrite", "done", "found",
                             "before", "left"}
  BY <1>1 DEF Claude!Idle
<1>3. ClaudeShape /\ ClaudeOriginal
  BY <1>1, <1>2, ClaudeHolds DEF ClaudeShape, ClaudeOriginal, HomeFields, Claude!ClaudeAssumption
<1>4. ClaudePlan /\ ClaudeInstalls /\ ClaudeRemoves
  BY <1>2 DEF ClaudePlan, ClaudeInstalls, ClaudeRemoves
<1>5. ClaudeClean /\ ClaudeUndone
  BY <1>1, <1>2 DEF ClaudeClean, ClaudeKeeps, ClaudeUndone
<1> QED BY <1>3, <1>4, <1>5 DEF ClaudeInvariant

(* A command begins: the home it starts from is the one that is there. *)
LEMMA ClaudeBegins ==
  ASSUME ClaudeInvariant, NEW target, NEW kind, NEW where,
         claudeJob.at = "idle",
         UNCHANGED <<claudeHome, claudeReceipts, claudeOutcome>>,
         DOMAIN claudeHistory' = DOMAIN claudeHistory,
         claudeHistory'.start = claudeHome, claudeHistory'.quiet = TRUE,
         claudeHistory'.target = target, claudeHistory'.clean = claudeHistory.clean,
         claudeHistory'.original = claudeHistory.original,
         NEW seen, claudeHistory'.overlooked = seen, claudeHistory.overlooked => seen,
         DOMAIN claudeJob' = DOMAIN claudeJob, claudeJob'.at = where, claudeJob'.kind = kind,
         claudeJob'.previous = claudeHome.pointer,
         \/ /\ kind = "install" /\ where = "begin" /\ claudeJob'.server.version = target
            /\ claudeJob'.done = {}
            /\ claudeHome.pointer = 0 => claudeHome.server = None \/ seen
         \/ /\ kind = "uninstall" /\ where = "unregister" /\ claudeHome.pointer # 0
            /\ claudeJob'.left = claudeReceipts[claudeHome.pointer].owned
            /\ claudeReceipts[claudeHome.pointer].owned \subseteq claudeHome.executables
            /\ claudeJob'.server = claudeHome.server
  PROVE  ClaudeInvariant'
<1> USE DEF ClaudeInvariant
<1>2. ClaudeShape' /\ ClaudeOriginal'
  <2>1. /\ claudeHome' = [f \in HomeFields |-> claudeHome'[f]]
        /\ claudeHome'.pointer \in 0 .. Len(claudeReceipts)
        /\ claudeHistory'.quiet \in BOOLEAN /\ claudeHistory'.clean \in BOOLEAN
    BY DEF ClaudeShape
  <2> QED BY <2>1, ClaudeFramed
<1>3. ClaudePlan'
  BY DEF ClaudePlan, ClaudeShape, Claude!InstallSteps, Claude!RemovalSteps
<1>4. ClaudeInstalls'
  BY DEF ClaudeInstalls, Claude!InstallSteps
<1>5. ClaudeRemoves'
  BY DEF ClaudeRemoves, Claude!RemovalSteps, Claude!RestoreSteps
<1>6. ClaudeClean' /\ ClaudeUndone'
  BY DEF ClaudeClean, ClaudeKeeps, ClaudeUndone
<1> QED BY <1>2, <1>3, <1>4, <1>5, <1>6

(* An installation and a removal begin with the receipt in force. *)
LEMMA ClaudePrepares ==
  ASSUME ClaudeInvariant,
         \/ \E v \in Release, r \in Root, overwrite \in BOOLEAN :
              Claude!Prepare(v, r, overwrite) \/ Claude!PrepareBlind(v, r, overwrite)
         \/ Claude!PrepareRemoval
  PROVE  ClaudeInvariant'
<1>1. /\ DOMAIN claudeJob = {"at", "kind", "server", "previous", "overwrite", "done", "found",
                             "before", "left"}
      /\ DOMAIN claudeHistory = {"start", "quiet", "clean", "original", "target", "overlooked"}
  BY DEF ClaudeInvariant, ClaudeShape
<1>2. ASSUME NEW v \in Release, NEW r \in Root, NEW overwrite \in BOOLEAN,
             Claude!Prepare(v, r, overwrite) \/ Claude!PrepareBlind(v, r, overwrite)
      PROVE  ClaudeInvariant'
  <2>1. claudeJob.at = "idle" /\ UNCHANGED <<claudeHome, claudeReceipts, claudeOutcome>>
    BY <1>2 DEF Claude!Prepare, Claude!PrepareBlind, Claude!Starts
  <2>2. PICK seen :
          /\ DOMAIN claudeHistory' = DOMAIN claudeHistory
          /\ claudeHistory'.start = claudeHome /\ claudeHistory'.quiet = TRUE
          /\ claudeHistory'.target = v /\ claudeHistory'.clean = claudeHistory.clean
          /\ claudeHistory'.original = claudeHistory.original
          /\ claudeHistory'.overlooked = seen /\ (claudeHistory.overlooked => seen)
          /\ claudeHome.pointer = 0 => claudeHome.server = None \/ seen
    <3>1. CASE Claude!Prepare(v, r, overwrite)
      <4>1. /\ claudeHistory' = [claudeHistory EXCEPT !.start = claudeHome, !.quiet = TRUE,
                                                      !.target = v]
            /\ claudeHome.pointer = 0 => claudeHome.server = None
        BY <3>1 DEF Claude!Prepare, Claude!MayInstall
      <4> QED BY <1>1, <4>1
    <3>2. CASE Claude!PrepareBlind(v, r, overwrite)
      <4>1. claudeHistory' = [claudeHistory EXCEPT !.start = claudeHome, !.quiet = TRUE,
                                                   !.target = v, !.overlooked = TRUE]
        BY <3>2 DEF Claude!PrepareBlind
      <4> QED BY <1>1, <4>1
    <3> QED BY <1>2, <3>1, <3>2
  <2>3. claudeJob' = [Claude!Idle EXCEPT !.at = "begin", !.kind = "install",
                        !.server = [version |-> v, root |-> r],
                        !.previous = claudeHome.pointer, !.overwrite = overwrite]
    BY <1>2 DEF Claude!Prepare, Claude!PrepareBlind, Claude!Starts
  <2>4. /\ DOMAIN claudeJob' = DOMAIN claudeJob /\ claudeJob'.at = "begin"
        /\ claudeJob'.kind = "install" /\ claudeJob'.previous = claudeHome.pointer
        /\ claudeJob'.server.version = v /\ claudeJob'.done = {}
    BY <1>1, <2>3 DEF Claude!Idle
  <2> QED BY <2>1, <2>2, <2>4, ClaudeBegins
<1>3. CASE Claude!PrepareRemoval
  <2>1. /\ claudeJob.at = "idle" /\ UNCHANGED <<claudeHome, claudeReceipts, claudeOutcome>>
        /\ claudeHistory' = [claudeHistory EXCEPT !.start = claudeHome, !.quiet = TRUE,
                                                  !.target = None]
        /\ claudeHome.pointer # 0
        /\ claudeReceipts[claudeHome.pointer].owned \subseteq claudeHome.executables
        /\ claudeHome.server = Claude!EntryOf(claudeReceipts[claudeHome.pointer])
    BY <1>3 DEF Claude!PrepareRemoval
  <2>2. /\ DOMAIN claudeHistory' = DOMAIN claudeHistory
        /\ claudeHistory'.start = claudeHome /\ claudeHistory'.quiet = TRUE
        /\ claudeHistory'.target = None /\ claudeHistory'.clean = claudeHistory.clean
        /\ claudeHistory'.original = claudeHistory.original
        /\ claudeHistory'.overlooked = claudeHistory.overlooked
    BY <1>1, <2>1
  <2>3. /\ DOMAIN claudeJob' = DOMAIN claudeJob /\ claudeJob'.at = "unregister"
        /\ claudeJob'.kind = "uninstall" /\ claudeJob'.previous = claudeHome.pointer
        /\ claudeJob'.left = claudeReceipts[claudeHome.pointer].owned
        /\ claudeJob'.server = Claude!EntryOf(claudeReceipts[claudeHome.pointer])
    BY <1>1, <1>3 DEF Claude!PrepareRemoval, Claude!Idle
  <2> QED BY <2>1, <2>2, <2>3, ClaudeBegins
<1> QED BY <1>2, <1>3

(* Steps of an installation, and of undoing it, that change one thing at most. *)
LEMMA ClaudeInstallSteps ==
  ASSUME ClaudeInvariant,
         \/ Claude!Begin \/ Claude!Copy \/ Claude!Probe \/ Claude!ReadDepth \/ Claude!WriteDepth
         \/ Claude!InstallFails \/ Claude!UndoDepth \/ Claude!UndoConfig \/ Claude!UndoCheck
         \/ Claude!UndoCheckBlind \/ Claude!UndoFails \/ Claude!UndoCopy
  PROVE  ClaudeInvariant'
<1> USE DEF ClaudeInvariant, Claude!InstallSteps, Claude!UndoSteps
<1>1. /\ UNCHANGED <<claudeReceipts, claudeOutcome, claudeHistory>>
      /\ claudeJob.kind = "install" /\ claudeJob.at # "idle"
  <2>1. claudeJob.kind = "install" \/ claudeJob.at \in {"begin", "copy", "probe", "readDepth",
          "writeDepth", "undoDepth", "undoConfig", "undoCheck", "undoCopy"}
    BY DEF Claude!Begin, Claude!Copy, Claude!Probe, Claude!ReadDepth,
       Claude!WriteDepth, Claude!InstallFails, Claude!UndoDepth, Claude!UndoConfig,
       Claude!UndoCheck, Claude!UndoCheckBlind, Claude!UndoFails, Claude!UndoCopy
  <2>2. claudeJob.at # "idle"
    BY DEF Claude!Begin, Claude!Copy, Claude!Probe, Claude!ReadDepth,
       Claude!WriteDepth, Claude!InstallFails, Claude!UndoDepth, Claude!UndoConfig,
       Claude!UndoCheck, Claude!UndoCheckBlind, Claude!UndoFails, Claude!UndoCopy
  <2>3. UNCHANGED <<claudeReceipts, claudeOutcome, claudeHistory>>
    BY DEF Claude!Begin, Claude!Copy, Claude!Probe, Claude!ReadDepth,
       Claude!WriteDepth, Claude!InstallFails, Claude!UndoDepth, Claude!UndoConfig,
       Claude!UndoCheck, Claude!UndoCheckBlind, Claude!UndoFails, Claude!UndoCopy
  <2> QED BY <2>1, <2>2, <2>3 DEF ClaudePlan, Claude!RemovalSteps, Claude!RestoreSteps
<1>2. claudeHome = [f \in HomeFields |-> claudeHome[f]] /\ claudeHistory.quiet \in BOOLEAN
  BY DEF ClaudeShape
<1>3. claudeJob.server.version = claudeHistory.target
  BY <1>1 DEF ClaudePlan
<1> DEFINE Same == /\ DOMAIN claudeJob' = DOMAIN claudeJob
                   /\ claudeJob'.kind = claudeJob.kind
                   /\ claudeJob'.server = claudeJob.server
                   /\ claudeJob'.previous = claudeJob.previous
           Rest == \A f \in HomeFields : claudeHome'[f] = claudeHome[f]
           OnlySets(field) == /\ claudeHome' = [f \in HomeFields |-> claudeHome'[f]]
                          /\ \A f \in HomeFields \ {field} : claudeHome'[f] = claudeHome[f]
<1>4. ASSUME Same, claudeHome' = [f \in HomeFields |-> claudeHome'[f]],
             claudeHome'.pointer = claudeHome.pointer,
             claudeJob'.at \in Claude!InstallSteps \cup Claude!UndoSteps, ClaudeInstalls'
      PROVE  ClaudeInvariant'
  <2>1. ClaudeRemoves'
    BY <1>1, <1>4 DEF ClaudeRemoves
  <2> QED BY <1>1, <1>4, <2>1, ClaudeGoesOn
<1>5. CASE Claude!Begin
  <2>1. /\ claudeJob.at = "begin" /\ Same /\ claudeHome' = claudeHome
        /\ claudeJob'.at = "copy" /\ claudeJob'.done = claudeJob.done
        /\ claudeJob'.before = claudeJob.before /\ claudeJob'.found = claudeHome.server
    BY <1>5 DEF Claude!Begin, ClaudeShape
  <2>2. ClaudeInstalls'
    BY <1>1, <2>1 DEF ClaudeInstalls, DepthBefore, DepthBack
  <2> QED BY <1>2, <1>4, <2>1, <2>2
<1>6. CASE Claude!Copy
  <2>1. /\ claudeJob.at = "copy" /\ Same
        /\ claudeJob'.at = "probe" /\ claudeJob'.done = claudeJob.done \cup {"copied"}
        /\ claudeJob'.before = claudeJob.before /\ claudeJob'.found = claudeJob.found
    BY <1>6 DEF Claude!Copy, ClaudeShape
  <2>2. /\ OnlySets("executables")
        /\ claudeHome'.executables = claudeHome.executables \cup {claudeHistory.target}
    BY <1>3, <1>6, ClaudeSets DEF Claude!Copy, HomeFields
  <2>3. ClaudeInstalls'
    BY <1>1, <2>1, <2>2 DEF ClaudeInstalls, DepthBefore, DepthBack, HomeFields
  <2> QED BY <1>4, <2>1, <2>2, <2>3 DEF HomeFields
<1>7. CASE Claude!Probe
  <2>1. /\ claudeJob.at = "probe" /\ Same /\ claudeHome' = claudeHome
        /\ claudeJob'.at = "register" /\ claudeJob'.done = claudeJob.done \cup {"registering"}
        /\ claudeJob'.before = claudeJob.before /\ claudeJob'.found = claudeJob.found
    BY <1>7 DEF Claude!Probe, ClaudeShape
  <2>2. ClaudeInstalls'
    BY <1>1, <2>1 DEF ClaudeInstalls, DepthBefore, DepthBack
  <2> QED BY <1>2, <1>4, <2>1, <2>2
<1>8. CASE Claude!ReadDepth
  <2>1. /\ claudeJob.at = "readDepth" /\ Same /\ claudeHome' = claudeHome
        /\ claudeJob'.at = "writeDepth" /\ claudeJob'.done = claudeJob.done
        /\ claudeJob'.before = claudeHome.depth /\ claudeJob'.found = claudeJob.found
    BY <1>8 DEF Claude!ReadDepth, ClaudeShape
  <2>2. ClaudeInstalls'
    BY <1>1, <2>1 DEF ClaudeInstalls, DepthBefore, DepthBack
  <2> QED BY <1>2, <1>4, <2>1, <2>2
<1>9. CASE Claude!WriteDepth
  <2>1. /\ claudeJob.at = "writeDepth" /\ Same
        /\ claudeJob'.at = "receipt" /\ claudeJob'.done = claudeJob.done \cup {"deepened"}
        /\ claudeJob'.before = Claude!RecordedDepth /\ claudeJob'.found = claudeJob.found
    BY <1>9 DEF Claude!WriteDepth, ClaudeShape
  <2>2. OnlySets("depth")
    BY <1>9, ClaudeSets DEF Claude!WriteDepth, HomeFields
  <2>3. ClaudeInstalls'
    BY <1>1, <2>1, <2>2 DEF ClaudeInstalls, DepthBefore, DepthBack,
       HomeFields, Claude!RecordedDepth, Claude!Previous
  <2> QED BY <1>4, <2>1, <2>2, <2>3 DEF HomeFields
<1>10. CASE Claude!InstallFails
  <2>1. Claude!Goto("undoDepth") /\ claudeHome' = claudeHome /\ claudeJob.at # "begin"
    BY <1>10 DEF Claude!InstallFails
  <2>2. ClaudeInstalls'
    BY <1>1, <2>1, ClaudeGoes DEF ClaudeInstalls, DepthBefore, DepthBack
  <2> QED BY <1>2, <1>4, <2>1, <2>2, ClaudeGoes
<1>11. CASE Claude!UndoDepth
  <2>1. /\ claudeJob.at = "undoDepth" /\ Claude!Goto("undoConfig")
        /\ IF "deepened" \in claudeJob.done THEN Claude!Set("depth", Claude!Printed(claudeJob.before))
           ELSE UNCHANGED claudeHome
    BY <1>11 DEF Claude!UndoDepth
  <2>2. /\ OnlySets("depth")
        /\ claudeHome'.depth = IF "deepened" \in claudeJob.done
                                 THEN Claude!Printed(claudeJob.before)
                                 ELSE claudeHome.depth
    BY <1>2, <2>1, ClaudeSets DEF HomeFields
  <2>3. ClaudeInstalls'
    BY <1>1, <2>1, <2>2, ClaudeGoes DEF ClaudeInstalls, DepthBefore, DepthBack, HomeFields
  <2> QED BY <1>4, <2>1, <2>2, <2>3, ClaudeGoes DEF HomeFields
<1>12. CASE Claude!UndoConfig
  <2>1. /\ claudeJob.at = "undoConfig" /\ Claude!Goto("undoCheck")
        /\ Claude!Set("server", Claude!ConfigBefore)
    BY <1>12 DEF Claude!UndoConfig
  <2>2. OnlySets("server")
        /\ claudeHome'.server = IF "registering" \in claudeJob.done THEN claudeJob.found
                                ELSE claudeHome.server
    BY <2>1, ClaudeSets DEF HomeFields, Claude!ConfigBefore
  <2>3. ClaudeInstalls'
    BY <1>1, <2>1, <2>2, ClaudeGoes DEF ClaudeInstalls, DepthBefore, DepthBack, HomeFields
  <2> QED BY <1>4, <2>1, <2>2, <2>3, ClaudeGoes DEF HomeFields
<1>13. CASE Claude!UndoCheck \/ Claude!UndoCheckBlind
  <2>1. /\ claudeJob.at = "undoCheck" /\ Same /\ claudeHome' = claudeHome
        /\ claudeJob'.before = claudeJob.before /\ claudeJob'.found = claudeJob.found
        /\ \/ claudeJob'.at = "undoCopy" /\ claudeJob'.done = claudeJob.done
           \/ claudeJob'.at = "report" /\ claudeJob'.done = claudeJob.done \cup {"failed"}
    BY <1>13 DEF Claude!UndoCheck, Claude!UndoCheckBlind, Claude!Goto, ClaudeShape
  <2>2. ClaudeInstalls'
    BY <1>1, <2>1 DEF ClaudeInstalls, DepthBefore, DepthBack
  <2> QED BY <1>2, <1>4, <2>1, <2>2
<1>14. CASE Claude!UndoFails
  <2>1. /\ claudeJob.at \in {"undoDepth", "undoConfig", "undoCheck"} /\ Same
        /\ claudeHome' = claudeHome /\ claudeJob'.before = claudeJob.before
        /\ claudeJob'.found = claudeJob.found
        /\ claudeJob'.at = "report" /\ claudeJob'.done = claudeJob.done \cup {"failed"}
    BY <1>14 DEF Claude!UndoFails, ClaudeShape
  <2>2. ClaudeInstalls'
    BY <1>1, <2>1 DEF ClaudeInstalls, DepthBefore, DepthBack
  <2> QED BY <1>2, <1>4, <2>1, <2>2
<1>15. CASE Claude!UndoCopy
  <2>1. /\ claudeJob.at = "undoCopy" /\ Claude!Goto("report")
        /\ IF "copied" \in claudeJob.done
             THEN Claude!Set("executables", claudeHome.executables \ {claudeHistory.target})
             ELSE UNCHANGED claudeHome
    BY <1>3, <1>15 DEF Claude!UndoCopy
  <2>2. /\ OnlySets("executables")
        /\ claudeHome'.executables =
             IF "copied" \in claudeJob.done THEN claudeHome.executables \ {claudeHistory.target}
             ELSE claudeHome.executables
    BY <1>2, <2>1, ClaudeSets DEF HomeFields
  <2>3. ClaudeInstalls'
    BY <1>1, <2>1, <2>2, ClaudeGoes DEF ClaudeInstalls, DepthBefore, DepthBack, HomeFields
  <2> QED BY <1>4, <2>1, <2>2, <2>3, ClaudeGoes DEF HomeFields
<1> QED BY <1>5, <1>6, <1>7, <1>8, <1>9, <1>10, <1>11, <1>12, <1>13, <1>14, <1>15

(* Steps of a registration, which an installation makes as well as a removal that failed. *)
LEMMA ClaudeRegisters ==
  ASSUME ClaudeInvariant,
         \/ Claude!Register \/ Claude!RegisterBlind \/ Claude!RemoveOther \/ Claude!Add
         \/ Claude!AddCorrupt \/ Claude!Check
  PROVE  ClaudeInvariant'
<1> USE DEF ClaudeInvariant
<1>1. PICK step \in {"check", "add", "remove", "readDepth", "repoint"} :
        /\ Claude!Goto(step)
        /\ step \notin {"readDepth", "repoint"} => claudeJob.at \in {"register", "remove", "add"}
        /\ step \in {"readDepth", "repoint"} =>
             /\ claudeJob.at = "check"
             /\ step = IF claudeJob.kind = "install" THEN "readDepth" ELSE "repoint"
             /\ claudeHome' = claudeHome
             /\ claudeHome.server = claudeJob.server
  <2>1. Claude!Register \/ Claude!RegisterBlind \/ Claude!RemoveOther \/ Claude!Add
          \/ Claude!AddCorrupt =>
          claudeJob.at \in {"register", "remove", "add"}
    BY DEF Claude!Register, Claude!RegisterBlind, Claude!RemoveOther, Claude!Add,
       Claude!AddCorrupt
  <2>2. Claude!Register \/ Claude!RegisterBlind \/ Claude!RemoveOther \/ Claude!Add
          \/ Claude!AddCorrupt =>
          \E step \in {"check", "add", "remove"} : Claude!Goto(step)
    BY DEF Claude!Register, Claude!RegisterBlind, Claude!RemoveOther, Claude!Add,
       Claude!AddCorrupt
  <2>3. Claude!Check =>
          /\ claudeJob.at = "check" /\ claudeHome' = claudeHome
          /\ claudeHome.server = claudeJob.server
          /\ Claude!Goto(IF claudeJob.kind = "install" THEN "readDepth" ELSE "repoint")
    BY DEF Claude!Check, Claude!Matches
  <2> QED BY <2>1, <2>2, <2>3
<1>2. /\ UNCHANGED <<claudeReceipts, claudeOutcome, claudeHistory>>
      /\ claudeHome' = claudeHome \/ \E value : Claude!Set("server", value)
  BY DEF Claude!Register, Claude!RegisterBlind, Claude!RemoveOther, Claude!Add,
     Claude!AddCorrupt, Claude!Check
<1>3. /\ claudeHome' = [f \in HomeFields |-> claudeHome'[f]]
      /\ \A f \in HomeFields \ {"server"} : claudeHome'[f] = claudeHome[f]
  BY <1>2, ClaudeSets DEF HomeFields, ClaudeShape
<1>4. claudeJob.at # "idle" /\ claudeJob.at \in {"register", "remove", "add", "check"}
  BY <1>1
<1>5. \/ claudeJob.kind = "install" /\ step # "repoint"
      \/ claudeJob.kind = "uninstall" /\ step # "readDepth"
  BY <1>1, <1>4 DEF ClaudePlan
<1>6. ClaudeInstalls'
  BY <1>1, <1>2, <1>3, <1>4, <1>5, ClaudeGoes DEF ClaudeInstalls, DepthBefore, DepthBack,
     HomeFields, Claude!InstallSteps
<1>7. ClaudeRemoves'
  BY <1>1, <1>2, <1>3, <1>4, <1>5, ClaudeGoes DEF ClaudeRemoves, HomeFields,
     Claude!RemovalSteps, Claude!RestoreSteps
<1> QED
  <2>1. claudeHome'.pointer = claudeHome.pointer
    BY <1>3 DEF HomeFields
  <2>2. \/ claudeJob.kind = "install" /\ step \in Claude!InstallSteps \cup Claude!UndoSteps
        \/ claudeJob.kind = "uninstall" /\ step \in Claude!RemovalSteps \cup Claude!RestoreSteps
    BY <1>1, <1>5 DEF Claude!InstallSteps, Claude!RestoreSteps
  <2> QED BY <1>1, <1>2, <1>3, <1>4, <1>6, <1>7, <2>1, <2>2, ClaudeGoes, ClaudeGoesOn

(* Steps of a removal, and the first one of undoing it. *)
LEMMA ClaudeRemovalSteps ==
  ASSUME ClaudeInvariant,
         \/ Claude!Unregister \/ Claude!ClearDepth \/ Claude!Unlink \/ Claude!RemovalFails
         \/ Claude!PutBack
  PROVE  ClaudeInvariant'
<1> USE DEF ClaudeInvariant, Claude!RemovalSteps, Claude!RestoreSteps
<1>1. /\ UNCHANGED <<claudeReceipts, claudeOutcome, claudeHistory>>
      /\ claudeJob.at \in {"unregister", "clearDepth", "unlink", "unpoint", "putBack"}
  BY DEF Claude!Unregister, Claude!ClearDepth, Claude!Unlink, Claude!RemovalFails, Claude!PutBack
<1>2. claudeJob.kind = "uninstall"
  BY <1>1 DEF ClaudePlan, Claude!InstallSteps, Claude!UndoSteps
<1>3. claudeHome = [f \in HomeFields |-> claudeHome[f]] /\ claudeHistory.quiet \in BOOLEAN
  BY DEF ClaudeShape
<1> DEFINE Same == /\ DOMAIN claudeJob' = DOMAIN claudeJob
                   /\ claudeJob'.kind = claudeJob.kind
                   /\ claudeJob'.server = claudeJob.server
                   /\ claudeJob'.previous = claudeJob.previous
           OnlySets(field) == /\ claudeHome' = [f \in HomeFields |-> claudeHome'[f]]
                          /\ \A f \in HomeFields \ {field} : claudeHome'[f] = claudeHome[f]
<1>4. ASSUME Same, claudeHome' = [f \in HomeFields |-> claudeHome'[f]],
             claudeHome'.pointer = claudeHome.pointer,
             claudeJob'.at \in Claude!RemovalSteps \cup Claude!RestoreSteps, ClaudeRemoves'
      PROVE  ClaudeInvariant'
  <2>1. ClaudeInstalls'
    BY <1>2, <1>4 DEF ClaudeInstalls
  <2> QED BY <1>1, <1>2, <1>4, <2>1, ClaudeGoesOn
<1>5. CASE Claude!Unregister
  <2>1. claudeJob.at = "unregister" /\ Claude!Goto("clearDepth") /\ Claude!Set("server", None)
    BY <1>5 DEF Claude!Unregister
  <2>2. OnlySets("server") /\ claudeHome'.server = None
    BY <2>1, ClaudeSets DEF HomeFields
  <2>3. ClaudeRemoves'
    BY <1>1, <1>2, <2>1, <2>2, ClaudeGoes DEF ClaudeRemoves, HomeFields
  <2> QED BY <1>4, <2>1, <2>2, <2>3, ClaudeGoes DEF HomeFields
<1>6. CASE Claude!ClearDepth
  <2>1. /\ claudeJob.at = "clearDepth" /\ Claude!Goto("unlink")
        /\ Claude!Set("depth", Claude!Restored(claudeReceipts[claudeJob.previous].before))
    BY <1>6 DEF Claude!ClearDepth, Claude!Previous
  <2>2. /\ OnlySets("depth")
        /\ claudeHome'.depth = Claude!Restored(claudeReceipts[claudeJob.previous].before)
    BY <2>1, ClaudeSets DEF HomeFields
  <2>3. ClaudeRemoves'
    BY <1>1, <1>2, <2>1, <2>2, ClaudeGoes DEF ClaudeRemoves, HomeFields
  <2> QED BY <1>4, <2>1, <2>2, <2>3, ClaudeGoes DEF HomeFields
<1>7. CASE Claude!Unlink
  <2>1. PICK v \in claudeJob.left :
          /\ Claude!Set("executables", claudeHome.executables \ {v})
          /\ claudeJob' = [claudeJob EXCEPT !.left = @ \ {v},
                             !.at = IF claudeJob.left = {v} THEN "unpoint" ELSE "unlink"]
    BY <1>7 DEF Claude!Unlink
  <2>2. /\ OnlySets("executables") /\ claudeHome'.executables = claudeHome.executables \ {v}
    BY <2>1, ClaudeSets DEF HomeFields
  <2>3. /\ Same /\ claudeJob.at = "unlink" /\ claudeJob'.left = claudeJob.left \ {v}
        /\ claudeJob'.at \in {"unlink", "unpoint"}
        /\ claudeJob'.at = "unpoint" => claudeJob'.left = {}
    BY <1>7, <2>1 DEF ClaudeShape, Claude!Unlink
  <2>4. ClaudeRemoves'
    BY <1>1, <1>2, <2>2, <2>3 DEF ClaudeRemoves, HomeFields
  <2> QED BY <1>4, <2>2, <2>3, <2>4 DEF HomeFields
<1>8. CASE Claude!RemovalFails
  <2>1. /\ claudeJob.at \in {"unregister", "clearDepth", "unlink", "unpoint"}
        /\ Claude!Goto("putBack") /\ claudeHome' = claudeHome
    BY <1>8 DEF Claude!RemovalFails
  <2>2. ClaudeRemoves'
    BY <1>1, <1>2, <2>1, ClaudeGoes DEF ClaudeRemoves
  <2> QED BY <1>3, <1>4, <2>1, <2>2, ClaudeGoes
<1>9. CASE Claude!PutBack
  <2>1. /\ claudeJob.at = "putBack" /\ Claude!Goto("register")
        /\ Claude!Set("executables",
                      claudeHome.executables \cup claudeReceipts[claudeJob.previous].owned)
    BY <1>9 DEF Claude!PutBack, Claude!PutBackAll, Claude!Previous
  <2>2. /\ OnlySets("executables")
        /\ claudeHome'.executables =
             claudeHome.executables \cup claudeReceipts[claudeJob.previous].owned
    BY <2>1, ClaudeSets DEF HomeFields
  <2>3. ClaudeRemoves'
    BY <1>1, <1>2, <2>1, <2>2, ClaudeGoes DEF ClaudeRemoves, HomeFields
  <2> QED BY <1>4, <2>1, <2>2, <2>3, ClaudeGoes DEF HomeFields
<1> QED BY <1>5, <1>6, <1>7, <1>8, <1>9

(* The receipt that is written names what is to be removed with it. *)
LEMMA ClaudeWritesReceipt ==
  ASSUME ClaudeInvariant, Claude!WriteReceipt PROVE ClaudeInvariant'
<1> USE DEF ClaudeInvariant
<1> DEFINE n == Len(claudeReceipts)
           receipt == [version |-> claudeJob.server.version, root |-> claudeJob.server.root,
                       owned |-> Claude!Owned, before |-> claudeJob.before]
<1>1. /\ claudeJob.at = "receipt" /\ Claude!Goto("point")
      /\ claudeReceipts' = Append(claudeReceipts, receipt)
      /\ UNCHANGED <<claudeHome, claudeOutcome, claudeHistory>>
  BY DEF Claude!WriteReceipt
<1>2. /\ claudeJob.kind = "install" /\ claudeJob.previous \in 0 .. n
      /\ claudeJob.previous = claudeHistory.start.pointer
      /\ claudeJob.previous = claudeHome.pointer
      /\ claudeJob.server.version = claudeHistory.target
  BY <1>1 DEF ClaudePlan, Claude!RemovalSteps, Claude!RestoreSteps
<1>3. /\ receipt.before = claudeJob.before
      /\ receipt.owned = {claudeJob.server.version} \cup
           (IF claudeJob.previous = 0 THEN {} ELSE claudeReceipts[claudeJob.previous].owned)
  BY DEF Claude!Owned, Claude!Previous
<1> HIDE DEF receipt
<1>4. /\ n \in Nat /\ Len(claudeReceipts') = n + 1
      /\ claudeReceipts' \in Seq({claudeReceipts'[i] : i \in 1 .. Len(claudeReceipts')})
      /\ claudeReceipts'[Len(claudeReceipts')] = receipt
      /\ \A i \in 1 .. n : claudeReceipts'[i] = claudeReceipts[i]
  BY <1>1, Appended DEF ClaudeShape
<1>5. 0 .. n \subseteq 0 .. Len(claudeReceipts')
  BY <1>4
<1>6. ClaudeShape' /\ ClaudeOriginal'
  BY <1>1, <1>4, <1>5, ClaudeGoes DEF ClaudeShape, ClaudeOriginal
<1>7. ClaudePlan'
  BY <1>1, <1>2, <1>5, ClaudeGoes DEF ClaudePlan, Claude!InstallSteps
<1>8. claudeJob.previous # 0 =>
        claudeReceipts'[claudeJob.previous] = claudeReceipts[claudeJob.previous]
  BY <1>2, <1>4
<1>9. ClaudeInstalls'
  <2>1. claudeReceipts' # <<>>
    <3>1. Len(claudeReceipts') # 0
      BY <1>4
    <3> QED BY <3>1
  <2>2. DepthBefore' = DepthBefore
    BY <1>1, <1>8, ClaudeGoes DEF DepthBefore
  <2>3. LET r == claudeReceipts'[Len(claudeReceipts')] IN
          /\ r.before = claudeJob.before
          /\ r.owned = {claudeJob.server.version} \cup
               (IF claudeJob.previous = 0 THEN {}
                ELSE claudeReceipts'[claudeJob.previous].owned)
    BY <1>3, <1>4, <1>8
  <2> QED
    BY <1>1, <1>2, <2>1, <2>2, <2>3, ClaudeGoes
    DEF ClaudeInstalls, DepthBack, Claude!InstallSteps
<1>10. ClaudeRemoves' /\ ClaudeUndone'
  BY <1>1, <1>2, ClaudeGoes DEF ClaudeRemoves, ClaudeUndone
<1>11. ClaudeClean'
  BY <1>1, <1>2, <1>8, ClaudeGoes DEF ClaudeClean, ClaudeKeeps
<1> QED BY <1>6, <1>7, <1>9, <1>10, <1>11

(* The end of a command: nothing is under way. *)
LEMMA ClaudeFinishes ==
  ASSUME ClaudeInvariant, claudeJob' = Claude!Idle, UNCHANGED claudeReceipts,
         claudeHome' = [f \in HomeFields |-> claudeHome'[f]],
         claudeHome'.pointer \in 0 .. Len(claudeReceipts),
         DOMAIN claudeHistory' = DOMAIN claudeHistory,
         claudeHistory'.start = claudeHistory.start,
         claudeHistory'.original = claudeHistory.original,
         claudeHistory'.quiet = claudeHistory.quiet, claudeHistory'.clean \in BOOLEAN,
         ClaudeUndone',
         claudeHistory'.clean =>
           /\ ClaudeKeeps(claudeHome)'
           /\ claudeOutcome' = "uninstalled" => claudeHome'.pointer = 0
  PROVE  ClaudeInvariant'
<1> USE DEF ClaudeInvariant
<1>1. claudeJob'.at = "idle"
      /\ DOMAIN claudeJob' = {"at", "kind", "server", "previous", "overwrite", "done", "found",
                              "before", "left"}
  BY DEF Claude!Idle
<1>2. ClaudeShape' /\ ClaudeOriginal'
  <2>1. DOMAIN claudeJob' = DOMAIN claudeJob /\ claudeHistory'.quiet \in BOOLEAN
    BY <1>1 DEF ClaudeShape
  <2> QED BY <2>1, ClaudeFramed
<1>3. ClaudePlan' /\ ClaudeInstalls' /\ ClaudeRemoves'
  BY <1>1 DEF ClaudePlan, ClaudeInstalls, ClaudeRemoves
<1>4. ClaudeClean'
  BY <1>1 DEF ClaudeClean
<1> QED BY <1>2, <1>3, <1>4

(* What a command changes as it ends. *)
LEMMA ClaudeEnding ==
  ASSUME ClaudeShape, NEW as, Claude!Ends(as)
  PROVE  /\ claudeJob' = Claude!Idle /\ claudeOutcome' = as /\ UNCHANGED claudeReceipts
         /\ DOMAIN claudeHistory' = DOMAIN claudeHistory
         /\ claudeHistory'.start = claudeHistory.start
         /\ claudeHistory'.original = claudeHistory.original
         /\ claudeHistory'.target = claudeHistory.target
         /\ claudeHistory'.overlooked = claudeHistory.overlooked
         /\ claudeHistory'.quiet = claudeHistory.quiet
         /\ claudeHistory'.clean =
              (claudeHistory.clean /\ as \in {"installed", "uninstalled", "undone"})
         /\ claudeHistory'.clean \in BOOLEAN
<1>1. claudeHistory' = [claudeHistory EXCEPT !.clean =
                          @ /\ as \in {"installed", "uninstalled", "undone"}]
      /\ claudeJob' = Claude!Idle /\ claudeOutcome' = as /\ UNCHANGED claudeReceipts
  BY DEF Claude!Ends
<1> QED BY <1>1 DEF ClaudeShape

(* An installation ends with its receipt in force. *)
LEMMA ClaudePoints ==
  ASSUME ClaudeInvariant, Claude!Point PROVE ClaudeInvariant'
<1> USE DEF ClaudeInvariant
<1> DEFINE n == Len(claudeReceipts)
<1>1. claudeJob.at = "point" /\ Claude!Set("pointer", n) /\ Claude!Ends("installed")
  BY DEF Claude!Point
<1>2. /\ claudeHome' = [f \in HomeFields |-> claudeHome'[f]] /\ claudeHome'.pointer = n
      /\ \A f \in HomeFields \ {"pointer"} : claudeHome'[f] = claudeHome[f]
  BY <1>1, ClaudeSets DEF HomeFields
<1>3. n \in Nat
  BY DEF ClaudeShape
<1>4. ClaudeUndone'
  BY <1>1, ClaudeEnding DEF ClaudeUndone
<1>5. ASSUME claudeHistory.clean PROVE ClaudeKeeps(claudeHome)'
  <2>1. claudeHistory.quiet /\ ClaudeKeeps(claudeHistory.start)
    BY <1>1, <1>5 DEF ClaudeClean
  <2>2. /\ claudeJob.kind = "install" /\ claudeJob.server.version = claudeHistory.target
        /\ claudeJob.previous = claudeHistory.start.pointer
    BY <1>1 DEF ClaudePlan, Claude!RemovalSteps, Claude!RestoreSteps
  <2>3. /\ claudeReceipts # <<>>
        /\ claudeReceipts[n].before = DepthBefore
        /\ claudeJob.previous = 0 =>
             claudeHistory.start.server = None \/ claudeHistory.overlooked
        /\ claudeReceipts[n].owned = {claudeJob.server.version} \cup
             (IF claudeJob.previous = 0 THEN {} ELSE claudeReceipts[claudeJob.previous].owned)
        /\ claudeHome.executables \ {claudeHistory.target}
             = claudeHistory.start.executables \ {claudeHistory.target}
    BY <1>1, <2>1, <2>2 DEF ClaudeInstalls, Claude!InstallSteps
  <2>4. n # 0
    BY <2>3 DEF ClaudeShape
  <2>5. /\ claudeHistory.original.server = None \/ claudeHistory.overlooked
        /\ Claude!Plain(claudeHistory.original.depth) =>
             claudeReceipts[n].before = claudeHistory.original.depth
        /\ claudeHistory.start.executables \subseteq
             (IF claudeJob.previous = 0 THEN {} ELSE claudeReceipts[claudeJob.previous].owned)
    BY <2>1, <2>2, <2>3 DEF ClaudeKeeps, DepthBefore
  <2>6. claudeHome.executables \subseteq claudeReceipts[n].owned
    BY <2>2, <2>3, <2>5
  <2> QED BY <1>1, <1>2, <2>4, <2>5, <2>6, ClaudeEnding DEF ClaudeKeeps, HomeFields
<1> QED BY <1>1, <1>2, <1>3, <1>4, <1>5, ClaudeEnding, ClaudeFinishes

(* A failed installation ends: it is undone, or it is told that it may not be. *)
LEMMA ClaudeReports ==
  ASSUME ClaudeInvariant, Claude!Report PROVE ClaudeInvariant'
<1> USE DEF ClaudeInvariant
<1>1. PICK as \in {"undone", "unverified"} :
        /\ claudeJob.at = "report" /\ Claude!Ends(as) /\ claudeHome' = claudeHome
        /\ as = "undone" => "failed" \notin claudeJob.done
  BY DEF Claude!Report
<1>2. /\ claudeHome' = [f \in HomeFields |-> claudeHome'[f]]
      /\ claudeHome'.pointer \in 0 .. Len(claudeReceipts)
  BY <1>1 DEF ClaudeShape
<1>3. /\ claudeJob.kind = "install" /\ claudeJob.previous = claudeHistory.start.pointer
      /\ claudeJob.previous = claudeHome.pointer
  BY <1>1 DEF ClaudePlan, Claude!RemovalSteps, Claude!RestoreSteps
<1>4. ASSUME claudeHistory.quiet, as = "undone"
      PROVE  /\ claudeHome.server = claudeHistory.start.server
             /\ claudeHome.executables \ {claudeHistory.target}
                  = claudeHistory.start.executables \ {claudeHistory.target}
             /\ claudeHome.executables \subseteq claudeHistory.start.executables
             /\ claudeJob.previous = 0 => DepthBack(claudeHome.depth)
  BY <1>1, <1>3, <1>4 DEF ClaudeInstalls
<1>5. ClaudeUndone'
  BY <1>1, <1>3, <1>4, ClaudeEnding DEF ClaudeUndone, DepthBack
<1>6. ASSUME claudeHistory.clean, as = "undone" PROVE ClaudeKeeps(claudeHome)
  <2>1. claudeHistory.quiet /\ ClaudeKeeps(claudeHistory.start)
    BY <1>1, <1>6 DEF ClaudeClean
  <2>2. CASE claudeJob.previous = 0
    <3> DEFINE o == claudeHistory.original
               start == claudeHistory.start
    <3>1. /\ start.executables = {} /\ (start.server = o.server \/ claudeHistory.overlooked)
          /\ Claude!Plain(o.depth) => start.depth = o.depth
      BY <1>3, <2>1, <2>2 DEF ClaudeKeeps
    <3>2. claudeHome.executables = {}
      BY <1>4, <1>6, <2>1, <3>1
    <3>3. Claude!Plain(o.depth) => claudeHome.depth = o.depth
      <4>1. o.depth \in Claude!Depth
        BY DEF ClaudeOriginal
      <4>2. DepthBack(claudeHome.depth)
        BY <1>4, <1>6, <2>1, <2>2
      <4> QED BY <3>1, <4>1, <4>2, PlainDepths DEF DepthBack
    <3> QED BY <1>3, <1>4, <1>6, <2>1, <2>2, <3>1, <3>2, <3>3 DEF ClaudeKeeps
  <2>3. CASE claudeJob.previous # 0
    BY <1>3, <1>4, <1>6, <2>1, <2>3 DEF ClaudeKeeps
  <2> QED BY <2>2, <2>3
<1>7. ASSUME claudeHistory'.clean PROVE ClaudeKeeps(claudeHome)' /\ claudeOutcome' # "uninstalled"
  <2>1. claudeHistory.clean /\ as = "undone"
    BY <1>1, <1>7, ClaudeEnding
  <2> QED BY <1>1, <1>6, <2>1, ClaudeEnding DEF ClaudeKeeps
<1> QED BY <1>1, <1>2, <1>5, <1>7, ClaudeEnding, ClaudeFinishes

(* A removal ends with what Casefile knows of the home before it. *)
LEMMA ClaudeUnpoints ==
  ASSUME ClaudeInvariant, Claude!Unpoint PROVE ClaudeInvariant'
<1> USE DEF ClaudeInvariant
<1>1. claudeJob.at = "unpoint" /\ Claude!Set("pointer", 0) /\ Claude!Ends("uninstalled")
  BY DEF Claude!Unpoint
<1>2. /\ claudeHome' = [f \in HomeFields |-> claudeHome'[f]] /\ claudeHome'.pointer = 0
      /\ \A f \in HomeFields \ {"pointer"} : claudeHome'[f] = claudeHome[f]
  BY <1>1, ClaudeSets DEF HomeFields
<1>3. 0 \in 0 .. Len(claudeReceipts)
  BY DEF ClaudeShape
<1>4. ClaudeUndone'
  BY <1>1, ClaudeEnding DEF ClaudeUndone
<1>5. ASSUME claudeHistory.clean PROVE ClaudeKeeps(claudeHome)'
  <2> DEFINE h == claudeHome
             o == claudeHistory.original
             r == claudeReceipts[claudeJob.previous]
  <2>1. claudeHistory.quiet /\ ClaudeKeeps(claudeHistory.start)
    BY <1>1, <1>5 DEF ClaudeClean
  <2>2. /\ claudeJob.kind = "uninstall" /\ claudeJob.previous # 0
        /\ claudeJob.previous = claudeHistory.start.pointer
    BY <1>1 DEF ClaudePlan, Claude!InstallSteps, Claude!UndoSteps
  <2>3. /\ h.executables \ r.owned = claudeHistory.start.executables \ r.owned
        /\ h.executables \cap r.owned = {}
        /\ h.server = None /\ h.depth = Claude!Restored(r.before)
    BY <1>1, <2>1, <2>2 DEF ClaudeRemoves, Claude!RemovalSteps
  <2>4. /\ o.server = None \/ claudeHistory.overlooked
        /\ Claude!Plain(o.depth) => r.before = o.depth
        /\ claudeHistory.start.executables \subseteq r.owned
    BY <2>1, <2>2 DEF ClaudeKeeps
  <2>5. Claude!Plain(o.depth) => h.depth = o.depth
    <3>1. o.depth \in Claude!Depth
      BY DEF ClaudeOriginal
    <3> QED BY <2>3, <2>4, <3>1, PlainDepths
  <2>6. /\ h'.executables = {} /\ h'.server = None /\ h'.depth = h.depth /\ h'.pointer = 0
    BY <1>2, <2>3, <2>4 DEF HomeFields
  <2> QED BY <1>1, <2>4, <2>5, <2>6, ClaudeEnding DEF ClaudeKeeps
<1> QED BY <1>1, <1>2, <1>3, <1>4, <1>5, ClaudeEnding, ClaudeFinishes

(* A failed removal ends with everything put back. *)
LEMMA ClaudeRepoints ==
  ASSUME ClaudeInvariant, Claude!Repoint PROVE ClaudeInvariant'
<1> USE DEF ClaudeInvariant
<1>1. /\ claudeJob.at = "repoint" /\ Claude!Set("pointer", claudeJob.previous)
      /\ Claude!Ends("undone")
  BY DEF Claude!Repoint
<1>2. /\ claudeJob.kind = "uninstall" /\ claudeJob.previous # 0
      /\ claudeJob.previous \in 0 .. Len(claudeReceipts)
      /\ claudeJob.previous = claudeHistory.start.pointer
      /\ claudeJob.server = claudeHistory.start.server
  BY <1>1 DEF ClaudePlan, Claude!InstallSteps, Claude!UndoSteps
<1>3. /\ claudeHome' = [f \in HomeFields |-> claudeHome'[f]]
      /\ claudeHome'.pointer = claudeJob.previous
      /\ \A f \in HomeFields \ {"pointer"} : claudeHome'[f] = claudeHome[f]
  BY <1>1, ClaudeSets DEF HomeFields
<1>4. ASSUME claudeHistory.quiet
      PROVE  /\ claudeHome'.executables = claudeHistory.start.executables
             /\ claudeHome'.server = claudeHistory.start.server
  <2>1. /\ claudeReceipts[claudeJob.previous].owned \subseteq claudeHome.executables
        /\ claudeReceipts[claudeJob.previous].owned \subseteq claudeHistory.start.executables
        /\ claudeHome.executables \ claudeReceipts[claudeJob.previous].owned
             = claudeHistory.start.executables \ claudeReceipts[claudeJob.previous].owned
        /\ claudeHome.server = claudeJob.server
    BY <1>1, <1>2, <1>4 DEF ClaudeRemoves, Claude!RestoreSteps
  <2> QED BY <1>2, <1>3, <2>1 DEF HomeFields
<1>5. ClaudeUndone'
  BY <1>1, <1>2, <1>3, <1>4, ClaudeEnding DEF ClaudeUndone
<1>6. ASSUME claudeHistory.clean PROVE ClaudeKeeps(claudeHome)'
  BY <1>1, <1>2, <1>3, <1>4, <1>6, ClaudeEnding DEF ClaudeClean, ClaudeKeeps
<1> QED BY <1>1, <1>2, <1>3, <1>5, <1>6, ClaudeEnding, ClaudeFinishes

(* A command that breaks off vouches for nothing. *)
LEMMA ClaudeBreaks ==
  ASSUME ClaudeInvariant, Claude!RestoreFails \/ Claude!Dies PROVE ClaudeInvariant'
<1> USE DEF ClaudeInvariant
<1>1. /\ claudeJob' = Claude!Idle /\ claudeOutcome' \in {"broken", "dead"}
      /\ claudeHistory' = [claudeHistory EXCEPT !.clean = FALSE]
      /\ UNCHANGED <<claudeHome, claudeReceipts>>
  BY DEF Claude!RestoreFails, Claude!Dies
<1>2. /\ DOMAIN claudeHistory' = DOMAIN claudeHistory
      /\ claudeHistory'.start = claudeHistory.start
      /\ claudeHistory'.original = claudeHistory.original
      /\ claudeHistory'.quiet = claudeHistory.quiet /\ claudeHistory'.clean = FALSE
      /\ claudeHome' = [f \in HomeFields |-> claudeHome'[f]]
      /\ claudeHome'.pointer \in 0 .. Len(claudeReceipts)
  BY <1>1 DEF ClaudeShape
<1>3. ClaudeUndone'
  BY <1>1 DEF ClaudeUndone
<1> QED BY <1>1, <1>2, <1>3, ClaudeFinishes

(* The user disturbs: nothing is vouched for any more. *)
LEMMA ClaudeDisturbs ==
  ASSUME ClaudeInvariant, NEW field \in {"depth", "server"}, NEW value,
         Claude!Disturbs, Claude!Set(field, value)
  PROVE  ClaudeInvariant'
<1> USE DEF ClaudeInvariant
<1>1. /\ UNCHANGED <<claudeReceipts, claudeJob, claudeOutcome>>
      /\ DOMAIN claudeHistory' = DOMAIN claudeHistory
      /\ claudeHistory'.start = claudeHistory.start
      /\ claudeHistory'.original = claudeHistory.original
      /\ claudeHistory'.target = claudeHistory.target
      /\ claudeHistory'.quiet = FALSE /\ claudeHistory'.clean = FALSE
  BY DEF Claude!Disturbs, ClaudeShape
<1>2. /\ claudeHome' = [f \in HomeFields |-> claudeHome'[f]]
      /\ claudeHome'.pointer = claudeHome.pointer
  BY ClaudeSets DEF HomeFields
<1>3. ClaudeShape' /\ ClaudeOriginal'
  <2>1. claudeHome.pointer \in 0 .. Len(claudeReceipts)
    BY DEF ClaudeShape
  <2> QED BY <1>1, <1>2, <2>1, ClaudeFramed
<1>4. ClaudePlan'
  BY <1>1, <1>2 DEF ClaudePlan
<1>5. ClaudeInstalls' /\ ClaudeRemoves' /\ ClaudeClean' /\ ClaudeUndone'
  BY <1>1 DEF ClaudeInstalls, ClaudeRemoves, ClaudeClean, ClaudeUndone
<1> QED BY <1>3, <1>4, <1>5

(* Every step keeps the invariant. *)
LEMMA ClaudeSteps ==
  ASSUME ClaudeInvariant, [Claude!Next]_Claude!claudeVars PROVE ClaudeInvariant'
<1>1. CASE Claude!Install
  BY <1>1, ClaudePrepares, ClaudeInstallSteps, ClaudeRegisters, ClaudeWritesReceipt, ClaudePoints,
     ClaudeReports
  DEF Claude!Install
<1>2. CASE Claude!Uninstall
  BY <1>2, ClaudePrepares, ClaudeRemovalSteps, ClaudeUnpoints, ClaudeRepoints, ClaudeBreaks
  DEF Claude!Uninstall
<1>3. CASE Claude!Others
  <2>1. CASE Claude!Dies
    BY <2>1, ClaudeBreaks
  <2>2. CASE \E d \in UserDepth : Claude!UserSetsDepth(d)
    BY <2>2, ClaudeDisturbs DEF Claude!UserSetsDepth
  <2>3. CASE \E s \in {None, Foreign} : Claude!UserSetsServer(s)
    BY <2>3, ClaudeDisturbs DEF Claude!UserSetsServer
  <2> QED BY <1>3, <2>1, <2>2, <2>3 DEF Claude!Others
<1>4. CASE UNCHANGED Claude!claudeVars
  <2>1. UNCHANGED <<claudeHome, claudeReceipts, claudeJob, claudeOutcome, claudeHistory>>
    BY <1>4 DEF Claude!claudeVars
  <2> USE DEF ClaudeInvariant
  <2>2. ClaudeShape' /\ ClaudeOriginal' /\ ClaudePlan'
    <3>1. /\ claudeHome' = [f \in HomeFields |-> claudeHome'[f]]
          /\ claudeHome'.pointer \in 0 .. Len(claudeReceipts)
          /\ claudeHistory'.quiet \in BOOLEAN /\ claudeHistory'.clean \in BOOLEAN
      BY <2>1 DEF ClaudeShape
    <3>2. ClaudePlan'
      BY <2>1 DEF ClaudePlan
    <3> QED BY <2>1, <3>1, <3>2, ClaudeFramed
  <2>3. ClaudeInstalls'
    BY <2>1 DEF ClaudeInstalls, DepthBefore, DepthBack
  <2>4. ClaudeRemoves'
    BY <2>1 DEF ClaudeRemoves
  <2>5. ClaudeClean' /\ ClaudeUndone'
    BY <2>1 DEF ClaudeClean, ClaudeKeeps, ClaudeUndone, DepthBack
  <2> QED BY <2>2, <2>3, <2>4, <2>5
<1> QED BY <1>1, <1>2, <1>3, <1>4 DEF Claude!Next

-----------------------------------------------------------------------------
(* The set-up of the Codex adapter.                                        *)

(* Files, of which config.toml can be parsed and the pointer, if any, is of *)
(* a receipt that exists.                                                   *)
Fitting(f) ==
    /\ "config" \in DOMAIN f => f["config"] \in Codex!Config
    /\ "pointer" \in DOMAIN f => f["pointer"] \in {None} \cup 1 .. Len(codexReceipts)
    /\ "plugin" \in DOMAIN f => f["plugin"] \in {None} \cup Package

(* What is there and what was there when the command began. *)
CodexHomes ==
    /\ codexHome = [p \in Codex!Path |-> codexHome[p]]
    /\ Fitting(codexHome)
    /\ codexHistory.start = [p \in Codex!Path |-> codexHistory.start[p]]
    /\ Fitting(codexHistory.start)

CodexShape ==
    /\ DOMAIN codexJob = {"at", "kind", "package", "runtime", "previous", "candidate", "saved",
                          "before", "left"}
    /\ DOMAIN codexHistory = {"start", "original", "text", "tail", "during", "quiet", "clean"}
    /\ codexHistory.quiet \in BOOLEAN /\ codexHistory.clean \in BOOLEAN

(* Receipts name a runtime and say what was there at paths of catalogs and  *)
(* executables, and never at the pointer or the plugin.                     *)
CodexReceipts ==
    /\ codexReceipts \in Seq({codexReceipts[i] : i \in 1 .. Len(codexReceipts)})
    /\ \A i \in 1 .. Len(codexReceipts) :
         /\ codexReceipts[i].runtime \in Runtimes
         /\ codexReceipts[i].owned \subseteq Package
         /\ codexReceipts[i].runtime \in DOMAIN codexReceipts[i].before
         /\ DOMAIN codexReceipts[i].before \subseteq Runtimes \cup Package \cup {"config"}

InstallAt == {"snapshot", "write", "verify", "effective", "again", "receipt", "point", "rollback"}

MigrateAt == InstallAt \cup {"compare"}

UninstallAt ==
    {"snapshot", "read", "unchanged", "restore", "config", "plugin", "unpoint", "record",
     "rollback"}

(* What a command is going to do. *)
CodexPlan ==
    LET j == codexJob IN
      /\ j.at = "idle" => j.kind = "none"
      /\ j.at # "idle" =>
           /\ j.runtime \in Runtimes
           /\ j.at = "point" => codexReceipts # <<>>
           /\ \/ /\ j.kind = "install" /\ j.at \in InstallAt
                 /\ j.previous \in {None} \cup 1 .. Len(codexReceipts)
                 /\ j.package \in Package
                 /\ DOMAIN j.candidate = Codex!Managed(j.runtime, j.package)
                 /\ j.candidate["config"] \in Codex!Config
                 /\ j.at \in InstallAt \ {"snapshot", "rollback"} =>
                      /\ DOMAIN j.before \subseteq Runtimes \cup Package \cup {"config"}
                      /\ DOMAIN j.candidate \subseteq DOMAIN j.before
              \/ /\ j.kind = "migrate" /\ j.at \in MigrateAt
                 /\ j.previous \in 1 .. Len(codexReceipts)
                 /\ DOMAIN j.candidate = {"config", j.runtime}
                 /\ j.candidate["config"] \in Codex!Config
              \/ /\ j.kind = "uninstall" /\ j.at \in UninstallAt
                 /\ j.previous \in 1 .. Len(codexReceipts)
                 /\ j.runtime = codexReceipts[j.previous].runtime
                 /\ j.before = codexReceipts[j.previous].before
                 /\ j.at \in {"unchanged", "restore", "config"} =>
                      j.candidate["config"] \in Codex!Config

(* The steps at which a command has files to put back. *)
Keeps == Codex!Guarded \cup {"compare", "rollback"}

(* Whatever a command writes is in what it can put back. *)
CodexSaved ==
    LET j == codexJob IN
      j.at \in Keeps =>
        /\ Fitting(j.saved)
        /\ DOMAIN j.saved \subseteq Codex!Path
        /\ "pointer" \in DOMAIN j.saved
        /\ j.kind = "install" => DOMAIN j.candidate \subseteq DOMAIN j.saved
        /\ j.kind = "uninstall" =>
             {"config", "plugin"} \cup DOMAIN j.before \subseteq DOMAIN j.saved

(* The paths that are still to be written. *)
CodexLeft ==
    LET j == codexJob IN
      /\ j.at \in {"compare", "write"} =>
           j.left # <<>> /\ j.left \in Seq(DOMAIN j.candidate \cap DOMAIN j.saved)
      /\ j.at = "restore" => j.left # <<>> /\ j.left \in Seq(DOMAIN j.before \ {"config"})
      /\ j.at = "rollback" => j.left \in Seq(DOMAIN j.saved)

Listed(s, p) == \E i \in 1 .. Len(s) : s[i] = p

(* Undisturbed, a command has changed nothing that it cannot put back.      *)
CodexUndo ==
    LET j == codexJob
        start == codexHistory.start
    IN
      codexHistory.quiet =>
        /\ j.at \in {"snapshot", "compare", "read", "unchanged"} => codexHome = start
        /\ j.at \in Keeps =>
             \A p \in Codex!Path :
               /\ p \in DOMAIN j.saved => j.saved[p] = start[p]
               /\ p \notin DOMAIN j.saved => codexHome[p] = start[p]
        /\ j.at = "rollback" =>
             \A p \in Codex!Path : ~ Listed(j.left, p) => codexHome[p] = start[p]
        /\ j.at = "idle" /\ codexOutcome = "undone" => codexHome = start

(* What Casefile has to know of a home to give it back: the text is the     *)
(* user's, and what was at a catalog or an executable is in the receipt in  *)
(* force, or still there.                                                   *)
CodexKeeps(h) ==
    /\ h["config"].text = codexHistory.text
    /\ h["pointer"] = None =>
         \A p \in Runtimes \cup Package : h[p] = codexHistory.original[p]
    /\ h["pointer"] # None =>
         LET before == codexReceipts[h["pointer"]].before IN
           \A p \in Runtimes \cup Package :
             /\ p \in DOMAIN before => before[p] = codexHistory.original[p]
             /\ p \notin DOMAIN before => h[p] = codexHistory.original[p]

(* Between commands. *)
CodexRests ==
    codexHistory.clean /\ codexJob.at = "idle" =>
      /\ CodexKeeps(codexHome)
      /\ codexOutcome = "uninstalled" =>
           codexHome["config"].keys = None /\ codexHome["pointer"] = None

(* What an installation or a migration has done, and that what it records   *)
(* is from before Casefile.                                                 *)
CodexInstalls ==
    LET j == codexJob
        start == codexHistory.start
    IN
      codexHistory.clean /\ j.kind \in {"install", "migrate"} =>
        /\ j.previous = start["pointer"]
        /\ j.candidate["config"].text = codexHistory.text
        /\ j.at # "rollback" =>
             /\ codexHome["config"].text = codexHistory.text
             /\ \A p \in (Runtimes \cup Package) \ DOMAIN j.candidate : codexHome[p] = start[p]
        /\ j.kind = "install" /\ j.at \in InstallAt \ {"snapshot", "rollback"} =>
             \A p \in Runtimes \cup Package :
               /\ p \in DOMAIN j.before => j.before[p] = codexHistory.original[p]
               /\ p \notin DOMAIN j.before => start[p] = codexHistory.original[p]
        /\ j.kind = "migrate" => j.runtime \in DOMAIN codexReceipts[j.previous].before
        /\ j.at = "point" =>
             codexReceipts[Len(codexReceipts)].before =
               IF j.kind = "install" THEN j.before ELSE codexReceipts[j.previous].before

(* What a removal has done. *)
CodexRemoves ==
    LET j == codexJob IN
      codexHistory.clean /\ j.kind = "uninstall" =>
        /\ j.at # "rollback" => codexHome["config"].text = codexHistory.text
        /\ j.at \in {"unchanged", "restore", "config"} =>
             j.candidate["config"].text = codexHistory.text /\ j.candidate["config"].keys = None
        /\ j.at \in {"plugin", "unpoint", "record"} => codexHome["config"].keys = None
        /\ j.at = "record" => codexHome["pointer"] = None
        /\ j.at \in {"restore", "config", "plugin", "unpoint", "record"} =>
             \A p \in Runtimes \cup Package :
               /\ p \notin DOMAIN j.before => codexHome[p] = codexHistory.start[p]
               /\ p \in DOMAIN j.before /\ (j.at = "restore" => ~ Listed(j.left, p)) =>
                    codexHome[p] = j.before[p]

CodexClean ==
    /\ CodexRests
    /\ codexHistory.clean /\ codexJob.at # "idle" =>
         codexHistory.quiet /\ CodexKeeps(codexHistory.start)
    /\ CodexInstalls
    /\ CodexRemoves

(* A migration and what was edited before its last comparison. *)
CodexMigrates ==
    LET j == codexJob
        observed == codexApproved.observed
    IN
      j.kind = "migrate" =>
        /\ "config" \in DOMAIN observed
        /\ j.candidate["config"].text = observed["config"].text
        /\ j.at \in Keeps /\ "config" \in DOMAIN j.saved => j.saved["config"] = observed["config"]
        /\ codexHistory.during \in {"snapshot", "compare"} =>
             /\ codexHome["config"].text = codexHistory.text
             /\ j.at \in {"snapshot", "compare"} => codexHome["config"].tail = codexHistory.tail
             /\ j.at \notin {"snapshot", "compare"} =>
                  /\ observed["config"].text = codexHistory.text
                  /\ observed["config"].tail = codexHistory.tail

CodexInvariant ==
    /\ CodexHomes /\ CodexShape /\ CodexReceipts /\ CodexPlan /\ CodexSaved /\ CodexLeft
    /\ CodexUndo /\ CodexClean /\ CodexMigrates

(* The codex set-up writes nothing into a receipt and nothing of a home but *)
(* what a step says: what holds of homes and receipts stays so when they    *)
(* stay.                                                                    *)
LEMMA CodexFramed ==
  ASSUME CodexHomes, CodexReceipts, CodexShape,
         UNCHANGED <<codexHome, codexReceipts>>,
         DOMAIN codexHistory' = DOMAIN codexHistory,
         codexHistory'.start = codexHistory.start,
         codexHistory'.quiet \in BOOLEAN, codexHistory'.clean \in BOOLEAN,
         DOMAIN codexJob' = DOMAIN codexJob
  PROVE  CodexHomes' /\ CodexReceipts' /\ CodexShape'
<1>1. CodexReceipts' /\ CodexShape'
  BY DEF CodexReceipts, CodexShape
<1>2. CodexHomes'
  BY DEF CodexHomes, Fitting
<1> QED BY <1>1, <1>2

(* A job that goes on at another step. *)
LEMMA CodexGoes ==
  ASSUME CodexShape, NEW step, Codex!Goto(step)
  PROVE  /\ DOMAIN codexJob' = DOMAIN codexJob
         /\ codexJob'.at = step /\ codexJob'.kind = codexJob.kind
         /\ codexJob'.package = codexJob.package /\ codexJob'.runtime = codexJob.runtime
         /\ codexJob'.previous = codexJob.previous /\ codexJob'.candidate = codexJob.candidate
         /\ codexJob'.saved = codexJob.saved /\ codexJob'.before = codexJob.before
         /\ codexJob'.left = codexJob.left
BY DEF Codex!Goto, CodexShape

(* The shape of a job when nothing is under way. *)
LEMMA CodexIdles ==
  ASSUME codexJob' = Codex!Idle
  PROVE  /\ DOMAIN codexJob' = {"at", "kind", "package", "runtime", "previous", "candidate",
                                "saved", "before", "left"}
         /\ codexJob'.at = "idle" /\ codexJob'.kind = "none"
BY DEF Codex!Idle

(* The end of a command: nothing is under way. *)
LEMMA CodexFinishes ==
  ASSUME CodexInvariant, codexJob' = Codex!Idle, CodexHomes', CodexReceipts',
         DOMAIN codexHistory' = DOMAIN codexHistory,
         codexHistory'.quiet \in BOOLEAN, codexHistory'.clean \in BOOLEAN,
         codexHistory'.quiet /\ codexOutcome' = "undone" => codexHome' = codexHistory'.start,
         CodexRests'
  PROVE  CodexInvariant'
<1>1. CodexShape'
  BY CodexIdles DEF CodexInvariant, CodexShape
<1>2. CodexPlan' /\ CodexSaved' /\ CodexLeft' /\ CodexMigrates'
  BY CodexIdles DEF CodexPlan, CodexSaved, CodexLeft, CodexMigrates, Keeps, Codex!Guarded
<1>3. CodexUndo'
  BY CodexIdles DEF CodexUndo, Keeps, Codex!Guarded
<1>4. CodexClean'
  BY CodexIdles DEF CodexClean, CodexInstalls, CodexRemoves
<1> QED BY <1>1, <1>2, <1>3, <1>4 DEF CodexInvariant

(* At first there is nothing of Casefile. *)
LEMMA CodexStarts ==
  ASSUME Codex!CodexAssumption, Codex!Init PROVE CodexInvariant
<1> USE DEF Codex!CodexAssumption, Codex!Init, Codex!Path
<1>1. PICK keys \in {None, HostOwn}, own \in Occupied :
         codexHome = [p \in Codex!Path |->
                   IF p = "config" THEN [Codex!NoConfig EXCEPT !.keys = keys]
                   ELSE IF p \in own THEN HostOwn
                   ELSE IF p = "plugin" THEN FirstPackage
                   ELSE None]
  OBVIOUS
<1>2. [Codex!NoConfig EXCEPT !.keys = keys] \in Codex!Config
      /\ [Codex!NoConfig EXCEPT !.keys = keys].text = 0
  BY DEF Codex!NoConfig, Codex!Config
<1>3. codexHome["config"] \in Codex!Config /\ codexHome["config"].text = 0
  BY <1>1, <1>2
<1>4. "pointer" \notin own /\ "plugin" \notin own
  BY <1>1
<1>5. codexHome["pointer"] = None /\ codexHome["plugin"] \in Package
  BY <1>1, <1>4
<1>6. codexHome = [p \in Codex!Path |-> codexHome[p]]
  BY <1>1
<1>7. /\ codexHistory.start = codexHome /\ codexHistory.original = codexHome
      /\ codexHistory.text = 0 /\ codexOutcome = "none" /\ codexReceipts = <<>>
      /\ DOMAIN codexHistory = {"start", "original", "text", "tail", "during", "quiet", "clean"}
      /\ codexHistory.quiet = TRUE /\ codexHistory.clean = TRUE
  OBVIOUS
<1>8. CodexHomes /\ CodexReceipts
  BY <1>3, <1>5, <1>6, <1>7 DEF CodexHomes, Fitting, CodexReceipts
<1>9. /\ DOMAIN codexJob = {"at", "kind", "package", "runtime", "previous", "candidate", "saved",
                            "before", "left"}
      /\ codexJob.at = "idle" /\ codexJob.kind = "none"
  BY DEF Codex!Idle
<1>10. CodexShape
  BY <1>7, <1>9 DEF CodexShape
<1>11. CodexPlan /\ CodexSaved /\ CodexLeft /\ CodexMigrates
  BY <1>9 DEF CodexPlan, CodexSaved, CodexLeft, CodexMigrates, Keeps, Codex!Guarded
<1>12. CodexUndo
  BY <1>7, <1>9 DEF CodexUndo, Keeps, Codex!Guarded
<1>13. CodexRests
  BY <1>3, <1>5, <1>7, <1>9 DEF CodexRests, CodexKeeps
<1>14. CodexClean
  BY <1>9, <1>13 DEF CodexClean, CodexInstalls, CodexRemoves
<1> QED BY <1>8, <1>10, <1>11, <1>12, <1>14 DEF CodexInvariant

(* A command begins: the home it starts from is the one that is there. *)
LEMMA CodexBegins ==
  ASSUME Codex!CodexAssumption, CodexInvariant, NEW j, Codex!Begins(j),
         DOMAIN j = DOMAIN codexJob, j.at = "snapshot", j.runtime \in Runtimes,
         \/ /\ j.kind = "install" /\ j.previous = codexHome["pointer"] /\ j.package \in Package
            /\ DOMAIN j.candidate = Codex!Managed(j.runtime, j.package)
            /\ j.candidate["config"] \in Codex!Config
            /\ j.candidate["config"].text = codexHome["config"].text
         \/ /\ j.kind = "migrate" /\ j.previous = codexHome["pointer"] /\ j.previous # None
            /\ j.runtime = codexReceipts[j.previous].runtime
            /\ DOMAIN j.candidate = {"config", j.runtime}
            /\ j.candidate["config"] \in Codex!Config
            /\ j.candidate["config"].text = codexHome["config"].text
            /\ "config" \in DOMAIN codexApproved.observed
            /\ codexApproved.observed["config"] = codexHome["config"]
         \/ /\ j.kind = "uninstall" /\ j.previous \in 1 .. Len(codexReceipts)
            /\ j.runtime = codexReceipts[j.previous].runtime
            /\ j.before = codexReceipts[j.previous].before
  PROVE  CodexInvariant'
<1> USE DEF CodexInvariant
<1>1. /\ codexJob.at = "idle" /\ codexJob' = j
      /\ UNCHANGED <<codexHome, codexReceipts, codexApproved, codexOutcome>>
      /\ DOMAIN codexHistory' = DOMAIN codexHistory
      /\ codexHistory'.start = codexHome /\ codexHistory'.quiet = TRUE
      /\ codexHistory'.during = "idle" /\ codexHistory'.clean = codexHistory.clean
      /\ codexHistory'.original = codexHistory.original /\ codexHistory'.text = codexHistory.text
  BY DEF Codex!Begins, CodexShape
<1>2. codexHome["pointer"] \in {None} \cup 1 .. Len(codexReceipts)
      /\ codexHome["config"] \in Codex!Config
  BY DEF CodexHomes, Fitting, Codex!Path
<1>3. CodexHomes' /\ CodexReceipts'
  BY <1>1 DEF CodexHomes, CodexReceipts, Fitting
<1>4. CodexShape'
  BY <1>1 DEF CodexShape
<1>5. CodexPlan'
  BY <1>1, <1>2 DEF CodexPlan, InstallAt, MigrateAt, UninstallAt
<1>6. CodexSaved' /\ CodexLeft'
  BY <1>1 DEF CodexSaved, CodexLeft, Keeps, Codex!Guarded
<1>7. CodexUndo'
  BY <1>1 DEF CodexUndo, Keeps, Codex!Guarded
<1>8. codexHistory.clean => CodexKeeps(codexHome)
  BY <1>1 DEF CodexClean, CodexRests
<1>9. codexHistory'.clean => CodexKeeps(codexHistory.start)'
  BY <1>1, <1>8 DEF CodexKeeps
<1>10. CodexClean'
  <2>1. CodexRests'
    BY <1>1 DEF CodexRests
  <2>2. CodexInstalls'
    BY <1>1, <1>2, <1>8 DEF CodexInstalls, CodexKeeps, CodexReceipts
  <2>3. CodexRemoves'
    BY <1>1, <1>8 DEF CodexRemoves, CodexKeeps
  <2> QED BY <1>1, <1>9, <2>1, <2>2, <2>3 DEF CodexClean
<1>11. CodexMigrates'
  BY <1>1 DEF CodexMigrates, Keeps, Codex!Guarded
<1> QED BY <1>3, <1>4, <1>5, <1>6, <1>7, <1>10, <1>11

(* A step that only moves on. *)
LEMMA CodexMovesOn ==
  ASSUME Codex!CodexAssumption, CodexInvariant,
         \/ Codex!Verify \/ Codex!Compare \/ Codex!Preview
  PROVE  CodexInvariant'
<1> USE DEF CodexInvariant
<1>1. CASE Codex!Preview
  <2>1. /\ codexJob.at = "idle"
        /\ UNCHANGED <<codexHome, codexReceipts, codexJob, codexOutcome, codexHistory>>
    BY <1>1 DEF Codex!Preview
  <2>2. CodexHomes' /\ CodexReceipts' /\ CodexShape'
    BY <2>1, CodexFramed DEF CodexShape
  <2>3. CodexPlan' /\ CodexSaved' /\ CodexLeft'
    BY <2>1 DEF CodexPlan, CodexSaved, CodexLeft, Keeps, Codex!Guarded
  <2>4. CodexUndo'
    BY <2>1 DEF CodexUndo
  <2>5. CodexClean'
    BY <2>1 DEF CodexClean, CodexRests, CodexInstalls, CodexRemoves, CodexKeeps
  <2>6. CodexMigrates'
    BY <2>1 DEF CodexPlan, CodexMigrates
  <2> QED BY <2>2, <2>3, <2>4, <2>5, <2>6
<1>2. CASE Codex!Verify \/ Codex!Compare
  <2>1. PICK step \in {"effective", "again", "receipt", "write"} :
          /\ Codex!Goto(step)
          /\ \/ step = "write" /\ codexJob.at = "compare" /\ Codex!StillObserved
             \/ step # "write" /\ codexJob.at \in {"verify", "effective", "again"}
          /\ UNCHANGED <<codexHome, codexReceipts, codexApproved, codexOutcome, codexHistory>>
    BY <1>2 DEF Codex!Verify, Codex!Compare
  <2> USE <2>1, CodexGoes
  <2>2. CodexHomes' /\ CodexReceipts' /\ CodexShape'
    BY CodexFramed DEF CodexShape
  <2>3. CodexPlan'
    BY DEF CodexPlan, InstallAt, MigrateAt, UninstallAt
  <2>4. CodexSaved' /\ CodexLeft'
    BY DEF CodexSaved, CodexLeft, Keeps, Codex!Guarded, Fitting
  <2>5. CodexUndo'
    BY DEF CodexUndo, Keeps, Codex!Guarded
  <2>6. CodexClean'
    <3>1. codexJob.kind # "uninstall"
      BY DEF CodexPlan, UninstallAt
    <3>2. CodexRests' /\ CodexRemoves'
      BY <3>1 DEF CodexRests, CodexRemoves
    <3>3. codexJob.kind = "install" => codexJob.at \in InstallAt \ {"snapshot", "rollback"}
      BY DEF CodexPlan, InstallAt
    <3>4. CodexInstalls'
      BY <3>3 DEF CodexClean, CodexInstalls
    <3> QED BY <3>2, <3>4 DEF CodexClean, CodexKeeps
  <2>7. CodexMigrates'
    <3>1. CASE step # "write"
      BY <3>1 DEF CodexMigrates, Keeps, Codex!Guarded
    <3>2. CASE step = "write" /\ codexJob.kind = "migrate"
      <4>1. codexHome["config"] = codexApproved.observed["config"]
        BY <3>2 DEF CodexMigrates, Codex!StillObserved, Codex!Observed
      <4> QED BY <3>2, <4>1 DEF CodexMigrates, Keeps, Codex!Guarded
    <3>3. CASE codexJob.kind # "migrate"
      BY <3>3 DEF CodexMigrates
    <3> QED BY <3>1, <3>2, <3>3
  <2> QED BY <2>2, <2>3, <2>4, <2>5, <2>6, <2>7
<1> QED BY <1>1, <1>2

(* What a snapshot says of the files it is of. *)
LEMMA CodexSnapshot ==
  ASSUME CodexHomes, NEW paths, paths \subseteq Codex!Path
  PROVE  /\ DOMAIN Codex!Snapshot(paths) = paths
         /\ \A p \in paths : Codex!Snapshot(paths)[p] = codexHome[p]
         /\ Fitting(Codex!Snapshot(paths))
BY DEF Codex!Snapshot, CodexHomes, Fitting

(* An installation saves what it is going to write, and what was there before Casefile. *)
LEMMA CodexSnapshotsInstall ==
  ASSUME Codex!CodexAssumption, CodexInvariant, Codex!SnapshotInstall
  PROVE  CodexInvariant'
<1> USE DEF CodexInvariant
<1> DEFINE paths == Codex!Managed(codexJob.runtime, codexJob.package)
           snapshot == Codex!Snapshot(Codex!Saved(paths))
           before == Codex!Before(paths)
           left == <<codexJob.package, "config", codexJob.runtime>>
<1>1. /\ codexJob.at = "snapshot" /\ codexJob.kind = "install"
      /\ UNCHANGED <<codexHome, codexReceipts, codexApproved, codexOutcome, codexHistory>>
      /\ codexJob' = [codexJob EXCEPT !.at = "write", !.saved = snapshot, !.before = before,
                                     !.left = left]
  BY DEF Codex!SnapshotInstall
<1>2. /\ codexJob.package \in Package /\ codexJob.runtime \in Runtimes
      /\ codexJob.previous \in {None} \cup 1 .. Len(codexReceipts)
      /\ DOMAIN codexJob.candidate = paths
  BY <1>1 DEF CodexPlan
<1>3. /\ paths = {"config", codexJob.runtime, codexJob.package}
      /\ paths \subseteq Runtimes \cup Package \cup {"config"}
      /\ Codex!Saved(paths) = paths \cup {"pointer"}
      /\ Codex!Saved(paths) \subseteq Codex!Path
  BY <1>2 DEF Codex!Managed, Codex!Saved, Codex!Path
<1>4. /\ DOMAIN snapshot = paths \cup {"pointer"} /\ Fitting(snapshot)
      /\ \A p \in paths \cup {"pointer"} : snapshot[p] = codexHome[p]
  BY <1>3, CodexSnapshot
<1>5. /\ DOMAIN before \subseteq Runtimes \cup Package \cup {"config"}
      /\ paths \subseteq DOMAIN before
      /\ codexJob.previous = None => \A p \in paths : before[p] = codexHome[p]
      /\ codexJob.previous = None => DOMAIN before = paths
      /\ codexJob.previous # None =>
           LET b == codexReceipts[codexJob.previous].before IN
             /\ DOMAIN before = DOMAIN b \cup paths
             /\ \A p \in DOMAIN b : before[p] = b[p]
             /\ \A p \in paths \ DOMAIN b : before[p] = codexHome[p]
  BY <1>2, <1>3 DEF Codex!Before, Codex!Snapshot, CodexReceipts
<1>6. left # <<>> /\ left \in Seq(paths)
  BY <1>3
<1> HIDE DEF paths, snapshot, before, left
<1>7. /\ DOMAIN codexJob' = DOMAIN codexJob
      /\ codexJob'.at = "write" /\ codexJob'.kind = "install"
      /\ codexJob'.package = codexJob.package /\ codexJob'.runtime = codexJob.runtime
      /\ codexJob'.previous = codexJob.previous /\ codexJob'.candidate = codexJob.candidate
      /\ codexJob'.saved = snapshot /\ codexJob'.before = before /\ codexJob'.left = left
  BY <1>1 DEF CodexShape
<1>8. CodexHomes' /\ CodexReceipts' /\ CodexShape'
  BY <1>1, <1>7, CodexFramed DEF CodexShape
<1>9. CodexPlan'
  BY <1>1, <1>2, <1>5, <1>7 DEF CodexPlan, InstallAt
<1>10. CodexSaved'
  BY <1>1, <1>2, <1>3, <1>4, <1>7 DEF CodexSaved, Fitting, Codex!Path
<1>11. CodexLeft'
  <2>1. paths \cap (paths \cup {"pointer"}) = paths
    OBVIOUS
  <2> QED BY <1>2, <1>4, <1>6, <1>7, <2>1 DEF CodexLeft
<1>12. codexHistory.quiet => codexHome = codexHistory.start
  BY <1>1 DEF CodexUndo
<1>13. CodexUndo'
  BY <1>1, <1>4, <1>7, <1>12 DEF CodexUndo
<1>14. CodexRests' /\ CodexRemoves' /\ CodexMigrates'
  BY <1>7 DEF CodexRests, CodexRemoves, CodexMigrates
<1>15. CodexInstalls'
  <2>1. ASSUME codexHistory.clean, NEW p \in Runtimes \cup Package
        PROVE  /\ p \in DOMAIN before => before[p] = codexHistory.original[p]
               /\ p \notin DOMAIN before => codexHistory.start[p] = codexHistory.original[p]
    <3>1. /\ codexHome = codexHistory.start /\ CodexKeeps(codexHome)
          /\ codexJob.previous = codexHome["pointer"]
      BY <1>1, <1>12, <2>1 DEF CodexClean, CodexInstalls
    <3> QED BY <1>2, <1>5, <3>1, <2>1 DEF CodexKeeps
  <2> QED BY <1>1, <1>7, <2>1 DEF CodexClean, CodexInstalls
<1>16. CodexClean'
  BY <1>1, <1>7, <1>14, <1>15 DEF CodexClean, CodexKeeps
<1> QED BY <1>8, <1>9, <1>10, <1>11, <1>13, <1>14, <1>16

(* A migration saves what it is going to change. *)
LEMMA CodexSnapshotsMigration ==
  ASSUME Codex!CodexAssumption, CodexInvariant, Codex!SnapshotMigration
  PROVE  CodexInvariant'
<1> USE DEF CodexInvariant
<1> DEFINE changed == Codex!Changed
           snapshot == Codex!Snapshot(Codex!Saved(changed))
           left == (IF "config" \in changed THEN <<"config">> ELSE <<>>)
                     \o (IF codexJob.runtime \in changed THEN <<codexJob.runtime>> ELSE <<>>)
<1>1. /\ codexJob.at = "snapshot" /\ codexJob.kind = "migrate"
      /\ Codex!Observed /\ changed # {}
      /\ UNCHANGED <<codexHome, codexReceipts, codexApproved, codexOutcome, codexHistory>>
      /\ codexJob' = [codexJob EXCEPT !.at = "compare", !.saved = snapshot, !.left = left]
  BY DEF Codex!SnapshotMigration
<1>2. /\ codexJob.runtime \in Runtimes
      /\ DOMAIN codexJob.candidate = {"config", codexJob.runtime}
  BY <1>1 DEF CodexPlan
<1>3. /\ changed \subseteq {"config", codexJob.runtime}
      /\ Codex!Saved(changed) = changed \cup {"pointer"}
      /\ Codex!Saved(changed) \subseteq Codex!Path
  BY <1>2 DEF Codex!Changed, Codex!Saved, Codex!Path
<1>4. /\ DOMAIN snapshot = changed \cup {"pointer"} /\ Fitting(snapshot)
      /\ \A p \in changed \cup {"pointer"} : snapshot[p] = codexHome[p]
  BY <1>3, CodexSnapshot
<1>5. left # <<>> /\ left \in Seq(changed)
  <2> HIDE DEF changed
  <2>1. /\ (IF "config" \in changed THEN <<"config">> ELSE <<>>) \in Seq(changed)
        /\ (IF codexJob.runtime \in changed THEN <<codexJob.runtime>> ELSE <<>>) \in Seq(changed)
    OBVIOUS
  <2>2. left \in Seq(changed)
    BY <2>1
  <2>3. Len(left) # 0
    BY <1>1, <1>3
  <2> QED BY <2>2, <2>3
<1> HIDE DEF changed, snapshot, left
<1>7. /\ DOMAIN codexJob' = DOMAIN codexJob
      /\ codexJob'.at = "compare" /\ codexJob'.kind = "migrate"
      /\ codexJob'.package = codexJob.package /\ codexJob'.runtime = codexJob.runtime
      /\ codexJob'.previous = codexJob.previous /\ codexJob'.candidate = codexJob.candidate
      /\ codexJob'.saved = snapshot /\ codexJob'.before = codexJob.before /\ codexJob'.left = left
  BY <1>1 DEF CodexShape
<1>8. CodexHomes' /\ CodexReceipts' /\ CodexShape'
  BY <1>1, <1>7, CodexFramed DEF CodexShape
<1>9. CodexPlan'
  BY <1>1, <1>2, <1>7 DEF CodexPlan, MigrateAt
<1>10. CodexSaved'
  BY <1>1, <1>3, <1>4, <1>7 DEF CodexSaved, Fitting
<1>11. CodexLeft'
  <2>1. changed = {"config", codexJob.runtime} \cap (changed \cup {"pointer"})
    BY <1>2, <1>3 DEF Codex!CodexAssumption
  <2> QED BY <1>2, <1>4, <1>5, <1>7, <2>1 DEF CodexLeft
<1>12. codexHistory.quiet => codexHome = codexHistory.start
  BY <1>1 DEF CodexUndo
<1>13. CodexUndo'
  BY <1>1, <1>4, <1>7, <1>12 DEF CodexUndo
<1>14. CodexRests' /\ CodexRemoves'
  BY <1>7 DEF CodexRests, CodexRemoves
<1>15. CodexInstalls'
  BY <1>1, <1>7 DEF CodexClean, CodexInstalls
<1>16. CodexClean'
  BY <1>1, <1>7, <1>14, <1>15 DEF CodexClean, CodexKeeps
<1>17. CodexMigrates'
  <2>1. "config" \in DOMAIN codexApproved.observed
        /\ codexHome["config"] = codexApproved.observed["config"]
    BY <1>1 DEF CodexMigrates, Codex!Observed
  <2> QED BY <1>1, <1>4, <1>7, <2>1 DEF CodexMigrates
<1> QED BY <1>8, <1>9, <1>10, <1>11, <1>13, <1>16, <1>17

(* A removal saves what it is going to restore. *)
LEMMA CodexSnapshotsRemoval ==
  ASSUME Codex!CodexAssumption, CodexInvariant, Codex!SnapshotRemoval
  PROVE  CodexInvariant'
<1> USE DEF CodexInvariant
<1> DEFINE paths == Codex!Saved(Codex!Current) \cup {"plugin"}
           snapshot == Codex!Snapshot(paths)
<1>1. /\ codexJob.at = "snapshot" /\ codexJob.kind = "uninstall"
      /\ UNCHANGED <<codexHome, codexReceipts, codexApproved, codexOutcome, codexHistory>>
      /\ codexJob' = [codexJob EXCEPT !.at = "read", !.saved = snapshot]
  BY DEF Codex!SnapshotRemoval
<1>2. /\ codexJob.runtime \in Runtimes /\ codexJob.previous \in 1 .. Len(codexReceipts)
      /\ codexJob.before = codexReceipts[codexJob.previous].before
  BY <1>1 DEF CodexPlan
<1>3. /\ paths \subseteq Codex!Path
      /\ {"config", "plugin", "pointer"} \cup DOMAIN codexJob.before \subseteq paths
  BY <1>2 DEF Codex!Saved, Codex!Current, Codex!Path, CodexReceipts
<1> HIDE DEF paths
<1>4. /\ DOMAIN snapshot = paths /\ Fitting(snapshot)
      /\ \A p \in paths : snapshot[p] = codexHome[p]
  BY <1>3, CodexSnapshot
<1> HIDE DEF snapshot
<1>7. /\ DOMAIN codexJob' = DOMAIN codexJob
      /\ codexJob'.at = "read" /\ codexJob'.kind = "uninstall"
      /\ codexJob'.package = codexJob.package /\ codexJob'.runtime = codexJob.runtime
      /\ codexJob'.previous = codexJob.previous /\ codexJob'.candidate = codexJob.candidate
      /\ codexJob'.saved = snapshot /\ codexJob'.before = codexJob.before
      /\ codexJob'.left = codexJob.left
  BY <1>1 DEF CodexShape
<1>8. CodexHomes' /\ CodexReceipts' /\ CodexShape'
  BY <1>1, <1>7, CodexFramed DEF CodexShape
<1>9. CodexPlan'
  BY <1>1, <1>7 DEF CodexPlan, UninstallAt
<1>10. CodexSaved' /\ CodexLeft'
  BY <1>1, <1>3, <1>4, <1>7 DEF CodexSaved, CodexLeft, Fitting
<1>12. codexHistory.quiet => codexHome = codexHistory.start
  BY <1>1 DEF CodexUndo
<1>13. CodexUndo'
  BY <1>1, <1>4, <1>7, <1>12 DEF CodexUndo
<1>14. CodexRests' /\ CodexInstalls' /\ CodexMigrates'
  BY <1>7 DEF CodexRests, CodexInstalls, CodexMigrates
<1>15. CodexRemoves'
  BY <1>1, <1>7 DEF CodexClean, CodexRemoves
<1>16. CodexClean'
  BY <1>1, <1>7, <1>14, <1>15 DEF CodexClean, CodexKeeps
<1> QED BY <1>8, <1>9, <1>10, <1>13, <1>14, <1>16

(* SetToSeq lists every member of a finite set, and nothing else. *)
LEMMA SetToSeqLists ==
  ASSUME NEW S, IsFiniteSet(S)
  PROVE  /\ Codex!SetToSeq(S) \in Seq(S)
         /\ \A x \in S : Listed(Codex!SetToSeq(S), x)
<1> DEFINE n == Cardinality(S)
           D == 1 .. n
           g == Codex!SetToSeq(S)
<1>1. n \in Nat /\ ExistsBijection(D, S)
  BY FS_CardinalityType
<1>2. PICK f : f \in Bijection(D, S)
  BY <1>1 DEF ExistsBijection
<1>3. f \in [D -> S] /\ Codex!IsInjective(f)
  BY <1>2 DEF Bijection, Injection, IsInjective, Codex!IsInjective
<1>4. g \in [D -> S] /\ Codex!IsInjective(g)
  <2>1. Codex!Cardinality(S) = n
    BY DEF Codex!Cardinality, Cardinality
  <2> HIDE DEF n
  <2> QED BY <1>3, <2>1 DEF Codex!SetToSeq
<1> HIDE DEF g
<1>5. g \in Injection(D, S)
  BY <1>4 DEF Injection, IsInjective, Codex!IsInjective
<1>6. Cardinality(D) = n
  BY <1>1, FS_Interval
<1>7. g \in Surjection(D, S)
  BY <1>5, <1>6, FS_Injection
<1>8. g \in Seq(S) /\ Len(g) = n
  BY <1>1, <1>4
<1>9. \A x \in S : \E i \in D : g[i] = x
  BY <1>7 DEF Surjection
<1>10. \A x \in S : Listed(g, x)
  BY <1>8, <1>9 DEF Listed
<1> QED BY <1>8, <1>10 DEF g

(* The first of what is left, and the rest. *)
LEMMA QueueParts ==
  ASSUME NEW S, NEW s \in Seq(S), s # <<>>
  PROVE  /\ Head(s) \in S /\ Tail(s) \in Seq(S)
         /\ Len(s) # 1 => Tail(s) # <<>>
         /\ \A x : Listed(s, x) => x = Head(s) \/ Listed(Tail(s), x)
         /\ Len(s) = 1 => \A x : ~ Listed(Tail(s), x)
<1>1. /\ Len(s) \in Nat \ {0} /\ Len(Tail(s)) = Len(s) - 1
      /\ Head(s) = s[1] /\ Head(s) \in S /\ Tail(s) \in Seq(S)
      /\ \A i \in 1 .. Len(s) - 1 : Tail(s)[i] = s[i + 1]
  OBVIOUS
<1>2. Len(s) # 1 => Tail(s) # <<>>
  <2>1. Len(s) # 1 => Len(Tail(s)) # 0
    BY <1>1
  <2>2. \A t \in Seq(S) : Len(t) # 0 => t # <<>>
    OBVIOUS
  <2> QED BY <1>1, <2>1, <2>2
<1>3. ASSUME NEW x, Listed(s, x), x # Head(s) PROVE Listed(Tail(s), x)
  <2>1. PICK i \in 1 .. Len(s) : s[i] = x
    BY <1>3 DEF Listed
  <2>2. i - 1 \in 1 .. Len(s) - 1 /\ Tail(s)[i - 1] = s[(i - 1) + 1]
    BY <1>1, <1>3, <2>1
  <2> QED BY <1>1, <2>1, <2>2 DEF Listed
<1>4. Len(s) = 1 => \A x : ~ Listed(Tail(s), x)
  BY <1>1 DEF Listed
<1> QED BY <1>1, <1>2, <1>3, <1>4

(* One path of a home is written. *)
LEMMA CodexPuts ==
  ASSUME Codex!CodexAssumption, CodexHomes, NEW p \in Codex!Path, NEW content,
         codexHome' = [codexHome EXCEPT ![p] = content],
         p = "config" => content \in Codex!Config,
         p = "pointer" => content \in {None} \cup 1 .. Len(codexReceipts),
         p = "plugin" => content \in {None} \cup Package,
         UNCHANGED codexReceipts, codexHistory'.start = codexHistory.start
  PROVE  /\ CodexHomes'
         /\ codexHome'[p] = content
         /\ \A q \in Codex!Path \ {p} : codexHome'[q] = codexHome[q]
<1>1. codexHome' = [q \in Codex!Path |-> IF q = p THEN content ELSE codexHome[q]]
  BY DEF CodexHomes
<1>2. codexHome' = [q \in Codex!Path |-> codexHome'[q]]
  BY <1>1
<1>3. /\ codexHome'[p] = content
      /\ \A q \in Codex!Path \ {p} : codexHome'[q] = codexHome[q]
  BY <1>1
<1>4. /\ "config" \in DOMAIN codexHome => codexHome["config"] \in Codex!Config
      /\ "pointer" \in DOMAIN codexHome =>
           codexHome["pointer"] \in {None} \cup 1 .. Len(codexReceipts)
      /\ "plugin" \in DOMAIN codexHome => codexHome["plugin"] \in {None} \cup Package
      /\ DOMAIN codexHome = Codex!Path /\ DOMAIN codexHome' = Codex!Path
  BY <1>1 DEF CodexHomes, Fitting
<1>5. Fitting(codexHome)'
  BY <1>3, <1>4 DEF Fitting
<1>6. Fitting(codexHistory.start)'
  BY DEF Fitting, CodexHomes
<1>7. codexHistory'.start = [q \in Codex!Path |-> codexHistory'.start[q]]
  BY DEF CodexHomes
<1> QED BY <1>2, <1>3, <1>5, <1>6, <1>7 DEF CodexHomes

(* An installation or a migration writes a file of its plan, which is one it has saved. *)
LEMMA CodexWrites ==
  ASSUME Codex!CodexAssumption, CodexInvariant, Codex!Write
  PROVE  CodexInvariant'
<1> USE DEF CodexInvariant
<1> DEFINE p == Head(codexJob.left)
           content == codexJob.candidate[p]
           where == IF Len(codexJob.left) = 1 THEN "verify" ELSE "write"
<1>1. /\ codexJob.at = "write"
      /\ UNCHANGED <<codexReceipts, codexApproved, codexOutcome, codexHistory>>
      /\ codexHome' = [codexHome EXCEPT ![p] = content]
      /\ codexJob' = [codexJob EXCEPT !.left = Tail(@), !.at = where]
  BY DEF Codex!Write, Codex!Put
<1>2. /\ codexJob.left # <<>>
      /\ codexJob.left \in Seq(DOMAIN codexJob.candidate \cap DOMAIN codexJob.saved)
  BY <1>1 DEF CodexLeft
<1>3. /\ p \in DOMAIN codexJob.candidate \cap DOMAIN codexJob.saved
      /\ Tail(codexJob.left) \in Seq(DOMAIN codexJob.candidate \cap DOMAIN codexJob.saved)
      /\ Len(codexJob.left) # 1 => Tail(codexJob.left) # <<>>
  BY <1>2, QueueParts
<1>4. codexJob.kind \in {"install", "migrate"}
  BY <1>1 DEF CodexPlan, UninstallAt
<1>5. /\ codexJob.runtime \in Runtimes
      /\ codexJob.kind = "install" => codexJob.package \in Package
      /\ DOMAIN codexJob.candidate \subseteq
           {"config"} \cup Runtimes \cup Package
      /\ "config" \in DOMAIN codexJob.candidate /\ codexJob.candidate["config"] \in Codex!Config
  BY <1>1, <1>4 DEF CodexPlan, Codex!Managed
<1>6. /\ p \in Codex!Path /\ p # "pointer" /\ p # "plugin"
      /\ p = "config" => content \in Codex!Config
  BY <1>3, <1>5 DEF Codex!Path, Codex!CodexAssumption
<1> HIDE DEF content
<1> HIDE DEF p
<1>7. /\ CodexHomes' /\ codexHome'[p] = content
      /\ \A q \in Codex!Path \ {p} : codexHome'[q] = codexHome[q]
  BY <1>1, <1>6, CodexPuts
<1>8. where \in {"verify", "write"} /\ (where = "write" => Tail(codexJob.left) # <<>>)
  BY <1>3
<1> HIDE DEF where
<1>9. /\ DOMAIN codexJob' = DOMAIN codexJob
      /\ codexJob'.at = where /\ codexJob'.kind = codexJob.kind
      /\ codexJob'.package = codexJob.package /\ codexJob'.runtime = codexJob.runtime
      /\ codexJob'.previous = codexJob.previous /\ codexJob'.candidate = codexJob.candidate
      /\ codexJob'.saved = codexJob.saved /\ codexJob'.before = codexJob.before
      /\ codexJob'.left = Tail(codexJob.left)
  BY <1>1 DEF CodexShape
<1>10. CodexReceipts' /\ CodexShape'
  BY <1>1, <1>9 DEF CodexReceipts, CodexShape
<1>11. CodexPlan'
  BY <1>1, <1>8, <1>9 DEF CodexPlan, InstallAt, MigrateAt, UninstallAt
<1>12. CodexSaved'
  BY <1>1, <1>8, <1>9 DEF CodexSaved, Keeps, Codex!Guarded, Fitting
<1>13. CodexLeft'
  BY <1>3, <1>8, <1>9 DEF CodexLeft
<1>14. CodexUndo'
  <2>1. ASSUME NEW q \in Codex!Path, codexHistory.quiet
        PROVE  /\ q \in DOMAIN codexJob.saved => codexJob.saved[q] = codexHistory.start[q]
               /\ q \notin DOMAIN codexJob.saved => codexHome'[q] = codexHistory.start[q]
    BY <1>1, <1>3, <1>7, <2>1 DEF CodexUndo, Keeps, Codex!Guarded
  <2> QED BY <1>1, <1>8, <1>9, <2>1 DEF CodexUndo
<1>15. CodexInstalls'
  <2>1. ASSUME codexHistory.clean
        PROVE  /\ codexHome'["config"].text = codexHistory.text
               /\ \A q \in (Runtimes \cup Package) \ DOMAIN codexJob.candidate :
                    codexHome'[q] = codexHistory.start[q]
    <3>1. /\ codexHome["config"].text = codexHistory.text
          /\ codexJob.candidate["config"].text = codexHistory.text
          /\ \A q \in (Runtimes \cup Package) \ DOMAIN codexJob.candidate :
               codexHome[q] = codexHistory.start[q]
      BY <1>1, <1>4, <2>1 DEF CodexClean, CodexInstalls
    <3>2. codexHome'["config"] = codexHome["config"]
            \/ codexHome'["config"] = codexJob.candidate["config"]
      BY <1>7 DEF Codex!Path, content
    <3> QED BY <1>3, <1>7, <3>1, <3>2 DEF Codex!Path
  <2> QED BY <1>1, <1>4, <1>8, <1>9, <2>1 DEF CodexClean, CodexInstalls, InstallAt
<1>16. CodexRests' /\ CodexRemoves'
  BY <1>4, <1>8, <1>9 DEF CodexRests, CodexRemoves
<1>17. CodexClean'
  BY <1>1, <1>8, <1>9, <1>15, <1>16 DEF CodexClean, CodexKeeps
<1>18. CodexMigrates'
  <2>1. codexHome'["config"] = codexHome["config"]
          \/ codexHome'["config"] = codexJob.candidate["config"]
    BY <1>7 DEF Codex!Path, content
  <2> QED BY <1>1, <1>8, <1>9, <2>1 DEF CodexMigrates, Keeps, Codex!Guarded
<1> QED BY <1>7, <1>10, <1>11, <1>12, <1>13, <1>14, <1>17, <1>18

(* The receipt that is written says what was there before Casefile. *)
LEMMA CodexWritesReceipt ==
  ASSUME Codex!CodexAssumption, CodexInvariant, Codex!WriteReceipt
  PROVE  CodexInvariant'
<1> USE DEF CodexInvariant
<1> DEFINE n == Len(codexReceipts)
           installed == [runtime |-> codexJob.runtime, owned |-> Codex!OwnedExecutables,
                         before |-> codexJob.before]
           receipt == IF codexJob.kind = "install" THEN installed
                      ELSE codexReceipts[codexJob.previous]
<1>1. /\ codexJob.at = "receipt" /\ Codex!Goto("point")
      /\ codexReceipts' = Append(codexReceipts, receipt)
      /\ UNCHANGED <<codexHome, codexApproved, codexOutcome, codexHistory>>
  BY DEF Codex!WriteReceipt
<1>2. codexJob.kind \in {"install", "migrate"}
  BY <1>1 DEF CodexPlan, UninstallAt
<1>3. /\ codexJob.kind = "install" =>
           /\ codexJob.previous \in {None} \cup 1 .. n
           /\ codexJob.package \in Package /\ codexJob.runtime \in Runtimes
           /\ DOMAIN codexJob.before \subseteq Runtimes \cup Package \cup {"config"}
           /\ codexJob.runtime \in DOMAIN codexJob.before
      /\ codexJob.kind = "migrate" => codexJob.previous \in 1 .. n
  BY <1>1 DEF CodexPlan, InstallAt, Codex!Managed
<1>4. /\ receipt.runtime \in Runtimes /\ receipt.owned \subseteq Package
      /\ receipt.runtime \in DOMAIN receipt.before
      /\ DOMAIN receipt.before \subseteq Runtimes \cup Package \cup {"config"}
  <2>1. CASE codexJob.kind = "install"
    <3>1. Codex!OwnedExecutables \subseteq Package
      BY <1>3, <2>1 DEF Codex!OwnedExecutables, CodexReceipts
    <3> QED BY <1>3, <2>1, <3>1
  <2>2. CASE codexJob.kind = "migrate"
    BY <1>3, <2>2 DEF CodexReceipts
  <2> QED BY <1>2, <2>1, <2>2
<1>5. receipt.before =
        IF codexJob.kind = "install" THEN codexJob.before
        ELSE codexReceipts[codexJob.previous].before
  OBVIOUS
<1> HIDE DEF receipt
<1>6. /\ n \in Nat /\ Len(codexReceipts') = n + 1
      /\ codexReceipts' \in Seq({codexReceipts'[i] : i \in 1 .. Len(codexReceipts')})
      /\ codexReceipts'[Len(codexReceipts')] = receipt
      /\ \A i \in 1 .. n : codexReceipts'[i] = codexReceipts[i]
  BY <1>1, Appended DEF CodexReceipts
<1>7. CodexReceipts'
  <2>1. \A i \in 1 .. Len(codexReceipts') : i \in 1 .. n \/ i = Len(codexReceipts')
    BY <1>6
  <2>2. \A i \in 1 .. Len(codexReceipts') :
         /\ codexReceipts'[i].runtime \in Runtimes
         /\ codexReceipts'[i].owned \subseteq Package
         /\ codexReceipts'[i].runtime \in DOMAIN codexReceipts'[i].before
         /\ DOMAIN codexReceipts'[i].before \subseteq Runtimes \cup Package \cup {"config"}
    BY <1>4, <1>6, <2>1 DEF CodexReceipts
  <2> QED BY <1>6, <2>2 DEF CodexReceipts
<1>8. \A f : Fitting(f) => Fitting(f)'
  <2>1. 1 .. n \subseteq 1 .. Len(codexReceipts')
    BY <1>6
  <2> QED BY <2>1 DEF Fitting
<1>9. CodexHomes' /\ CodexShape'
  <2>1. Fitting(codexHome)' /\ Fitting(codexHistory.start)'
    BY <1>1, <1>6 DEF CodexHomes, Fitting
  <2> QED BY <1>1, <2>1, CodexGoes DEF CodexHomes, CodexShape
<1>10. CodexPlan'
  <2>1. codexReceipts' # <<>>
    <3>1. Len(codexReceipts') # 0
      BY <1>6
    <3> QED BY <3>1
  <2>2. 1 .. n \subseteq 1 .. Len(codexReceipts')
    BY <1>6
  <2> QED BY <1>1, <1>2, <2>1, <2>2, CodexGoes DEF CodexPlan, InstallAt, MigrateAt
<1>11. CodexSaved'
  <2>1. Fitting(codexJob.saved) => Fitting(codexJob.saved)'
    BY <1>1, <1>6, CodexGoes DEF Fitting
  <2> QED BY <1>1, <2>1, CodexGoes DEF CodexSaved, Keeps, Codex!Guarded
<1>12. CodexLeft' /\ CodexRests' /\ CodexRemoves'
  BY <1>1, <1>2, CodexGoes DEF CodexLeft, CodexRests, CodexRemoves
<1>13. CodexUndo'
  BY <1>1, CodexGoes DEF CodexUndo, Keeps, Codex!Guarded
<1>14. codexHistory.clean => CodexKeeps(codexHistory.start)'
  <2>1. codexHistory.start["pointer"] \in {None} \cup 1 .. n
    BY DEF CodexHomes, Fitting, Codex!Path
  <2> QED BY <1>1, <1>6, <2>1 DEF CodexClean, CodexKeeps
<1>15. CodexInstalls'
  BY <1>1, <1>3, <1>5, <1>6, CodexGoes DEF CodexClean, CodexInstalls, InstallAt
<1>16. CodexClean'
  BY <1>1, <1>12, <1>14, <1>15, CodexGoes DEF CodexClean
<1>17. CodexMigrates'
  BY <1>1, CodexGoes DEF CodexMigrates, Keeps, Codex!Guarded
<1> QED BY <1>7, <1>9, <1>10, <1>11, <1>12, <1>13, <1>16, <1>17

(* How a command ends. *)
LEMMA CodexEnding ==
  ASSUME CodexShape, NEW as, Codex!Ends(as)
  PROVE  /\ codexJob' = Codex!Idle /\ codexOutcome' = as
         /\ UNCHANGED <<codexReceipts, codexApproved>>
         /\ DOMAIN codexHistory' = DOMAIN codexHistory
         /\ codexHistory'.clean = (codexHistory.clean /\ as # "broken")
         /\ codexHistory'.start = codexHistory.start /\ codexHistory'.quiet = codexHistory.quiet
         /\ codexHistory'.original = codexHistory.original
         /\ codexHistory'.text = codexHistory.text
BY DEF Codex!Ends, CodexShape

(* A command ends with its receipt in force. *)
LEMMA CodexPoints ==
  ASSUME Codex!CodexAssumption, CodexInvariant, Codex!Point
  PROVE  CodexInvariant'
<1> USE DEF CodexInvariant
<1> DEFINE n == Len(codexReceipts)
<1>1. PICK as \in {"installed", "migrated"} :
        /\ codexJob.at = "point" /\ Codex!Ends(as)
        /\ codexHome' = [codexHome EXCEPT !["pointer"] = n]
  BY DEF Codex!Point, Codex!Put
<1>2. n \in Nat /\ n # 0 /\ codexJob.kind \in {"install", "migrate"}
  BY <1>1 DEF CodexPlan, UninstallAt, CodexReceipts
<1>3. n \in 1 .. n /\ "pointer" \in Codex!Path
  BY <1>2 DEF Codex!Path
<1>4. /\ CodexHomes' /\ codexHome'["pointer"] = n
      /\ \A q \in Codex!Path \ {"pointer"} : codexHome'[q] = codexHome[q]
  BY <1>1, <1>3, CodexPuts, CodexEnding
<1>5. CodexReceipts'
  BY <1>1, CodexEnding DEF CodexReceipts
<1>6. CodexRests'
  <2>1. SUFFICES ASSUME codexHistory.clean PROVE CodexKeeps(codexHome)'
    BY <1>1, CodexEnding DEF CodexRests
  <2>2. codexHome'["config"].text = codexHistory.text
    BY <1>1, <1>2, <1>4, <2>1 DEF CodexClean, CodexInstalls, Codex!Path
  <2> DEFINE before == codexReceipts[n].before
  <2>3. n # None
    BY <1>2 DEF Codex!CodexAssumption
  <2>4. ASSUME NEW p \in Runtimes \cup Package
        PROVE  /\ p \in DOMAIN before => before[p] = codexHistory.original[p]
               /\ p \notin DOMAIN before => codexHome'[p] = codexHistory.original[p]
    <3>1. codexHome'[p] = codexHome[p]
      BY <1>4 DEF Codex!Path, Codex!CodexAssumption
    <3>2. p \notin DOMAIN codexJob.candidate => codexHome[p] = codexHistory.start[p]
      BY <1>1, <1>2, <2>1 DEF CodexClean, CodexInstalls
    <3>3. CASE codexJob.kind = "install"
      <4>1. before = codexJob.before
        BY <1>1, <2>1, <3>3 DEF CodexClean, CodexInstalls
      <4>2. DOMAIN codexJob.candidate \subseteq DOMAIN codexJob.before
        BY <1>1, <3>3 DEF CodexPlan, InstallAt
      <4>3. /\ p \in DOMAIN codexJob.before => codexJob.before[p] = codexHistory.original[p]
            /\ p \notin DOMAIN codexJob.before => codexHistory.start[p] = codexHistory.original[p]
        BY <1>1, <2>1, <3>3 DEF CodexClean, CodexInstalls, InstallAt
      <4> QED BY <3>1, <3>2, <4>1, <4>2, <4>3
    <3>4. CASE codexJob.kind = "migrate"
      <4>1. /\ before = codexReceipts[codexJob.previous].before
            /\ codexJob.runtime \in DOMAIN before
            /\ codexJob.previous = codexHistory.start["pointer"]
        BY <1>1, <2>1, <3>4 DEF CodexClean, CodexInstalls
      <4>2. codexJob.previous \in 1 .. n /\ DOMAIN codexJob.candidate = {"config", codexJob.runtime}
        BY <1>1, <3>4 DEF CodexPlan
      <4>3. codexJob.previous # None
        BY <4>2 DEF Codex!CodexAssumption
      <4>4. /\ p \in DOMAIN before => before[p] = codexHistory.original[p]
            /\ p \notin DOMAIN before => codexHistory.start[p] = codexHistory.original[p]
        BY <1>1, <2>1, <4>1, <4>3 DEF CodexClean, CodexKeeps
      <4>5. p # "config"
        BY DEF Codex!CodexAssumption
      <4> QED BY <3>1, <3>2, <4>1, <4>2, <4>4, <4>5
    <3> QED BY <1>2, <3>3, <3>4
  <2> QED BY <1>1, <1>4, <2>2, <2>3, <2>4, CodexEnding DEF CodexKeeps
<1> QED
  <2>1. codexHistory'.quiet \in BOOLEAN /\ codexHistory'.clean \in BOOLEAN
    BY <1>1, CodexEnding DEF CodexShape
  <2> QED BY <1>1, <1>4, <1>5, <1>6, <2>1, CodexEnding, CodexFinishes

(* A migration that ends before it writes has changed nothing. *)
LEMMA CodexRefuses ==
  ASSUME Codex!CodexAssumption, CodexInvariant, Codex!Refuse
  PROVE  CodexInvariant'
<1> USE DEF CodexInvariant
<1>1. /\ codexJob.at \in {"snapshot", "compare"} /\ Codex!Ends("refused")
      /\ UNCHANGED codexHome
  BY DEF Codex!Refuse
<1>2. /\ codexJob' = Codex!Idle /\ codexOutcome' = "refused"
      /\ UNCHANGED <<codexHome, codexReceipts, codexApproved>>
      /\ DOMAIN codexHistory' = DOMAIN codexHistory
      /\ codexHistory'.clean = codexHistory.clean
      /\ codexHistory'.start = codexHistory.start /\ codexHistory'.quiet = codexHistory.quiet
      /\ codexHistory'.original = codexHistory.original
      /\ codexHistory'.text = codexHistory.text
      /\ codexHistory'.quiet \in BOOLEAN /\ codexHistory'.clean \in BOOLEAN
  BY <1>1, CodexEnding DEF CodexShape
<1>3. CodexHomes' /\ CodexReceipts'
  BY <1>2, CodexIdles, CodexFramed DEF CodexShape
<1>4. CodexRests'
  <2>1. codexHistory.clean => CodexKeeps(codexHome)
    BY <1>1 DEF CodexClean, CodexUndo
  <2> QED BY <1>2, <2>1 DEF CodexRests, CodexKeeps
<1> QED BY <1>2, <1>3, <1>4, CodexFinishes

(* Preparing a command: what it is going to write keeps the user's text. *)
LEMMA CodexPrepares ==
  ASSUME Codex!CodexAssumption, CodexInvariant,
         \/ \E package \in Package, runtime \in Runtimes : Codex!PrepareInstall(package, runtime)
         \/ Codex!PrepareMigration
         \/ \E i \in 1 .. Len(codexReceipts) : Codex!PrepareRemoval(i)
  PROVE  CodexInvariant'
<1>1. /\ codexHome["config"] \in Codex!Config
      /\ codexHome["plugin"] \in {None} \cup Package
      /\ codexHome["pointer"] \in {None} \cup 1 .. Len(codexReceipts)
      /\ DOMAIN codexJob = {"at", "kind", "package", "runtime", "previous", "candidate", "saved",
                            "before", "left"}
  BY DEF CodexInvariant, CodexHomes, Fitting, CodexShape, Codex!Path
<1>2. CASE \E package \in Package, runtime \in Runtimes : Codex!PrepareInstall(package, runtime)
  <2>1. PICK package \in Package, runtime \in Runtimes : Codex!PrepareInstall(package, runtime)
    BY <1>2
  <2> DEFINE plan == Codex!Plan(package, runtime)
             j == [Codex!Idle EXCEPT
                     !.at = "snapshot", !.kind = "install", !.package = package,
                     !.runtime = runtime, !.previous = codexHome["pointer"], !.candidate = plan]
  <2>2. Codex!Begins(j)
    BY <2>1 DEF Codex!PrepareInstall
  <2>3. /\ DOMAIN plan = Codex!Managed(runtime, package)
        /\ plan["config"] = Codex!Candidate(package, runtime)
    BY DEF Codex!Plan, Codex!Managed
  <2>4. /\ Codex!Candidate(package, runtime) \in Codex!Config
        /\ Codex!Candidate(package, runtime).text = codexHome["config"].text
    BY <1>1 DEF Codex!Candidate, Codex!WithoutTail, Codex!Capable, Codex!Config, Codex!Owned
  <2> HIDE DEF plan
  <2>5. /\ DOMAIN j = DOMAIN codexJob /\ j.at = "snapshot" /\ j.kind = "install"
        /\ j.runtime = runtime /\ j.package = package /\ j.previous = codexHome["pointer"]
        /\ j.candidate = plan
    BY <1>1 DEF Codex!Idle
  <2> HIDE DEF j
  <2> QED BY <2>2, <2>3, <2>4, <2>5, CodexBegins
<1>3. CASE Codex!PrepareMigration
  <2> DEFINE m == Codex!Migration
             r == codexReceipts[codexHome["pointer"]].runtime
             j == [Codex!Idle EXCEPT
                     !.at = "snapshot", !.kind = "migrate", !.package = codexHome["plugin"],
                     !.runtime = m.runtime, !.previous = codexHome["pointer"],
                     !.candidate = m.candidate]
  <2>1. /\ Codex!Begins(j) /\ codexApproved = m
        /\ codexHome["pointer"] # None /\ codexHome["plugin"] # None
        /\ codexHome["config"].keys \in Codex!Owned
    BY <1>3 DEF Codex!PrepareMigration, Codex!MayMigrate
  <2>2. r \in Runtimes /\ r # "config"
    BY <1>1, <2>1 DEF CodexInvariant, CodexReceipts, Codex!CodexAssumption
  <2>3. /\ m.runtime = r /\ DOMAIN m.candidate = {"config", r}
        /\ m.candidate["config"] = Codex!Reprofiled(codexHome["plugin"])
        /\ "config" \in DOMAIN m.observed /\ m.observed["config"] = codexHome["config"]
    BY DEF Codex!Migration, Codex!Snapshot
  <2>4. /\ Codex!Reprofiled(codexHome["plugin"]) \in Codex!Config
        /\ Codex!Reprofiled(codexHome["plugin"]).text = codexHome["config"].text
    BY <1>1, <2>1 DEF Codex!Reprofiled, Codex!WithoutTail, Codex!Config, Codex!Owned
  <2> HIDE DEF m
  <2>5. /\ DOMAIN j = DOMAIN codexJob /\ j.at = "snapshot" /\ j.kind = "migrate"
        /\ j.runtime = m.runtime /\ j.previous = codexHome["pointer"]
        /\ j.candidate = m.candidate
    BY <1>1 DEF Codex!Idle
  <2> HIDE DEF j
  <2> QED BY <2>1, <2>2, <2>3, <2>4, <2>5, CodexBegins
<1>4. CASE \E i \in 1 .. Len(codexReceipts) : Codex!PrepareRemoval(i)
  <2>1. PICK i \in 1 .. Len(codexReceipts) : Codex!PrepareRemoval(i)
    BY <1>4
  <2> DEFINE j == [Codex!Idle EXCEPT
                     !.at = "snapshot", !.kind = "uninstall", !.previous = i,
                     !.runtime = codexReceipts[i].runtime, !.before = codexReceipts[i].before]
  <2>2. Codex!Begins(j)
    BY <2>1 DEF Codex!PrepareRemoval
  <2>3. codexReceipts[i].runtime \in Runtimes
    BY DEF CodexInvariant, CodexReceipts
  <2>4. /\ DOMAIN j = DOMAIN codexJob /\ j.at = "snapshot" /\ j.kind = "uninstall"
        /\ j.runtime = codexReceipts[i].runtime /\ j.previous = i
        /\ j.before = codexReceipts[i].before
    BY <1>1 DEF Codex!Idle
  <2> HIDE DEF j
  <2> QED BY <2>2, <2>3, <2>4, CodexBegins
<1> QED BY <1>2, <1>3, <1>4

(* A removal reads the configuration that it will leave. *)
LEMMA CodexReads ==
  ASSUME Codex!CodexAssumption, CodexInvariant, Codex!ReadConfig
  PROVE  CodexInvariant'
<1> USE DEF CodexInvariant
<1> DEFINE candidate == [p \in {"config"} |-> Codex!Unowned(codexHome["config"])]
<1>1. /\ codexJob.at = "read"
      /\ UNCHANGED <<codexHome, codexReceipts, codexApproved, codexOutcome, codexHistory>>
      /\ codexJob' = [codexJob EXCEPT !.at = "unchanged", !.candidate = candidate]
  BY DEF Codex!ReadConfig
<1>2. codexJob.kind = "uninstall"
  BY <1>1 DEF CodexPlan, InstallAt, MigrateAt
<1>3. codexHome["config"] \in Codex!Config
  BY DEF CodexHomes, Fitting, Codex!Path
<1>4. /\ candidate["config"] \in Codex!Config
      /\ candidate["config"].text = codexHome["config"].text
      /\ candidate["config"].keys = None
  BY <1>3 DEF Codex!Unowned, Codex!WithoutTail, Codex!Config
<1> HIDE DEF candidate
<1>5. /\ DOMAIN codexJob' = DOMAIN codexJob
      /\ codexJob'.at = "unchanged" /\ codexJob'.kind = "uninstall"
      /\ codexJob'.package = codexJob.package /\ codexJob'.runtime = codexJob.runtime
      /\ codexJob'.previous = codexJob.previous /\ codexJob'.candidate = candidate
      /\ codexJob'.saved = codexJob.saved /\ codexJob'.before = codexJob.before
      /\ codexJob'.left = codexJob.left
  BY <1>1, <1>2 DEF CodexShape
<1>6. CodexHomes' /\ CodexReceipts' /\ CodexShape'
  BY <1>1, <1>5, CodexFramed DEF CodexShape
<1>7. CodexPlan'
  BY <1>1, <1>2, <1>4, <1>5 DEF CodexPlan, UninstallAt
<1>8. CodexSaved' /\ CodexLeft'
  BY <1>1, <1>2, <1>5 DEF CodexSaved, CodexLeft, Keeps, Codex!Guarded, Fitting
<1>9. CodexUndo'
  BY <1>1, <1>5 DEF CodexUndo, Keeps, Codex!Guarded
<1>10. CodexRests' /\ CodexInstalls' /\ CodexMigrates'
  BY <1>5 DEF CodexRests, CodexInstalls, CodexMigrates
<1>11. CodexRemoves'
  BY <1>1, <1>2, <1>4, <1>5 DEF CodexClean, CodexRemoves
<1>12. CodexClean'
  BY <1>1, <1>5, <1>10, <1>11 DEF CodexClean, CodexKeeps
<1> QED BY <1>6, <1>7, <1>8, <1>9, <1>10, <1>12

(* What is to be restored are catalogs and executables, of which there are  *)
(* finitely many.                                                           *)
LEMMA CodexFinite ==
  ASSUME Codex!CodexAssumption, NEW S, S \subseteq Codex!Path
  PROVE  IsFiniteSet(S)
<1>1. IsFiniteSet({"config", "pointer", "plugin"})
  <2>1. IsFiniteSet({"config"}) /\ IsFiniteSet({"pointer"}) /\ IsFiniteSet({"plugin"})
    BY FS_Singleton
  <2>2. IsFiniteSet({"config"} \cup {"pointer"})
    BY <2>1, FS_Union
  <2>3. IsFiniteSet(({"config"} \cup {"pointer"}) \cup {"plugin"})
    BY <2>1, <2>2, FS_Union
  <2>4. ({"config"} \cup {"pointer"}) \cup {"plugin"} = {"config", "pointer", "plugin"}
    OBVIOUS
  <2> QED BY <2>3, <2>4
<1>2. IsFiniteSet(Runtimes \cup Package)
  <2>1. IsFiniteSet(Runtimes) /\ IsFiniteSet(Package)
    BY DEF Codex!CodexAssumption, Codex!IsFiniteSet, IsFiniteSet
  <2> QED BY <2>1, FS_Union
<1>3. IsFiniteSet(Codex!Path)
  BY <1>1, <1>2, FS_Union DEF Codex!Path
<1> QED BY <1>3, FS_Subset

(* A removal finds nothing changed and lists what it has to restore. *)
LEMMA CodexGoesOn ==
  ASSUME Codex!CodexAssumption, CodexInvariant, Codex!Unchanged
  PROVE  CodexInvariant'
<1> USE DEF CodexInvariant
<1> DEFINE kept == DOMAIN codexJob.before \ {"config"}
           left == Codex!SetToSeq(kept)
<1>1. /\ codexJob.at = "unchanged"
      /\ UNCHANGED <<codexHome, codexReceipts, codexApproved, codexOutcome, codexHistory>>
      /\ codexJob' = [codexJob EXCEPT !.at = "restore", !.left = left]
  BY DEF Codex!Unchanged
<1>2. /\ codexJob.kind = "uninstall" /\ codexJob.previous \in 1 .. Len(codexReceipts)
      /\ codexJob.before = codexReceipts[codexJob.previous].before
  BY <1>1 DEF CodexPlan, InstallAt, MigrateAt
<1>3. kept \subseteq Codex!Path /\ codexReceipts[codexJob.previous].runtime \in kept
  BY <1>2 DEF CodexReceipts, Codex!Path, Codex!CodexAssumption
<1> HIDE DEF kept
<1>4. left \in Seq(kept) /\ \A x \in kept : Listed(left, x)
  BY <1>3, CodexFinite, SetToSeqLists
<1>5. left # <<>>
  BY <1>3, <1>4 DEF Listed
<1> HIDE DEF left
<1>6. /\ DOMAIN codexJob' = DOMAIN codexJob
      /\ codexJob'.at = "restore" /\ codexJob'.kind = "uninstall"
      /\ codexJob'.package = codexJob.package /\ codexJob'.runtime = codexJob.runtime
      /\ codexJob'.previous = codexJob.previous /\ codexJob'.candidate = codexJob.candidate
      /\ codexJob'.saved = codexJob.saved /\ codexJob'.before = codexJob.before
      /\ codexJob'.left = left
  BY <1>1, <1>2 DEF CodexShape
<1>7. CodexHomes' /\ CodexReceipts' /\ CodexShape'
  BY <1>1, <1>6, CodexFramed DEF CodexShape
<1>8. CodexPlan'
  BY <1>1, <1>2, <1>6 DEF CodexPlan, UninstallAt
<1>9. CodexSaved'
  BY <1>1, <1>2, <1>6 DEF CodexSaved, Keeps, Codex!Guarded, Fitting
<1>10. CodexLeft'
  BY <1>4, <1>5, <1>6 DEF CodexLeft, kept
<1>11. CodexUndo'
  BY <1>1, <1>6 DEF CodexUndo, Keeps, Codex!Guarded
<1>12. CodexRests' /\ CodexInstalls' /\ CodexMigrates'
  BY <1>6 DEF CodexRests, CodexInstalls, CodexMigrates
<1>13. CodexRemoves'
  <2>1. ASSUME codexHistory.clean
        PROVE  codexHome = codexHistory.start
    BY <1>1, <2>1 DEF CodexClean, CodexUndo
  <2>2. ASSUME NEW p \in Runtimes \cup Package, p \in DOMAIN codexJob.before
        PROVE  Listed(left, p)
    BY <1>4, <2>2 DEF Codex!CodexAssumption, kept
  <2> QED BY <1>1, <1>2, <1>6, <2>1, <2>2 DEF CodexClean, CodexRemoves
<1>14. CodexClean'
  BY <1>1, <1>6, <1>12, <1>13 DEF CodexClean, CodexKeeps
<1> QED BY <1>7, <1>8, <1>9, <1>10, <1>11, <1>12, <1>14

(* A step of a removal that writes one of the files it has saved. *)
LEMMA CodexTakesAway ==
  ASSUME Codex!CodexAssumption, CodexInvariant,
         NEW p \in DOMAIN codexJob.saved, NEW content,
         NEW where \in {"restore", "config", "plugin", "unpoint", "record"},
         codexJob.at \in {"restore", "config", "plugin", "unpoint"},
         where \in {"restore", "config"} => codexJob.at = "restore",
         codexHome' = [codexHome EXCEPT ![p] = content],
         p = "config" => content \in Codex!Config,
         p = "pointer" => content \in {None} \cup 1 .. Len(codexReceipts),
         p = "plugin" => content \in {None} \cup Package,
         DOMAIN codexJob' = DOMAIN codexJob,
         codexJob'.at = where, codexJob'.kind = codexJob.kind,
         codexJob'.package = codexJob.package, codexJob'.runtime = codexJob.runtime,
         codexJob'.previous = codexJob.previous, codexJob'.candidate = codexJob.candidate,
         codexJob'.saved = codexJob.saved, codexJob'.before = codexJob.before,
         UNCHANGED <<codexReceipts, codexApproved, codexOutcome, codexHistory>>,
         where = "restore" =>
           codexJob'.left # <<>> /\ codexJob'.left \in Seq(DOMAIN codexJob.before \ {"config"}),
         CodexRemoves'
  PROVE  CodexInvariant'
<1> USE DEF CodexInvariant
<1>1. p \in Codex!Path /\ codexJob.kind = "uninstall"
  BY DEF CodexSaved, CodexPlan, Keeps, Codex!Guarded, InstallAt, MigrateAt
<1>2. /\ CodexHomes'
      /\ \A q \in Codex!Path \ {p} : codexHome'[q] = codexHome[q]
  BY <1>1, CodexPuts
<1>3. CodexReceipts' /\ CodexShape'
  BY DEF CodexReceipts, CodexShape
<1>4. CodexPlan'
  BY <1>1 DEF CodexPlan, UninstallAt
<1>5. CodexSaved' /\ CodexLeft'
  BY <1>1 DEF CodexSaved, CodexLeft, Keeps, Codex!Guarded, Fitting
<1>6. CodexUndo'
  <2>1. ASSUME NEW q \in Codex!Path, codexHistory.quiet
        PROVE  /\ q \in DOMAIN codexJob.saved => codexJob.saved[q] = codexHistory.start[q]
               /\ q \notin DOMAIN codexJob.saved => codexHome'[q] = codexHistory.start[q]
    BY <1>2, <2>1 DEF CodexUndo, Keeps, Codex!Guarded
  <2> QED BY <2>1 DEF CodexUndo
<1>7. CodexRests' /\ CodexInstalls' /\ CodexMigrates'
  BY <1>1 DEF CodexRests, CodexInstalls, CodexMigrates
<1>8. CodexClean'
  BY <1>7 DEF CodexClean, CodexKeeps
<1> QED BY <1>2, <1>3, <1>4, <1>5, <1>6, <1>7, <1>8

(* A removal puts a catalog or an executable back. *)
LEMMA CodexRestores ==
  ASSUME Codex!CodexAssumption, CodexInvariant, Codex!RestoreOriginal
  PROVE  CodexInvariant'
<1> USE DEF CodexInvariant
<1> DEFINE p == Head(codexJob.left)
           content == codexJob.before[p]
           where == IF Len(codexJob.left) = 1 THEN "config" ELSE "restore"
           kept == DOMAIN codexJob.before \ {"config"}
<1>1. /\ codexJob.at = "restore"
      /\ UNCHANGED <<codexReceipts, codexApproved, codexOutcome, codexHistory>>
      /\ codexHome' = [codexHome EXCEPT ![p] = content]
      /\ codexJob' = [codexJob EXCEPT !.left = Tail(@), !.at = where]
  BY DEF Codex!RestoreOriginal, Codex!Put
<1>2. /\ codexJob.kind = "uninstall" /\ codexJob.previous \in 1 .. Len(codexReceipts)
      /\ codexJob.before = codexReceipts[codexJob.previous].before
      /\ codexJob.left # <<>> /\ codexJob.left \in Seq(kept)
  BY <1>1 DEF CodexPlan, InstallAt, MigrateAt, CodexLeft
<1>3. /\ kept \subseteq Runtimes \cup Package /\ kept \subseteq DOMAIN codexJob.saved
      /\ kept \subseteq Codex!Path
  BY <1>1, <1>2 DEF CodexReceipts, CodexSaved, Keeps, Codex!Guarded, Codex!Path
<1>4. \A q : q \in DOMAIN codexJob.before /\ q # "config" <=> q \in kept
  OBVIOUS
<1> HIDE DEF kept
<1>5. /\ p \in kept /\ Tail(codexJob.left) \in Seq(kept)
      /\ Len(codexJob.left) # 1 => Tail(codexJob.left) # <<>>
      /\ \A x : Listed(codexJob.left, x) => x = p \/ Listed(Tail(codexJob.left), x)
      /\ Len(codexJob.left) = 1 => \A x : ~ Listed(Tail(codexJob.left), x)
  BY <1>2, QueueParts
<1>6. /\ where \in {"restore", "config"} /\ (where = "restore" => Tail(codexJob.left) # <<>>)
      /\ where = "config" => \A x : ~ Listed(Tail(codexJob.left), x)
  BY <1>5
<1> HIDE DEF where, p, content
<1>7. /\ p \in Codex!Path /\ p \in DOMAIN codexJob.saved
      /\ p \notin {"config", "pointer", "plugin"}
  BY <1>3, <1>5 DEF Codex!CodexAssumption
<1>8. /\ codexHome'[p] = content
      /\ \A q \in Codex!Path \ {p} : codexHome'[q] = codexHome[q]
  BY <1>1, <1>7, CodexPuts
<1>9. /\ DOMAIN codexJob' = DOMAIN codexJob
      /\ codexJob'.at = where /\ codexJob'.kind = codexJob.kind
      /\ codexJob'.package = codexJob.package /\ codexJob'.runtime = codexJob.runtime
      /\ codexJob'.previous = codexJob.previous /\ codexJob'.candidate = codexJob.candidate
      /\ codexJob'.saved = codexJob.saved /\ codexJob'.before = codexJob.before
      /\ codexJob'.left = Tail(codexJob.left)
  BY <1>1 DEF CodexShape
<1>10. CodexRemoves'
  <2>1. SUFFICES ASSUME codexHistory.clean PROVE CodexRemoves'
    BY <1>1 DEF CodexRemoves
  <2>2. /\ codexHome["config"].text = codexHistory.text
        /\ codexJob.candidate["config"].text = codexHistory.text
        /\ codexJob.candidate["config"].keys = None
        /\ \A q \in Runtimes \cup Package :
             /\ q \notin DOMAIN codexJob.before => codexHome[q] = codexHistory.start[q]
             /\ q \in DOMAIN codexJob.before /\ ~ Listed(codexJob.left, q) =>
                  codexHome[q] = codexJob.before[q]
    BY <1>1, <1>2, <2>1 DEF CodexClean, CodexRemoves
  <2>3. codexHome'["config"] = codexHome["config"]
    BY <1>7, <1>8 DEF Codex!Path
  <2>4. ASSUME NEW q \in Runtimes \cup Package
        PROVE  /\ q \notin DOMAIN codexJob.before => codexHome'[q] = codexHistory.start[q]
               /\ q \in DOMAIN codexJob.before /\ ~ Listed(Tail(codexJob.left), q) =>
                    codexHome'[q] = codexJob.before[q]
    <3>1. q \in Codex!Path
      BY DEF Codex!Path
    <3>2. p \in DOMAIN codexJob.before
      BY <1>4, <1>5
    <3>3. CASE q = p
      BY <1>8, <3>2, <3>3 DEF content
    <3>4. CASE q # p
      BY <1>5, <1>8, <2>2, <3>1, <3>4
    <3> QED BY <3>3, <3>4
  <2> QED BY <1>1, <1>6, <1>9, <2>2, <2>3, <2>4 DEF CodexRemoves
<1>11. Tail(codexJob.left) \in Seq(DOMAIN codexJob.before \ {"config"})
  BY <1>5 DEF kept
<1> QED BY <1>1, <1>6, <1>7, <1>9, <1>10, <1>11, CodexTakesAway

(* A removal writes the configuration, and takes the plugin and the pointer away. *)
LEMMA CodexRemovesRest ==
  ASSUME Codex!CodexAssumption, CodexInvariant,
         Codex!WriteConfig \/ Codex!RemovePlugin \/ Codex!Unpoint
  PROVE  CodexInvariant'
<1> USE DEF CodexInvariant
<1>1. PICK p \in {"config", "plugin", "pointer"}, where \in {"plugin", "unpoint", "record"},
           content \in {codexJob.candidate["config"], None} :
        /\ codexHome' = [codexHome EXCEPT ![p] = content] /\ Codex!Goto(where)
        /\ UNCHANGED <<codexReceipts, codexApproved, codexOutcome, codexHistory>>
        /\ \/ codexJob.at = "config" /\ p = "config" /\ where = "plugin"
              /\ content = codexJob.candidate["config"]
           \/ codexJob.at = "plugin" /\ p = "plugin" /\ where = "unpoint" /\ content = None
           \/ codexJob.at = "unpoint" /\ p = "pointer" /\ where = "record" /\ content = None
  BY DEF Codex!WriteConfig, Codex!RemovePlugin, Codex!Unpoint, Codex!Put, Codex!ConfigAfter
<1>2. /\ codexJob.kind = "uninstall" /\ p \in DOMAIN codexJob.saved
      /\ p = "config" => content \in Codex!Config
  BY <1>1 DEF CodexPlan, InstallAt, MigrateAt, CodexSaved, Keeps, Codex!Guarded
<1>3. p \in Codex!Path
  BY <1>1 DEF Codex!Path
<1>4. /\ codexHome'[p] = content
      /\ \A q \in Codex!Path \ {p} : codexHome'[q] = codexHome[q]
  BY <1>1, <1>2, <1>3, CodexPuts
<1>5. /\ DOMAIN codexJob' = DOMAIN codexJob
      /\ codexJob'.at = where /\ codexJob'.kind = codexJob.kind
      /\ codexJob'.package = codexJob.package /\ codexJob'.runtime = codexJob.runtime
      /\ codexJob'.previous = codexJob.previous /\ codexJob'.candidate = codexJob.candidate
      /\ codexJob'.saved = codexJob.saved /\ codexJob'.before = codexJob.before
      /\ codexJob'.left = codexJob.left
  BY <1>1, CodexGoes
<1>6. CodexRemoves'
  <2>1. SUFFICES ASSUME codexHistory.clean PROVE CodexRemoves'
    BY <1>1 DEF CodexRemoves
  <2>2. /\ codexHome["config"].text = codexHistory.text
        /\ \A q \in Runtimes \cup Package :
             /\ q \notin DOMAIN codexJob.before => codexHome[q] = codexHistory.start[q]
             /\ q \in DOMAIN codexJob.before => codexHome[q] = codexJob.before[q]
        /\ codexJob.at = "config" =>
             /\ codexJob.candidate["config"].text = codexHistory.text
             /\ codexJob.candidate["config"].keys = None
        /\ codexJob.at \in {"plugin", "unpoint"} => codexHome["config"].keys = None
    BY <1>1, <1>2, <2>1 DEF CodexClean, CodexRemoves
  <2>3. \A q \in Runtimes \cup Package : codexHome'[q] = codexHome[q]
    BY <1>4 DEF Codex!Path, Codex!CodexAssumption
  <2>4. p # "config" => codexHome'["config"] = codexHome["config"]
    BY <1>4 DEF Codex!Path
  <2>5. codexHome'["config"].text = codexHistory.text /\ codexHome'["config"].keys = None
    BY <1>1, <1>4, <2>2, <2>4
  <2>6. where = "record" => codexHome'["pointer"] = None
    BY <1>1, <1>4
  <2> QED BY <1>1, <1>5, <2>2, <2>3, <2>5, <2>6 DEF CodexRemoves
<1> QED BY <1>1, <1>2, <1>5, <1>6, CodexTakesAway

(* A removal ends with what was there before Casefile. *)
LEMMA CodexRecords ==
  ASSUME Codex!CodexAssumption, CodexInvariant, Codex!Record
  PROVE  CodexInvariant'
<1> USE DEF CodexInvariant
<1>1. /\ codexJob.at = "record" /\ codexJob' = Codex!Idle /\ codexOutcome' = "uninstalled"
      /\ UNCHANGED <<codexHome, codexReceipts, codexApproved>>
      /\ codexHistory' = [codexHistory EXCEPT !.clean =
                            @ /\ codexHistory.start["pointer"] = codexJob.previous]
  BY DEF Codex!Record
<1>2. /\ DOMAIN codexHistory' = DOMAIN codexHistory
      /\ codexHistory'.clean =
           (codexHistory.clean /\ codexHistory.start["pointer"] = codexJob.previous)
      /\ codexHistory'.start = codexHistory.start /\ codexHistory'.quiet = codexHistory.quiet
      /\ codexHistory'.original = codexHistory.original
      /\ codexHistory'.text = codexHistory.text
      /\ codexHistory'.quiet \in BOOLEAN /\ codexHistory'.clean \in BOOLEAN
  BY <1>1 DEF CodexShape
<1>3. /\ codexJob.kind = "uninstall" /\ codexJob.previous \in 1 .. Len(codexReceipts)
      /\ codexJob.before = codexReceipts[codexJob.previous].before
  BY <1>1 DEF CodexPlan, InstallAt, MigrateAt
<1>4. CodexHomes' /\ CodexReceipts'
  BY <1>1, <1>2, CodexIdles, CodexFramed DEF CodexShape
<1>5. CodexRests'
  <2>1. SUFFICES ASSUME codexHistory.clean, codexHistory.start["pointer"] = codexJob.previous
                 PROVE  CodexRests'
    BY <1>2 DEF CodexRests
  <2>2. /\ codexHome["config"].text = codexHistory.text
        /\ codexHome["config"].keys = None /\ codexHome["pointer"] = None
        /\ \A p \in Runtimes \cup Package :
             /\ p \notin DOMAIN codexJob.before => codexHome[p] = codexHistory.start[p]
             /\ p \in DOMAIN codexJob.before => codexHome[p] = codexJob.before[p]
    BY <1>1, <1>3, <2>1 DEF CodexClean, CodexRemoves
  <2>3. codexJob.previous # None
    BY <1>3 DEF Codex!CodexAssumption
  <2>4. \A p \in Runtimes \cup Package :
          /\ p \in DOMAIN codexJob.before => codexJob.before[p] = codexHistory.original[p]
          /\ p \notin DOMAIN codexJob.before =>
               codexHistory.start[p] = codexHistory.original[p]
    BY <1>1, <1>3, <2>1, <2>3 DEF CodexClean, CodexKeeps
  <2> QED BY <1>1, <1>2, <2>2, <2>4 DEF CodexRests, CodexKeeps
<1> QED BY <1>1, <1>2, <1>4, <1>5, CodexFinishes

(* A call fails: everything that was saved is to be written back. *)
LEMMA CodexFails ==
  ASSUME Codex!CodexAssumption, CodexInvariant, Codex!Fails
  PROVE  CodexInvariant'
<1> USE DEF CodexInvariant
<1> DEFINE snapshot == DOMAIN codexJob.saved
           left == Codex!SetToSeq(snapshot)
<1>1. /\ codexJob.at \in Codex!Guarded
      /\ UNCHANGED <<codexHome, codexReceipts, codexApproved, codexOutcome, codexHistory>>
      /\ codexJob' = [codexJob EXCEPT !.at = "rollback", !.left = left]
  BY DEF Codex!Fails
<1>2. snapshot \subseteq Codex!Path
  BY <1>1 DEF CodexSaved, Keeps
<1> HIDE DEF snapshot
<1>3. left \in Seq(snapshot) /\ \A x \in snapshot : Listed(left, x)
  BY <1>2, CodexFinite, SetToSeqLists
<1> HIDE DEF left
<1>4. /\ DOMAIN codexJob' = DOMAIN codexJob
      /\ codexJob'.at = "rollback" /\ codexJob'.kind = codexJob.kind
      /\ codexJob'.package = codexJob.package /\ codexJob'.runtime = codexJob.runtime
      /\ codexJob'.previous = codexJob.previous /\ codexJob'.candidate = codexJob.candidate
      /\ codexJob'.saved = codexJob.saved /\ codexJob'.before = codexJob.before
      /\ codexJob'.left = left
  BY <1>1 DEF CodexShape
<1>5. CodexHomes' /\ CodexReceipts' /\ CodexShape'
  BY <1>1, <1>4, CodexFramed DEF CodexShape
<1>6. codexJob.at # "idle" /\ codexJob.at # "snapshot" /\ codexJob.at # "compare"
      /\ codexJob.at # "rollback" /\ codexJob.at \in Keeps \ {"compare"}
  BY <1>1 DEF Codex!Guarded, Keeps
<1>7. CodexPlan'
  BY <1>1, <1>4, <1>6 DEF CodexPlan, InstallAt, MigrateAt, UninstallAt
<1>8. CodexSaved'
  BY <1>1, <1>4, <1>6 DEF CodexSaved, Fitting
<1>9. CodexLeft'
  BY <1>3, <1>4 DEF CodexLeft, snapshot
<1>10. CodexUndo'
  BY <1>1, <1>3, <1>4, <1>6 DEF CodexUndo, snapshot
<1>11. CodexRests' /\ CodexRemoves'
  BY <1>4 DEF CodexRests, CodexRemoves
<1>12. CodexInstalls'
  BY <1>1, <1>4 DEF CodexClean, CodexInstalls
<1>13. CodexClean'
  BY <1>1, <1>4, <1>6, <1>11, <1>12 DEF CodexClean, CodexKeeps
<1>14. CodexMigrates'
  BY <1>1, <1>4, <1>6 DEF CodexMigrates
<1> QED BY <1>5, <1>7, <1>8, <1>9, <1>10, <1>13, <1>14

(* A rollback writes a saved file back. *)
LEMMA CodexRollsBack ==
  ASSUME Codex!CodexAssumption, CodexInvariant, Codex!RollBack
  PROVE  CodexInvariant'
<1> USE DEF CodexInvariant
<1> DEFINE p == Head(codexJob.left)
           content == codexJob.saved[p]
           snapshot == DOMAIN codexJob.saved
<1>1. /\ codexJob.at = "rollback" /\ codexJob.left # <<>>
      /\ UNCHANGED <<codexReceipts, codexApproved, codexOutcome, codexHistory>>
      /\ codexHome' = [codexHome EXCEPT ![p] = content]
      /\ codexJob' = [codexJob EXCEPT !.left = Tail(@)]
  BY DEF Codex!RollBack, Codex!Put
<1>2. /\ codexJob.left \in Seq(snapshot) /\ snapshot \subseteq Codex!Path
      /\ Fitting(codexJob.saved)
  BY <1>1 DEF CodexLeft, CodexSaved, Keeps
<1> HIDE DEF snapshot
<1>3. /\ p \in snapshot /\ Tail(codexJob.left) \in Seq(snapshot)
      /\ \A x : Listed(codexJob.left, x) => x = p \/ Listed(Tail(codexJob.left), x)
  BY <1>1, <1>2, QueueParts
<1>4. /\ p \in Codex!Path
      /\ p = "config" => content \in Codex!Config
      /\ p = "pointer" => content \in {None} \cup 1 .. Len(codexReceipts)
      /\ p = "plugin" => content \in {None} \cup Package
  BY <1>2, <1>3 DEF Fitting, snapshot
<1> HIDE DEF p, content
<1>5. /\ CodexHomes' /\ codexHome'[p] = content
      /\ \A q \in Codex!Path \ {p} : codexHome'[q] = codexHome[q]
  BY <1>1, <1>4, CodexPuts
<1>6. /\ DOMAIN codexJob' = DOMAIN codexJob
      /\ codexJob'.at = "rollback" /\ codexJob'.kind = codexJob.kind
      /\ codexJob'.package = codexJob.package /\ codexJob'.runtime = codexJob.runtime
      /\ codexJob'.previous = codexJob.previous /\ codexJob'.candidate = codexJob.candidate
      /\ codexJob'.saved = codexJob.saved /\ codexJob'.before = codexJob.before
      /\ codexJob'.left = Tail(codexJob.left)
  BY <1>1 DEF CodexShape
<1>7. CodexReceipts' /\ CodexShape'
  BY <1>1, <1>6 DEF CodexReceipts, CodexShape
<1>8. CodexPlan'
  BY <1>1, <1>6 DEF CodexPlan, InstallAt, MigrateAt, UninstallAt
<1>9. CodexSaved'
  BY <1>1, <1>6 DEF CodexSaved, Fitting, Keeps
<1>10. CodexLeft'
  BY <1>3, <1>6 DEF CodexLeft, snapshot
<1>11. CodexUndo'
  <2>1. SUFFICES ASSUME codexHistory.quiet PROVE CodexUndo'
    BY <1>1 DEF CodexUndo
  <2>2. ASSUME NEW q \in Codex!Path
        PROVE  /\ q \in snapshot => codexJob.saved[q] = codexHistory.start[q]
               /\ q \notin snapshot => codexHome[q] = codexHistory.start[q]
               /\ ~ Listed(codexJob.left, q) => codexHome[q] = codexHistory.start[q]
    BY <1>1, <2>1 DEF CodexUndo, Keeps, snapshot
  <2>3. ASSUME NEW q \in Codex!Path
        PROVE  /\ q \notin snapshot => codexHome'[q] = codexHistory.start[q]
               /\ ~ Listed(Tail(codexJob.left), q) => codexHome'[q] = codexHistory.start[q]
    <3>1. CASE q = p
      BY <1>3, <1>5, <2>2, <3>1 DEF content
    <3>2. CASE q # p
      BY <1>3, <1>5, <2>2, <3>2
    <3> QED BY <3>1, <3>2
  <2> QED BY <1>1, <1>6, <2>2, <2>3 DEF CodexUndo, snapshot
<1>12. CodexRests' /\ CodexRemoves'
  BY <1>1, <1>6 DEF CodexRests, CodexRemoves
<1>13. CodexInstalls'
  BY <1>1, <1>6 DEF CodexClean, CodexInstalls
<1>14. CodexClean'
  BY <1>1, <1>6, <1>12, <1>13 DEF CodexClean, CodexKeeps
<1>15. CodexMigrates'
  <2>1. p = "config" => content = codexJob.saved["config"] /\ "config" \in DOMAIN codexJob.saved
    BY <1>3 DEF content, snapshot
  <2>2. p # "config" => codexHome'["config"] = codexHome["config"]
    BY <1>5 DEF Codex!Path
  <2> QED BY <1>1, <1>5, <1>6, <2>1, <2>2 DEF CodexMigrates, Keeps
<1> QED BY <1>5, <1>7, <1>8, <1>9, <1>10, <1>11, <1>14, <1>15

(* A rollback ends with the home as it was, unless somebody disturbed it. *)
LEMMA CodexUndone ==
  ASSUME Codex!CodexAssumption, CodexInvariant, Codex!RolledBack
  PROVE  CodexInvariant'
<1> USE DEF CodexInvariant
<1>1. /\ codexJob.at = "rollback" /\ codexJob.left = <<>> /\ Codex!Ends("undone")
      /\ UNCHANGED codexHome
  BY DEF Codex!RolledBack
<1>2. /\ codexJob' = Codex!Idle /\ codexOutcome' = "undone"
      /\ UNCHANGED <<codexHome, codexReceipts, codexApproved>>
      /\ DOMAIN codexHistory' = DOMAIN codexHistory
      /\ codexHistory'.clean = codexHistory.clean
      /\ codexHistory'.start = codexHistory.start /\ codexHistory'.quiet = codexHistory.quiet
      /\ codexHistory'.original = codexHistory.original
      /\ codexHistory'.text = codexHistory.text
      /\ codexHistory'.quiet \in BOOLEAN /\ codexHistory'.clean \in BOOLEAN
  BY <1>1, CodexEnding DEF CodexShape
<1>3. CodexHomes' /\ CodexReceipts'
  BY <1>2, CodexIdles, CodexFramed DEF CodexShape
<1>4. codexHistory.quiet => codexHome = codexHistory.start
  <2>1. \A p : ~ Listed(codexJob.left, p)
    BY <1>1 DEF Listed
  <2>2. codexHistory.quiet => \A p \in Codex!Path : codexHome[p] = codexHistory.start[p]
    BY <1>1, <2>1 DEF CodexUndo
  <2> QED BY <2>2 DEF CodexHomes
<1>5. CodexRests'
  <2>1. codexHistory.clean => CodexKeeps(codexHome)
    BY <1>1, <1>4 DEF CodexClean
  <2> QED BY <1>2, <2>1 DEF CodexRests, CodexKeeps
<1> QED BY <1>2, <1>3, <1>4, <1>5, CodexFinishes

(* A command that breaks off vouches for nothing. *)
LEMMA CodexBreaks ==
  ASSUME Codex!CodexAssumption, CodexInvariant, Codex!RollBackFails \/ Codex!Dies
  PROVE  CodexInvariant'
<1> USE DEF CodexInvariant
<1>1. /\ codexJob' = Codex!Idle /\ codexOutcome' \in {"broken", "dead"}
      /\ UNCHANGED <<codexReceipts, codexApproved>>
      /\ codexHistory' = [codexHistory EXCEPT !.clean = FALSE]
  BY DEF Codex!RollBackFails, Codex!Dies
<1>2. /\ DOMAIN codexHistory' = DOMAIN codexHistory /\ codexHistory'.clean = FALSE
      /\ codexHistory'.start = codexHistory.start /\ codexHistory'.quiet = codexHistory.quiet
      /\ codexHistory'.quiet \in BOOLEAN
  BY <1>1 DEF CodexShape
<1>3. CodexReceipts' /\ CodexRests'
  BY <1>1, <1>2 DEF CodexReceipts, CodexRests
<1>4. CodexHomes'
  <2>1. CASE UNCHANGED codexHome
    BY <1>1, <1>2, <2>1 DEF CodexHomes, Fitting
  <2>2. CASE ~ UNCHANGED codexHome
    <3> DEFINE p == Head(codexJob.left)
               content == IF p = "config" THEN Codex!NoConfig ELSE None
    <3>1. /\ codexJob.at = "rollback" /\ codexJob.left # <<>>
          /\ codexHome' = [codexHome EXCEPT ![p] = content]
      BY <2>2 DEF Codex!RollBackFails, Codex!Dies, Codex!Put
    <3>2. codexJob.left \in Seq(DOMAIN codexJob.saved) /\ DOMAIN codexJob.saved \subseteq Codex!Path
      BY <3>1 DEF CodexLeft, CodexSaved, Keeps
    <3>3. p \in Codex!Path
      BY <3>1, <3>2, QueueParts
    <3> HIDE DEF p
    <3>4. p = "config" => content \in Codex!Config
      BY DEF Codex!NoConfig, Codex!Config
    <3>5. p # "config" => content = None
      OBVIOUS
    <3> HIDE DEF content
    <3> QED BY <1>1, <1>2, <3>1, <3>3, <3>4, <3>5, CodexPuts
  <2> QED BY <2>1, <2>2
<1> QED BY <1>1, <1>2, <1>3, <1>4, CodexFinishes

(* The user edits config.toml: while it is Casefile's, or without touching its keys. *)
LEMMA CodexEdits ==
  ASSUME Codex!CodexAssumption, CodexInvariant, NEW edited \in Codex!Config, Codex!Edits(edited),
         codexHome["config"].keys \in Codex!Owned \/ edited.keys = codexHome["config"].keys
  PROVE  CodexInvariant'
<1> USE DEF CodexInvariant
<1>1. /\ codexHome' = [codexHome EXCEPT !["config"] = edited]
      /\ UNCHANGED <<codexReceipts, codexApproved, codexJob, codexOutcome>>
      /\ DOMAIN codexHistory' = DOMAIN codexHistory
      /\ codexHistory'.start = codexHistory.start /\ codexHistory'.quiet = FALSE
      /\ codexHistory'.clean = (codexHistory.clean /\ codexJob.at = "idle")
      /\ codexHistory'.original = codexHistory.original
      /\ codexHistory'.text = edited.text /\ codexHistory'.tail = edited.tail
      /\ codexHistory'.during = codexJob.at
  BY DEF Codex!Edits, Codex!Put, CodexShape
<1>2. "config" \in Codex!Path
  BY DEF Codex!Path
<1>3. /\ CodexHomes' /\ codexHome'["config"] = edited
      /\ \A q \in Codex!Path \ {"config"} : codexHome'[q] = codexHome[q]
  BY <1>1, <1>2, CodexPuts
<1>4. CodexReceipts' /\ CodexShape'
  <2>1. CodexReceipts'
    BY <1>1 DEF CodexReceipts
  <2>2. codexHistory'.clean \in BOOLEAN
    BY <1>1 DEF CodexShape
  <2> QED BY <1>1, <2>1, <2>2 DEF CodexShape
<1>5. CodexPlan' /\ CodexSaved' /\ CodexLeft'
  BY <1>1 DEF CodexPlan, CodexSaved, CodexLeft, Fitting
<1>6. CodexUndo'
  BY <1>1 DEF CodexUndo
<1>7. CodexRests'
  <2>1. SUFFICES ASSUME codexHistory.clean, codexJob.at = "idle" PROVE CodexRests'
    BY <1>1 DEF CodexRests
  <2>2. /\ \A q \in Runtimes \cup Package : codexHome'[q] = codexHome[q]
        /\ codexHome'["pointer"] = codexHome["pointer"]
    BY <1>3 DEF Codex!Path, Codex!CodexAssumption
  <2>3. CodexKeeps(codexHome)
    BY <2>1 DEF CodexClean, CodexRests
  <2>4. CodexKeeps(codexHome)'
    BY <1>1, <1>3, <2>2, <2>3 DEF CodexKeeps
  <2>5. codexOutcome = "uninstalled" =>
          codexHome["config"].keys = None /\ codexHome["pointer"] = None
    BY <2>1 DEF CodexClean, CodexRests
  <2>6. None \notin Codex!Owned
    BY DEF Codex!CodexAssumption
  <2> QED BY <1>1, <1>3, <2>2, <2>4, <2>5, <2>6 DEF CodexRests
<1>8. CodexClean'
  <2>1. CodexInstalls' /\ CodexRemoves'
    BY <1>1 DEF CodexInstalls, CodexRemoves, CodexPlan
  <2> QED BY <1>1, <1>7, <2>1 DEF CodexClean
<1>9. CodexMigrates'
  BY <1>1, <1>3 DEF CodexMigrates, Keeps, Codex!Guarded
<1> QED BY <1>3, <1>4, <1>5, <1>6, <1>8, <1>9

(* The host installs another package between two commands. *)
LEMMA CodexHostInstalls ==
  ASSUME Codex!CodexAssumption, CodexInvariant,
         NEW package \in Package, Codex!HostInstallsPlugin(package)
  PROVE  CodexInvariant'
<1> USE DEF CodexInvariant
<1>1. /\ codexJob.at = "idle" /\ codexHome' = [codexHome EXCEPT !["plugin"] = package]
      /\ UNCHANGED <<codexReceipts, codexApproved, codexJob, codexOutcome>>
      /\ DOMAIN codexHistory' = DOMAIN codexHistory
      /\ codexHistory'.start = codexHistory.start /\ codexHistory'.quiet = FALSE
      /\ codexHistory'.clean = codexHistory.clean
      /\ codexHistory'.original = codexHistory.original
      /\ codexHistory'.text = codexHistory.text
  BY DEF Codex!HostInstallsPlugin, Codex!Put, CodexShape
<1>2. "plugin" \in Codex!Path
  BY DEF Codex!Path
<1>3. /\ CodexHomes'
      /\ \A q \in Codex!Path \ {"plugin"} : codexHome'[q] = codexHome[q]
  BY <1>1, <1>2, CodexPuts
<1>4. CodexReceipts' /\ CodexShape'
  <2>1. CodexReceipts'
    BY <1>1 DEF CodexReceipts
  <2>2. codexHistory'.clean \in BOOLEAN
    BY <1>1 DEF CodexShape
  <2> QED BY <1>1, <2>1, <2>2 DEF CodexShape
<1>5. CodexPlan' /\ CodexSaved' /\ CodexLeft'
  BY <1>1 DEF CodexPlan, CodexSaved, CodexLeft, Fitting
<1>6. CodexUndo' /\ CodexMigrates'
  BY <1>1 DEF CodexUndo, CodexMigrates, CodexPlan
<1>7. CodexRests'
  <2>1. /\ \A q \in Runtimes \cup Package : codexHome'[q] = codexHome[q]
        /\ codexHome'["pointer"] = codexHome["pointer"]
        /\ codexHome'["config"] = codexHome["config"]
    BY <1>3 DEF Codex!Path, Codex!CodexAssumption
  <2> QED BY <1>1, <2>1 DEF CodexClean, CodexRests, CodexKeeps
<1>8. CodexClean'
  BY <1>1, <1>7 DEF CodexClean, CodexInstalls, CodexRemoves, CodexPlan
<1> QED BY <1>3, <1>4, <1>5, <1>6, <1>8

(* Every step keeps the invariant. *)
LEMMA CodexSteps ==
  ASSUME Codex!CodexAssumption, CodexInvariant, [Codex!Next]_Codex!codexVars
  PROVE  CodexInvariant'
<1>1. CASE Codex!Install
  BY <1>1, CodexPrepares, CodexSnapshotsInstall, CodexWrites, CodexMovesOn, CodexWritesReceipt,
     CodexPoints
  DEF Codex!Install
<1>2. CASE Codex!Migrate
  BY <1>2, CodexPrepares, CodexSnapshotsMigration, CodexMovesOn, CodexRefuses DEF Codex!Migrate
<1>3. CASE Codex!Uninstall
  BY <1>3, CodexPrepares, CodexSnapshotsRemoval, CodexReads, CodexGoesOn, CodexRestores,
     CodexRemovesRest, CodexRecords
  DEF Codex!Uninstall
<1>4. CASE Codex!Others
  <2>1. CASE Codex!Fails \/ Codex!RollBack \/ Codex!RolledBack \/ Codex!RollBackFails \/ Codex!Dies
    BY <2>1, CodexFails, CodexRollsBack, CodexUndone, CodexBreaks
  <2> DEFINE was == codexHome["config"]
  <2>2. was \in Codex!Config
    BY DEF CodexInvariant, CodexHomes, Fitting, Codex!Path
  <2>3. CASE Codex!UserWrites
    <3> DEFINE edited == [was EXCEPT !.text = @ + 1]
    <3>1. edited \in Codex!Config /\ edited.keys = was.keys
      BY <2>2 DEF Codex!Config
    <3>2. Codex!Edits(edited)
      BY <2>3 DEF Codex!UserWrites
    <3> HIDE DEF edited
    <3> QED BY <3>1, <3>2, CodexEdits
  <2>6. CASE Codex!UserWritesBelow
    <3> DEFINE edited == [was EXCEPT !.tail = @ + 1]
    <3>1. edited \in Codex!Config /\ edited.keys = was.keys
      BY <2>2 DEF Codex!Config
    <3>2. Codex!Edits(edited)
      BY <2>6 DEF Codex!UserWritesBelow
    <3> HIDE DEF edited
    <3> QED BY <3>1, <3>2, CodexEdits
  <2>4. ASSUME NEW runtime \in Runtimes, Codex!UserSwitchesRuntime(runtime)
        PROVE  CodexInvariant'
    <3> DEFINE edited == [was EXCEPT !.keys.runtime = runtime]
    <3>1. was.keys \in Codex!Owned /\ Codex!Edits(edited)
      BY <2>4 DEF Codex!UserSwitchesRuntime
    <3>2. edited \in Codex!Config
      BY <2>2, <3>1 DEF Codex!Config, Codex!Owned
    <3> HIDE DEF edited
    <3> QED BY <3>1, <3>2, CodexEdits
  <2>5. ASSUME NEW package \in Package, Codex!HostInstallsPlugin(package)
        PROVE  CodexInvariant'
    BY <2>5, CodexHostInstalls
  <2> QED BY <1>4, <2>1, <2>3, <2>4, <2>5, <2>6 DEF Codex!Others
<1>5. CASE UNCHANGED Codex!codexVars
  <2> USE DEF CodexInvariant
  <2>1. UNCHANGED <<codexHome, codexReceipts, codexApproved, codexJob, codexOutcome, codexHistory>>
    BY <1>5 DEF Codex!codexVars
  <2>2. CodexHomes' /\ CodexReceipts' /\ CodexShape'
    BY <2>1, CodexFramed DEF CodexShape
  <2>3. CodexPlan' /\ CodexSaved' /\ CodexLeft'
    BY <2>1 DEF CodexPlan, CodexSaved, CodexLeft, Fitting
  <2>4. CodexUndo' /\ CodexMigrates'
    BY <2>1 DEF CodexUndo, CodexMigrates
  <2>5. CodexClean'
    BY <2>1 DEF CodexClean, CodexRests, CodexInstalls, CodexRemoves, CodexKeeps
  <2> QED BY <2>2, <2>3, <2>4, <2>5
<1> QED BY <1>1, <1>2, <1>3, <1>4, <1>5 DEF Codex!Next

-----------------------------------------------------------------------------
(* The writer resolver of the Codex adapter.                               *)

(* The shape of a command. *)
Command ==
  [op : {"none", "offer", "select", "resolve"}, at : Writer!Steps, wanted : Pair \cup {None},
   source : {None, "matrix", "binding"}, runtime : Writer!Runtime \cup {Neither},
   again : Writer!Runtime \cup {Neither}, projected : SUBSET (Pair \cup Pinned),
   catalog : SUBSET (Pair \cup Pinned), held : BOOLEAN]

WriterTyped ==
  /\ run \in [Writer!Process -> Command]
  /\ {matrix, binding, choice} \subseteq Pair \cup {None}
  /\ listed \subseteq Pair

(* The runtime has been read. *)
Knows == {"list", "again", "path", "catalog", "pairs", "request", "resolved"}

(* It has been read again. *)
KnowsTwice == {"path", "catalog", "pairs", "request", "resolved"}

(* What a command remembers at a step it has read before. *)
WriterRead ==
  \A p \in Writer!Process :
    /\ run[p].at \in Knows => run[p].runtime \in Writer!Runtime
    /\ run[p].at \in KnowsTwice => run[p].again \in Writer!Runtime
    /\ run[p].at = "permit" => run[p].source = None

(* A permit is held only while the ticket is in progress, and as long as    *)
(* one is, a binding that was read is the one that is bound.                *)
WriterPermitted ==
  run["spawner"].held =>
    /\ ticket = "in_progress"
    /\ run["spawner"].source = "binding" => run["spawner"].wanted = binding

(* A pair is offered from a catalog of the runtime it is offered for.       *)
WriterResolved == Writer!At("spawner", "resolved") => run["spawner"].runtime = run["spawner"].again

WriterInv == WriterTyped /\ WriterRead /\ WriterPermitted /\ WriterResolved

(* The steps of a resolution, one after the other. *)
LEMMA WriterAfter ==
  /\ Writer!After("permit") = "project" /\ Writer!After("project") = "runtime"
  /\ Writer!After("runtime") = "list" /\ Writer!After("list") = "again"
  /\ Writer!After("again") = "path" /\ Writer!After("path") = "catalog"
  /\ Writer!After("catalog") = "pairs"
<1> DEFINE place(step) == CHOOSE i \in 1 .. 7 : Writer!ResolveSpawn[i] = step
<1>1. /\ place("permit") = 1 /\ place("project") = 2 /\ place("runtime") = 3
      /\ place("list") = 4 /\ place("again") = 5 /\ place("path") = 6 /\ place("catalog") = 7
  BY DEF Writer!ResolveSpawn
<1> HIDE DEF place
<1>2. \A step : Writer!After(step) = Writer!ResolveSpawn[1 + place(step)]
  BY DEF Writer!After, place
<1> QED BY <1>1, <1>2 DEF Writer!ResolveSpawn

(* At first no command runs. *)
LEMMA WriterStarts == ASSUME Writer!WriterAssumption, Writer!Init PROVE WriterInv
<1> USE DEF Writer!WriterAssumption, Writer!Init, Writer!Process
<1>1. Writer!NoRun \in Command
  BY DEF Writer!NoRun, Command, Writer!Steps
<1>2. WriterTyped
  BY <1>1 DEF WriterTyped
<1>3. WriterRead /\ WriterPermitted /\ WriterResolved
  BY DEF WriterRead, WriterPermitted, WriterResolved, Writer!NoRun, Knows, KnowsTwice, Writer!At
<1> QED BY <1>2, <1>3 DEF WriterInv

(* A command that begins or has failed remembers nothing. *)
LEMMA WriterForgets ==
  ASSUME Writer!WriterAssumption, WriterInv, NEW p \in Writer!Process, NEW r \in Command,
         r.at \in {"idle", "permit", "runtime"}, ~ r.held, r.source = None,
         run' = [run EXCEPT ![p] = r],
         UNCHANGED <<listed, matrix, ticket>>, {binding', choice'} \subseteq Pair \cup {None},
         binding' = binding \/ (p = "chooser" /\ ~ run["spawner"].held)
  PROVE  WriterInv'
<1> USE DEF WriterInv, Writer!Process
<1>1. WriterTyped'
  BY DEF WriterTyped
<1>2. WriterRead'
  BY DEF WriterRead, WriterTyped, Knows, KnowsTwice
<1>3. WriterPermitted'
  BY DEF WriterPermitted, WriterTyped
<1>4. WriterResolved'
  BY DEF WriterResolved, WriterTyped, Writer!At
<1> QED BY <1>1, <1>2, <1>3, <1>4

(* A step of a command that reads. *)
LEMMA WriterReads ==
  ASSUME Writer!WriterAssumption, WriterInv, NEW p \in Writer!Process, NEW r \in Command,
         run' = [run EXCEPT ![p] = r], UNCHANGED Writer!world,
         r.at \in Writer!Steps \ {"permit", "resolved"},
         r.at \in Knows => r.runtime \in Writer!Runtime,
         r.at \in KnowsTwice => r.again \in Writer!Runtime,
         p = "spawner" /\ r.held =>
           ticket = "in_progress" /\ (r.source = "binding" => r.wanted = binding)
  PROVE  WriterInv'
<1> USE DEF WriterInv, Writer!Process, Writer!world
<1>1. WriterTyped'
  BY DEF WriterTyped
<1>2. WriterRead'
  BY DEF WriterRead, WriterTyped
<1>3. WriterPermitted'
  BY DEF WriterPermitted, WriterTyped
<1>4. WriterResolved'
  BY DEF WriterResolved, WriterTyped, Writer!At
<1> QED BY <1>1, <1>2, <1>3, <1>4

(* Every step of a command keeps the invariant. *)
LEMMA WriterCommands ==
  ASSUME Writer!WriterAssumption, WriterInv, Writer!Commands PROVE WriterInv'
<1> USE DEF Writer!WriterAssumption
<1>0. Writer!NoRun \in Command /\ ~ Writer!NoRun.held /\ Writer!NoRun.at = "idle"
  BY DEF Writer!NoRun, Command, Writer!Steps
<1>1. {binding, choice, matrix} \subseteq Pair \cup {None} /\ listed \subseteq Pair
  BY DEF WriterInv, WriterTyped
<1>2. \A p \in Writer!Process : run[p] \in Command
  BY DEF WriterInv, WriterTyped
<1>3. "chooser" \in Writer!Process /\ "spawner" \in Writer!Process
  BY DEF Writer!Process
<1>4. CASE Writer!Offer \/ Writer!Select \/ Writer!Resolve
  <2>1. PICK p \in Writer!Process, op \in {"offer", "select", "resolve"},
             pair \in Pair \cup {None} : Writer!Starts(p, op, pair)
    BY <1>1, <1>3, <1>4 DEF Writer!Offer, Writer!Select, Writer!Resolve
  <2> DEFINE r == [Writer!NoRun EXCEPT !.op = op, !.at = Writer!FirstOf(op), !.wanted = pair]
  <2>2. Writer!FirstOf(op) \in {"permit", "runtime"}
    BY DEF Writer!FirstOf, Writer!ResolveSpawn
  <2>3. r \in Command /\ r.at \in {"permit", "runtime"} /\ ~ r.held /\ r.source = None
    BY <1>0, <2>2 DEF Command, Writer!Steps, Writer!NoRun
  <2>4. run' = [run EXCEPT ![p] = r] /\ UNCHANGED <<listed, matrix, ticket, binding, choice>>
    BY <2>1 DEF Writer!Starts, Writer!world
  <2> HIDE DEF r
  <2> QED BY <1>1, <2>3, <2>4, WriterForgets
<1>5. ASSUME NEW p \in Writer!Process,
             Writer!Permit(p) \/ Writer!Project(p) \/ Writer!ReadRuntime(p) \/ Writer!List(p)
             \/ Writer!ReadRuntimeAgain(p) \/ Writer!CheckCatalogPath(p) \/ Writer!ReadCatalog(p)
      PROVE  WriterInv'
  <2>0. run[p] \in Command
    BY <1>2
  <2> DEFINE Read == {"permit", "project", "runtime", "list", "again", "path", "catalog"}
             Fits(r) == p = "spawner" /\ r.held =>
                          /\ ticket = "in_progress"
                          /\ r.source = "binding" => r.wanted = binding
  <2>1. ASSUME NEW reached \in Command, Writer!Reads(p, reached), reached.at = run[p].at,
               run[p].at \in Read, Fits(reached),
               Writer!After(run[p].at) \in Knows => reached.runtime \in Writer!Runtime,
               Writer!After(run[p].at) \in KnowsTwice => reached.again \in Writer!Runtime
        PROVE  WriterInv'
    <3> DEFINE r == [reached EXCEPT !.at = Writer!After(run[p].at)]
    <3>1. Writer!After(run[p].at) \in Writer!Steps \ {"permit", "resolved"}
      BY <2>1, WriterAfter DEF Writer!Steps
    <3>2. r \in Command /\ r.at = Writer!After(run[p].at) /\ r.runtime = reached.runtime
          /\ r.again = reached.again /\ r.held = reached.held /\ r.source = reached.source
          /\ r.wanted = reached.wanted
      BY <2>1, <3>1 DEF Command
    <3>3. run' = [run EXCEPT ![p] = r] /\ UNCHANGED Writer!world
      BY <2>1 DEF Writer!Reads
    <3> HIDE DEF r
    <3> QED BY <2>1, <3>1, <3>2, <3>3, WriterReads
  <2>2. /\ run[p].at \in Knows => run[p].runtime \in Writer!Runtime
        /\ run[p].at \in KnowsTwice => run[p].again \in Writer!Runtime
        /\ run[p].at = "permit" => run[p].source = None
    BY DEF WriterInv, WriterRead
  <2>3. Fits(run[p])
    BY DEF WriterInv, WriterPermitted
  <2> HIDE DEF Fits, Read
  <2>4. CASE Writer!Permit(p)
    <3> DEFINE reached == [run[p] EXCEPT !.held = TRUE]
    <3>1. run[p].at = "permit" /\ ticket = "in_progress" /\ Writer!Reads(p, reached)
      BY <2>4 DEF Writer!Permit, Writer!At
    <3>2. reached \in Command /\ reached.at = "permit" /\ reached.source = None
      BY <2>0, <2>2, <3>1 DEF Command
    <3>3. Fits(reached) /\ run[p].at \in Read
      BY <3>1, <3>2 DEF Fits, Read
    <3> HIDE DEF reached
    <3> QED BY <2>1, <3>1, <3>2, <3>3, WriterAfter DEF Knows, KnowsTwice
  <2>5. CASE Writer!Project(p)
    <3> DEFINE reached == [run[p] EXCEPT !.wanted = Writer!Effective,
                                        !.source = IF binding = None THEN "matrix" ELSE "binding"]
    <3>1. run[p].at = "project" /\ Writer!Reads(p, reached)
      BY <2>5 DEF Writer!Project, Writer!At
    <3>2. Writer!Effective \in Pair \cup {None}
      BY <1>1 DEF Writer!Effective
    <3>3. reached \in Command /\ reached.at = "project" /\ reached.held = run[p].held
      BY <2>0, <3>1, <3>2 DEF Command
    <3>4. reached.source = "binding" => reached.wanted = binding
      BY <2>0, <3>2 DEF Command, Writer!Effective
    <3>5. Fits(reached) /\ run[p].at \in Read
      BY <2>3, <3>1, <3>3, <3>4 DEF Fits, Read
    <3> HIDE DEF reached
    <3> QED BY <2>1, <3>1, <3>3, <3>5, WriterAfter DEF Knows, KnowsTwice
  <2>6. CASE Writer!ReadRuntime(p)
    <3> DEFINE reached == [run[p] EXCEPT !.runtime = config.flags]
    <3>1. run[p].at = "runtime" /\ Writer!Reads(p, reached) /\ config.flags \in Writer!Runtime
      BY <2>6 DEF Writer!ReadRuntime, Writer!At
    <3>2. reached \in Command /\ reached.at = "runtime" /\ reached.runtime \in Writer!Runtime
          /\ reached.held = run[p].held /\ reached.source = run[p].source
          /\ reached.wanted = run[p].wanted
      BY <2>0, <3>1 DEF Command
    <3>3. Fits(reached) /\ run[p].at \in Read
      BY <2>3, <3>1, <3>2 DEF Fits, Read
    <3> HIDE DEF reached
    <3> QED BY <2>1, <3>1, <3>2, <3>3, WriterAfter DEF Knows, KnowsTwice
  <2>7. CASE Writer!List(p)
    <3> DEFINE reached == [run[p] EXCEPT !.projected = listed \cup Pinned]
    <3>1. run[p].at = "list" /\ Writer!Reads(p, reached)
      BY <2>7 DEF Writer!List, Writer!At
    <3>2. reached \in Command /\ reached.at = "list" /\ reached.runtime = run[p].runtime
          /\ reached.held = run[p].held /\ reached.source = run[p].source
          /\ reached.wanted = run[p].wanted
      BY <1>1, <2>0, <3>1 DEF Command
    <3>3. Fits(reached) /\ run[p].at \in Read /\ run[p].at \in Knows
      BY <2>3, <3>1, <3>2 DEF Fits, Read, Knows
    <3> HIDE DEF reached
    <3> QED BY <2>1, <2>2, <3>1, <3>2, <3>3, WriterAfter DEF KnowsTwice
  <2>8. CASE Writer!ReadRuntimeAgain(p)
    <3> DEFINE reached == [run[p] EXCEPT !.again = config.flags]
    <3>1. run[p].at = "again" /\ Writer!Reads(p, reached) /\ config.flags \in Writer!Runtime
      BY <2>8 DEF Writer!ReadRuntimeAgain, Writer!At
    <3>2. reached \in Command /\ reached.at = "again" /\ reached.runtime = run[p].runtime
          /\ reached.again \in Writer!Runtime
          /\ reached.held = run[p].held /\ reached.source = run[p].source
          /\ reached.wanted = run[p].wanted
      BY <2>0, <3>1 DEF Command
    <3>3. Fits(reached) /\ run[p].at \in Read /\ run[p].at \in Knows
      BY <2>3, <3>1, <3>2 DEF Fits, Read, Knows
    <3> HIDE DEF reached
    <3> QED BY <2>1, <2>2, <3>1, <3>2, <3>3
  <2>9. CASE Writer!CheckCatalogPath(p)
    <3>1. run[p].at = "path" /\ Writer!Reads(p, run[p])
      BY <2>9 DEF Writer!CheckCatalogPath, Writer!At
    <3>2. run[p].at \in Read /\ run[p].at \in Knows /\ run[p].at \in KnowsTwice
      BY <3>1 DEF Read, Knows, KnowsTwice
    <3> QED BY <2>0, <2>1, <2>2, <2>3, <3>1, <3>2
  <2>10. CASE Writer!ReadCatalog(p)
    <3> DEFINE reached == [run[p] EXCEPT !.catalog = catalogs[run[p].again] \cap run[p].projected]
    <3>1. run[p].at = "catalog" /\ Writer!Reads(p, reached)
      BY <2>10 DEF Writer!ReadCatalog, Writer!At
    <3>2. reached \in Command /\ reached.at = "catalog" /\ reached.runtime = run[p].runtime
          /\ reached.again = run[p].again
          /\ reached.held = run[p].held /\ reached.source = run[p].source
          /\ reached.wanted = run[p].wanted
      BY <2>0, <3>1 DEF Command
    <3>3. Fits(reached) /\ run[p].at \in Read /\ run[p].at \in Knows /\ run[p].at \in KnowsTwice
      BY <2>3, <3>1, <3>2 DEF Fits, Read, Knows, KnowsTwice
    <3> HIDE DEF reached
    <3> QED BY <2>1, <2>2, <3>1, <3>2, <3>3
  <2> QED BY <1>5, <2>4, <2>5, <2>6, <2>7, <2>8, <2>9, <2>10
<1>6. CASE \/ \E pair \in Pair : Writer!Choose(pair)
           \/ Writer!Persist \/ Writer!Fail
  <2>1. PICK p \in Writer!Process :
          /\ run' = [run EXCEPT ![p] = Writer!NoRun]
          /\ UNCHANGED <<listed, matrix, ticket>>
          /\ choice' = choice \/ choice' \in Pair \cup {None}
          /\ \/ binding' = binding
             \/ p = "chooser" /\ ticket # "in_progress" /\ binding' = run[p].wanted
    BY <1>3, <1>6 DEF Writer!Choose, Writer!Persist, Writer!Inactive, Writer!Fail, Writer!Fails,
                      Writer!Ends, Writer!world
  <2>2. run[p].wanted \in Pair \cup {None} /\ Writer!NoRun.source = None
    BY <1>2 DEF Command, Writer!NoRun
  <2>3. ticket # "in_progress" => ~ run["spawner"].held
    BY DEF WriterInv, WriterPermitted
  <2> QED BY <1>0, <1>1, <2>1, <2>2, <2>3, WriterForgets
<1>7. CASE Writer!MakeRequest
  <2> DEFINE r == [run["chooser"] EXCEPT !.at = "request"]
  <2>1. run["chooser"].at = "pairs" /\ run' = [run EXCEPT !["chooser"] = r]
        /\ UNCHANGED Writer!world
    BY <1>7 DEF Writer!MakeRequest, Writer!Ends, Writer!At, Writer!world
  <2>2. r \in Command /\ r.at = "request" /\ r.runtime = run["chooser"].runtime
        /\ r.again = run["chooser"].again
    BY <1>2, <1>3 DEF Command, Writer!Steps
  <2>3. run["chooser"].runtime \in Writer!Runtime /\ run["chooser"].again \in Writer!Runtime
    BY <1>3, <2>1 DEF WriterInv, WriterRead, Knows, KnowsTwice
  <2> HIDE DEF r
  <2> QED BY <1>3, <2>1, <2>2, <2>3, WriterReads DEF Writer!Steps
<1>8. CASE Writer!Spawn
  <2> DEFINE s == run["spawner"]
  <2>1. s.at = "pairs" /\ run' = [run EXCEPT !["spawner"].at = "resolved"]
        /\ s.wanted \in Writer!Pairs(s) /\ UNCHANGED Writer!world
    BY <1>8 DEF Writer!Spawn, Writer!Ends, Writer!At, Writer!world
  <2>2. s.runtime \in Writer!Runtime /\ s.again \in Writer!Runtime
    BY <1>3, <2>1 DEF WriterInv, WriterRead, Knows, KnowsTwice
  <2>3. Writer!SelectorFits(s.runtime, Writer!Selector(s.again))
    BY <2>1 DEF Writer!Pairs
  <2>4. s.runtime = s.again
    BY <2>2, <2>3 DEF Writer!SelectorFits, Writer!Selector, Writer!Runtime
  <2>5. WriterTyped'
    BY <1>1, <1>2, <1>3, <2>1 DEF WriterInv, WriterTyped, Command, Writer!Steps, Writer!world
  <2>6. WriterRead'
    BY <1>2, <1>3, <2>1, <2>2 DEF WriterInv, WriterRead, WriterTyped, Command
  <2>7. WriterPermitted'
    BY <1>2, <1>3, <2>1 DEF WriterInv, WriterPermitted, WriterTyped, Command, Writer!world
  <2>8. WriterResolved'
    BY <1>2, <1>3, <2>1, <2>4 DEF WriterInv, WriterResolved, WriterTyped, Command
  <2> QED BY <2>5, <2>6, <2>7, <2>8 DEF WriterInv
<1> QED
  BY <1>4, <1>5, <1>6, <1>7, <1>8 DEF Writer!Commands

(* Every change of the world keeps the invariant. *)
LEMMA WriterWorld ==
  ASSUME Writer!WriterAssumption, WriterInv, Writer!World PROVE WriterInv'
<1>1. CASE UNCHANGED <<run, binding, ticket, choice>> /\ matrix' \in Pair \cup {None}
           /\ listed' \subseteq Pair
  BY <1>1 DEF WriterInv, WriterTyped, WriterRead, WriterPermitted, WriterResolved, Writer!At
<1>2. CASE \E status \in Writer!Status : Writer!TicketMoves(status)
  <2>1. run' = [run EXCEPT !["spawner"].held = FALSE]
        /\ UNCHANGED <<listed, matrix, binding, choice>>
    BY <1>2 DEF Writer!TicketMoves
  <2>2. run \in [Writer!Process -> Command] /\ "spawner" \in Writer!Process
    BY DEF WriterInv, WriterTyped, Writer!Process
  <2> DEFINE before == run["spawner"]
  <2>9. before \in Command
    BY <2>2
  <2> HIDE DEF before
  <2> DEFINE r == [before EXCEPT !.held = FALSE]
  <2>10. r \in Command
    BY <2>9 DEF Command
  <2>11. ~ r.held /\ r.at = before.at /\ r.source = before.source
    BY <2>9 DEF Command
  <2>12. r.runtime = before.runtime /\ r.again = before.again
    BY <2>9 DEF Command
  <2>3. /\ r \in Command /\ ~ r.held /\ r.at = run["spawner"].at
        /\ r.runtime = run["spawner"].runtime /\ r.again = run["spawner"].again
        /\ r.source = run["spawner"].source
    BY <2>10, <2>11, <2>12 DEF before
  <2>4. run' = [run EXCEPT !["spawner"] = r]
    BY <2>1 DEF before
  <2> HIDE DEF r
  <2>5. /\ WriterTyped' /\ ~ run'["spawner"].held
        /\ \A p \in Writer!Process :
             /\ run'[p].at = run[p].at /\ run'[p].runtime = run[p].runtime
             /\ run'[p].again = run[p].again /\ run'[p].source = run[p].source
    BY <2>1, <2>2, <2>3, <2>4 DEF WriterInv, WriterTyped
  <2>6. WriterRead' /\ WriterPermitted'
    BY <2>2, <2>5 DEF WriterInv, WriterRead, WriterPermitted
  <2>7. WriterResolved'
    BY <2>2, <2>5 DEF WriterInv, WriterResolved, Writer!At
  <2> QED BY <2>5, <2>6, <2>7 DEF WriterInv
<1> QED
  <2>1. matrix \in Pair \cup {None} /\ listed \subseteq Pair
    BY DEF WriterInv, WriterTyped
  <2> QED BY <1>1, <1>2, <2>1 DEF Writer!World, Writer!SetUpWritesConfig, Writer!UserSwitches,
        Writer!SetUpWritesCatalog, Writer!HostLists, Writer!Reselect

(* And so does every step. *)
LEMMA WriterSteps ==
  ASSUME Writer!WriterAssumption, WriterInv, [Writer!Next]_(Writer!resolverVars)
  PROVE  WriterInv'
<1>1. CASE UNCHANGED Writer!resolverVars
  BY <1>1 DEF Writer!resolverVars, WriterInv, WriterTyped, WriterRead, WriterPermitted,
              WriterResolved, Writer!At
<1> QED BY <1>1, WriterCommands, WriterWorld DEF Writer!Next

-----------------------------------------------------------------------------
(* An edit in the workbench.                                               *)

(* The shapes. *)
EditTyped ==
  /\ record \in Editing!Version
  /\ number \in 0 .. MaxSessions
  /\ entry \in [Editing!Session -> Editing!Version \cup {None}]
  /\ drafts \in [Editing!Session -> Editing!Text \cup {None}]
  /\ saved \in [Editing!Session -> Editing!Text \cup {None}]
  /\ written \in [Editing!Session -> Editing!Replacement \cup {None}]
  /\ DOMAIN said = Editing!Session

(* A number names one version of the record: what a session has read has    *)
(* the number of the record only as long as it is the record.               *)
EditDated ==
  \A s \in 1 .. number :
    /\ entry[s] \in Editing!Version
    /\ entry[s].text # None
    /\ entry[s].revision <= record.revision
    /\ entry[s].revision = record.revision => entry[s] = record

(* What has not begun has left nothing. *)
EditAhead ==
  \A s \in Editing!Session : s > number =>
    /\ drafts[s] = None /\ saved[s] = None /\ written[s] = None /\ said[s] = "nothing"

(* How far the session is, and what it goes by there. *)
EditUnderWay ==
  at \notin {"workbench", "over"} =>
    /\ number \in Editing!Session
    /\ said[number] = "nothing"
    /\ at = "clean" <=> written[number] # None
    /\ at \in {"editing", "read"} =>
         drafts[number] = IF saved[number] = None THEN entry[number].text ELSE saved[number]
    /\ at = "unchanged" => saved[number] \in {None, entry[number].text}
    /\ at = "cancel" => saved[number] = None
    /\ at \in {"parse", "preview", "review", "apply"} =>
         text = saved[number] /\ text \in Editing!Text
    /\ at \in {"review", "apply"} =>
         preview = [expected |-> entry[number].revision,
                    proposed |-> Editing!Rendered(saved[number])]

EditInv == EditTyped /\ EditDated /\ EditAhead /\ EditUnderWay /\ Editing!EditsAreNotLost

(* What is laid out is a text. *)
LEMMA RenderedIsText ==
  ASSUME NEW t \in Editing!Text
  PROVE  Editing!Rendered(t) \in Editing!Text
BY DEF Editing!Rendered, Editing!Text

(* At first no session has left anything. *)
LEMMA EditStarts == ASSUME Editing!EditAssumption, Editing!Init PROVE EditInv
<1> USE DEF Editing!EditAssumption, Editing!Init, Editing!Session
<1>1. PICK t \in Editing!Text : record = [text |-> t, revision |-> 0]
  OBVIOUS
<1>2. EditTyped
  BY <1>1 DEF EditTyped, Editing!Version
<1>3. EditDated /\ EditAhead /\ EditUnderWay
  BY DEF EditDated, EditAhead, EditUnderWay
<1>4. Editing!EditsAreNotLost
  BY DEF Editing!EditsAreNotLost
<1> QED BY <1>2, <1>3, <1>4 DEF EditInv

(* Every step keeps the invariant. *)
LEMMA EditSteps ==
  ASSUME Editing!EditAssumption, EditInv, [Editing!Next]_(Editing!editVars)
  PROVE  EditInv'
<1> USE DEF Editing!EditAssumption, Editing!Session, EditInv
<1>0. number \in Nat /\ number <= MaxSessions /\ MaxSessions \in Nat
  BY DEF EditTyped
<1>1. CASE UNCHANGED Editing!editVars \/ Editing!Wait
  BY <1>1 DEF Editing!editVars, Editing!Wait, EditTyped, EditDated, EditAhead, EditUnderWay,
              Editing!EditsAreNotLost
<1>2. CASE Editing!Open
  <2> USE <1>2 DEF Editing!Open, Editing!Goes, Editing!Editable
  <2>1. EditTyped'
    BY DEF EditTyped, Editing!Version
  <2>2. EditDated'
    BY DEF EditTyped, EditDated, Editing!Version
  <2>3. EditAhead'
    BY DEF EditTyped, EditAhead
  <2>4. EditUnderWay'
    BY DEF EditTyped, EditAhead, EditUnderWay
  <2>5. Editing!EditsAreNotLost'
    BY DEF EditTyped, EditAhead, Editing!EditsAreNotLost
  <2> QED BY <2>1, <2>2, <2>3, <2>4, <2>5
<1>3. CASE \E t \in Editing!Text : Editing!Save(t)
  <2> PICK t \in Editing!Text : Editing!Save(t)
    BY <1>3
  <2> USE DEF Editing!Save
  <2>1. EditTyped'
    BY DEF EditTyped
  <2>2. EditDated'
    BY DEF EditTyped, EditDated
  <2>3. EditAhead'
    BY DEF EditTyped, EditAhead, EditUnderWay
  <2>4. EditUnderWay'
    BY DEF EditTyped, EditAhead, EditUnderWay
  <2>5. Editing!EditsAreNotLost'
    BY DEF EditTyped, EditUnderWay, Editing!EditsAreNotLost
  <2> QED BY <2>1, <2>2, <2>3, <2>4, <2>5
<1>4. CASE Editing!Close \/ Editing!ReadDraft \/ Editing!Parse
  <2> USE <1>4 DEF Editing!Close, Editing!ReadDraft, Editing!Parse, Editing!Goes
  <2>1. EditTyped' /\ EditDated' /\ EditAhead' /\ Editing!EditsAreNotLost'
    BY DEF EditTyped, EditDated, EditAhead, Editing!EditsAreNotLost
  <2>2. EditUnderWay'
    BY DEF EditTyped, EditDated, EditUnderWay
  <2> QED BY <2>1, <2>2
<1>5. CASE Editing!MakePreview
  <2> USE <1>5 DEF Editing!MakePreview, Editing!Goes, Editing!SameVersion
  <2>1. EditTyped' /\ EditDated' /\ EditAhead' /\ Editing!EditsAreNotLost'
    BY DEF EditTyped, EditDated, EditAhead, Editing!EditsAreNotLost
  <2>2. EditUnderWay'
    BY DEF EditUnderWay
  <2> QED BY <2>1, <2>2
<1>6. CASE Editing!Decide
  <2> USE <1>6 DEF Editing!Decide, Editing!Goes
  <2>1. EditTyped'
    BY DEF EditTyped
  <2>2. EditDated'
    BY DEF EditTyped, EditDated
  <2>3. EditAhead'
    BY DEF EditTyped, EditAhead, EditUnderWay
  <2>4. EditUnderWay'
    BY DEF EditTyped, EditUnderWay
  <2>5. Editing!EditsAreNotLost'
    BY DEF EditTyped, EditUnderWay, Editing!EditsAreNotLost
  <2> QED BY <2>1, <2>2, <2>3, <2>4, <2>5
<1>7. CASE Editing!Retain
  <2> USE <1>7 DEF Editing!Retain, Editing!Says
  <2>1. EditTyped'
    BY DEF EditTyped
  <2>2. EditDated' /\ EditUnderWay'
    BY DEF EditTyped, EditDated, EditUnderWay
  <2>3. EditAhead'
    BY DEF EditTyped, EditAhead, EditUnderWay
  <2>5. Editing!EditsAreNotLost'
    BY DEF EditTyped, EditUnderWay, Editing!EditsAreNotLost
  <2> QED BY <2>1, <2>2, <2>3, <2>5
<1>8. CASE Editing!Apply \/ Editing!ApplyIncomplete
  <2>1. /\ Editing!Publish
        /\ UNCHANGED <<others, number, entry, drafts, saved, text, preview>>
        /\ \/ at' = "clean" /\ UNCHANGED said
           \/ at' = "over" /\ Editing!Says("incomplete")
    BY <1>8 DEF Editing!Apply, Editing!ApplyIncomplete
  <2> USE <2>1 DEF Editing!Publish, Editing!Says
  <2>2. /\ number \in Editing!Session /\ at = "apply"
        /\ saved[number] \in Editing!Text
        /\ preview.expected = entry[number].revision
        /\ preview.proposed = Editing!Rendered(saved[number])
    BY DEF EditUnderWay
  <2>3. record = entry[number] /\ Editing!Rendered(saved[number]) \in Editing!Text
    BY <2>2, RenderedIsText DEF EditDated, EditTyped
  <2>4. /\ record' = [text |-> Editing!Rendered(saved[number]), revision |-> record.revision + 1]
        /\ written' = [written EXCEPT ![number] =
                         [old |-> record, new |-> Editing!Rendered(saved[number])]]
    BY <2>2
  <2>5. /\ record' \in Editing!Version
        /\ [old |-> record, new |-> Editing!Rendered(saved[number])] \in Editing!Replacement
        /\ record'.revision = record.revision + 1 /\ record.revision \in Nat
    BY <2>3, <2>4 DEF EditTyped, Editing!Version, Editing!Replacement
  <2>6. EditTyped'
    <3>1. written' \in [Editing!Session -> Editing!Replacement \cup {None}]
      BY <2>4, <2>5 DEF EditTyped
    <3>2. DOMAIN said' = Editing!Session
      BY DEF EditTyped
    <3> QED BY <2>5, <3>1, <3>2 DEF EditTyped
  <2>7. EditDated'
    BY <2>5 DEF EditDated, EditTyped, Editing!Version
  <2>8. EditAhead'
    <3>1. \A s \in 1 .. MaxSessions : s > number => s # number
      BY <1>0
    <3>2. \A s \in Editing!Session : s # number => written'[s] = written[s] /\ said'[s] = said[s]
      BY <2>4 DEF EditTyped
    <3> QED BY <3>1, <3>2 DEF EditAhead
  <2>9. EditUnderWay'
    BY <2>2, <2>4, <2>5 DEF EditUnderWay, EditTyped
  <2>10. Editing!EditsAreNotLost'
    BY <2>2, <2>3, <2>4, <2>5 DEF Editing!EditsAreNotLost, EditTyped, EditUnderWay
  <2> QED BY <2>6, <2>7, <2>8, <2>9, <2>10
<1>9. CASE Editing!DiscardDraft \/ Editing!DiscardFails
  <2>1. PICK message :
          /\ at \in {"unchanged", "cancel", "clean"}
          /\ drafts' \in {drafts, [drafts EXCEPT ![number] = None]}
          /\ at' \in {"workbench", "over"}
          /\ said' = [said EXCEPT ![number] = message] /\ message # "unchanged"
          /\ UNCHANGED <<record, others, number, entry, saved, text, preview, written>>
    BY <1>9 DEF Editing!DiscardDraft, Editing!DiscardFails, Editing!Says
  <2>2. EditTyped'
    BY <2>1 DEF EditTyped
  <2>3. EditDated' /\ EditUnderWay'
    BY <2>1 DEF EditDated, EditUnderWay
  <2>4. EditAhead'
    <3>1. \A s \in 1 .. MaxSessions : s > number => s # number
      BY <1>0
    <3>2. \A s \in Editing!Session : s # number => drafts'[s] = drafts[s] /\ said'[s] = said[s]
      BY <2>1 DEF EditTyped
    <3> QED BY <2>1, <3>1, <3>2 DEF EditAhead
  <2>5. Editing!EditsAreNotLost'
    BY <2>1 DEF EditTyped, EditUnderWay, Editing!EditsAreNotLost
  <2> QED BY <2>2, <2>3, <2>4, <2>5
<1>10. CASE Editing!Dies \/ Editing!Restart
  BY <1>10 DEF Editing!Dies, Editing!Restart, Editing!Goes, EditTyped, EditDated, EditAhead,
               EditUnderWay, Editing!EditsAreNotLost
<1>11. CASE \E t \in Editing!Text \cup {None} : Editing!OtherWrites(t)
  <2> PICK t \in Editing!Text \cup {None} : Editing!OtherWrites(t)
    BY <1>11
  <2> USE DEF Editing!OtherWrites
  <2>1. EditTyped' /\ record'.revision = record.revision + 1 /\ record.revision \in Nat
    BY DEF EditTyped, Editing!Version
  <2>2. EditDated'
    BY <2>1 DEF EditDated, EditTyped, Editing!Version
  <2>3. EditAhead' /\ EditUnderWay' /\ Editing!EditsAreNotLost'
    BY DEF EditAhead, EditUnderWay, Editing!EditsAreNotLost
  <2> QED BY <2>1, <2>2, <2>3
<1> QED
  BY <1>1, <1>2, <1>3, <1>4, <1>5, <1>6, <1>7, <1>8, <1>9, <1>10, <1>11 DEF Editing!Next

-----------------------------------------------------------------------------
(* The programs together. *)

(* Each program has its invariant. *)
HostInv ==
  /\ program = "claude" => ClaudeInvariant
  /\ program = "codex" => CodexInvariant
  /\ program = "writer" => WriterInv
  /\ program = "edit" => EditInv

(* A behaviour is one of a single program, which keeps its invariant. *)
LEMMA HostInvariance == HostSpec => []HostInv
<1>1. HostInit => HostInv
  BY ClaudeStarts, CodexStarts, WriterStarts, EditStarts, CodexHolds, WriterHolds, EditHolds
  DEF HostInit, HostInv
<1>2. HostInv /\ [HostNext]_hostVars => HostInv'
  <2> SUFFICES ASSUME HostInv, [HostNext]_hostVars PROVE HostInv'
    OBVIOUS
  <2>1. program' = program
    BY DEF HostNext, hostVars
  <2>2. program = "claude" => [Claude!Next]_Claude!claudeVars
    BY DEF HostNext, hostVars, claudeVars, Claude!claudeVars
  <2>3. program = "codex" => [Codex!Next]_Codex!codexVars
    BY DEF HostNext, hostVars, codexVars, Codex!codexVars
  <2>4. program = "writer" => [Writer!Next]_(Writer!resolverVars)
    BY DEF HostNext, hostVars, writerVars, Writer!resolverVars
  <2>5. program = "edit" => [Editing!Next]_Editing!editVars
    BY DEF HostNext, hostVars, editVars, Editing!editVars
  <2>6. program = "claude" => ClaudeInvariant'
    BY <2>2, ClaudeSteps DEF HostInv
  <2>7. program = "codex" => CodexInvariant'
    BY <2>3, CodexSteps, CodexHolds DEF HostInv
  <2>8. program = "writer" => WriterInv'
    BY <2>4, WriterSteps, WriterHolds DEF HostInv
  <2>9. program = "edit" => EditInv'
    BY <2>5, EditSteps, EditHolds DEF HostInv
  <2> QED BY <2>1, <2>6, <2>7, <2>8, <2>9 DEF HostInv
<1> QED BY <1>1, <1>2, PTL DEF HostSpec

(* A Claude command whose rollback is told as verified has left the binding, *)
(* the receipt and every executable but the one it was installing as they  *)
(* were, and after a first installation the depth, unless it is printed as *)
(* a string now: setup-claude.py:306-351, 390-401.                         *)
THEOREM WhatIsToldUndoneIs == HostSpec => []UndoneIsUndone
<1>1. HostInv => UndoneIsUndone
  BY DEF HostInv, ClaudeInvariant, ClaudeUndone, DepthBack, UndoneIsUndone,
         Claude!UndoneIsUndone
<1> QED BY <1>1, HostInvariance, PTL

(* However often Casefile was installed over itself, its removal leaves the *)
(* Claude host as it was before the first installation, but for a depth    *)
(* that was not written as Casefile writes one, and for a server that the  *)
(* installation did not see: setup-claude.py:137-143, 289-300, 384.        *)
THEOREM ARemovalRestoresTheOriginal == HostSpec => []RemovalRestoresOriginal
<1>1. HostInv => RemovalRestoresOriginal
  BY DEF HostInv, ClaudeInvariant, ClaudeClean, ClaudeKeeps, ClaudeOriginal,
         RemovalRestoresOriginal, Claude!RemovalRestoresOriginal
<1> QED BY <1>1, HostInvariance, PTL

(* A Codex command that fails and that nobody disturbed leaves the whole home *)
(* as it was, wherever it fails: setup-codex.py:916-922, 1048-1054.        *)
THEOREM AFailureLeavesTheHome == HostSpec => []FailureLeavesHome
<1>1. HostInv => FailureLeavesHome
  BY DEF HostInv, CodexInvariant, CodexUndo, FailureLeavesHome, Codex!FailureLeavesHome
<1> QED BY <1>1, HostInvariance, PTL

(* The user's text in config.toml is not touched, save the lines directly  *)
(* below Casefile's block, of which nothing is said, and a removal puts    *)
(* every catalog and executable back to what was there before Casefile:    *)
(* setup-codex.py:466-490, 863-871, 1030-1041.                             *)
THEOREM ARemovalRestoresTheHost == HostSpec => []RemovalRestoresHost
<1>1. HostInv => RemovalRestoresHost
  BY DEF HostInv, CodexInvariant, CodexClean, CodexRests, CodexKeeps, RemovalRestoresHost,
         Codex!RemovalRestoresHost
<1> QED BY <1>1, HostInvariance, PTL

(* A migration never overwrites an edit made before its last comparison,   *)
(* whatever fails afterwards: codex_model_migration.py:153-157, 172-174.   *)
THEOREM AMigrationKeepsEdits == HostSpec => []MigrationKeepsEdits
<1>1. HostInv => MigrationKeepsEdits
  BY DEF HostInv, CodexInvariant, CodexMigrates, MigrationKeepsEdits, Codex!MigrationKeepsEdits
<1> QED BY <1>1, HostInvariance, PTL

(* A spawn that is permitted is of one runtime and of the writer that is   *)
(* bound while it is: resolve-writer-binding.py:355-430.                   *)
THEOREM SpawnsAreOfTheBoundWriter == HostSpec => []SpawnIsOfTheBoundWriter
<1>1. HostInv => SpawnIsOfTheBoundWriter
  BY DEF HostInv, WriterInv, WriterResolved, WriterPermitted, SpawnIsOfTheBoundWriter,
         Writer!SpawnIsOfTheBoundWriter
<1> QED BY <1>1, HostInvariance, PTL

(* Neither what the user saved nor what another planner published is lost to *)
(* an edit in the workbench: edit.rs:12-140, main.rs:189-220.              *)
THEOREM NoEditIsLost == HostSpec => []EditsAreNotLost
<1>1. HostInv => EditsAreNotLost
  BY DEF HostInv, EditInv, EditsAreNotLost
<1> QED BY <1>1, HostInvariance, PTL
===============================================================================
