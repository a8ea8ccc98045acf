---------------------------- MODULE TerminalProofs ----------------------------
(***************************************************************************)
(* For any store, and any number of edits, mishaps, refreshes and bodies:  *)
(* what is shown stale is warned of in every view it is seen in, unless it *)
(* changed unobserved under a load, and a refresh of everything clears the *)
(* warnings.  For any projects, files, loads and keys: lists and indices   *)
(* are those of what is shown, what is loaded is shown, and a reload does  *)
(* not take the selection from one record to another.                      *)
(***************************************************************************)
EXTENDS Workbench, TLAPS, WellFoundedInduction, FiniteSetTheorems

-----------------------------------------------------------------------------
(* The reducer, whatever it is told.                                       *)

\* What a FreshnessReducer is.
Reducer ==
  [generation : Nat, records : SUBSET StaleRecord, healthy : BOOLEAN,
   started : [generation : Nat, target : Scope, observed : Nat], floors : [Scope -> Nat]]

\* The records were made one after the other, and one replaces the other of its kind.
WellFormed(r) ==
  /\ r \in Reducer
  /\ \A old \in r.records : 0 < old.gen /\ old.gen <= r.generation
  /\ \A a, b \in r.records : (a.impact = b.impact /\ a.degraded = b.degraded) => a = b

\* That nothing is observed is on record.
Doubted(r) == \E old \in r.records : old.impact = Whole /\ old.degraded /\ ~ old.cleared

\* The records are in order, and while nothing is observed that is among them.
Sound(r) == WellFormed(r) /\ (r.healthy \/ Doubted(r))

\* A record that warns of a file in every view it is seen in.
Guards(old, f) == old.impact \in {Whole, ScopeOf[f]} /\ ~ old.cleared

\* There is one, of a change after generation b.
Kept(r, f, b) == \E old \in r.records : Guards(old, f) /\ old.gen > b

\* What was guarded still is.
Later(r, s) ==
  /\ s.generation >= r.generation
  /\ s.started = r.started
  /\ \A f \in File, b \in Nat : b <= r.generation /\ Kept(r, f, b) => Kept(s, f, b)

\* A later reducer than a later one is a later one.
LEMMA LaterStill ==
  ASSUME NEW r \in Reducer, NEW s \in Reducer, NEW t \in Reducer, Later(r, s), Later(s, t)
  PROVE  Later(r, t)
<1>1. r.generation \in Nat /\ s.generation \in Nat /\ t.generation \in Nat
  BY DEF Reducer
<1>2. t.generation >= r.generation /\ t.started = r.started
  BY <1>1 DEF Later
<1>3. ASSUME NEW f \in File, NEW b \in Nat, b <= r.generation, Kept(r, f, b)
      PROVE  Kept(t, f, b)
  <2>1. b <= s.generation
    BY <1>1, <1>3 DEF Later
  <2> QED BY <2>1, <1>3 DEF Later
<1> QED BY <1>2, <1>3 DEF Later

\* Marking a scope as changed puts it on record, and takes nothing off it.
LEMMA MarkMeans ==
  ASSUME NEW r, WellFormed(r), NEW impact \in Scope, NEW degraded \in BOOLEAN,
         NEW s, s = Mark(r, impact, degraded)
  PROVE  /\ WellFormed(s) /\ Later(r, s)
         /\ s.healthy = r.healthy
         /\ Doubted(r) \/ (degraded /\ impact = Whole) => Doubted(s)
         /\ \A f \in File, b \in Nat :
              impact \in {Whole, ScopeOf[f]} /\ b <= r.generation => Kept(s, f, b)
<1> DEFINE new == [gen |-> r.generation + 1, impact |-> impact, degraded |-> degraded,
                   cleared |-> FALSE]
<1>1. /\ r.generation \in Nat /\ r.records \subseteq StaleRecord /\ r.floors \in [Scope -> Nat]
      /\ r.healthy \in BOOLEAN
      /\ r.started \in [generation : Nat, target : Scope, observed : Nat]
  BY DEF WellFormed, Reducer
<1>2. /\ s.generation = r.generation + 1 /\ s.records = RenewedIn(r.records, new)
      /\ s.healthy = r.healthy /\ s.started = r.started
      /\ s.floors = [r.floors EXCEPT ![impact] = r.generation + 1]
      /\ s = [generation |-> s.generation, records |-> s.records, healthy |-> s.healthy,
              started |-> s.started, floors |-> s.floors]
  BY <1>1 DEF Mark, WellFormed, Reducer
<1>3. new \in StaleRecord
  BY <1>1 DEF StaleRecord
<1>4. s.records \subseteq StaleRecord
  BY <1>1, <1>2, <1>3 DEF RenewedIn
<1>5. s \in Reducer
  <2>1. s.floors \in [Scope -> Nat] /\ s.generation \in Nat
    BY <1>1, <1>2
  <2> QED BY <2>1, <1>1, <1>2, <1>4 DEF Reducer
<1>6. \A old \in r.records : old.gen \in Nat
  BY <1>1 DEF StaleRecord
<1>7. \A old \in s.records : 0 < old.gen /\ old.gen <= s.generation
  <2>1. \A old \in r.records : 0 < old.gen /\ old.gen <= r.generation + 1
    BY <1>1, <1>6 DEF WellFormed
  <2> QED BY <2>1, <1>1, <1>2 DEF RenewedIn
<1>8. \A a, b \in s.records : (a.impact = b.impact /\ a.degraded = b.degraded) => a = b
  BY <1>2 DEF WellFormed, RenewedIn
<1>9. new \in s.records /\ new.impact = impact /\ new.degraded = degraded /\ ~ new.cleared
      /\ new.gen = r.generation + 1
  BY <1>2 DEF RenewedIn
<1>10. ASSUME NEW f \in File, NEW b \in Nat, b <= r.generation, impact \in {Whole, ScopeOf[f]}
       PROVE  Kept(s, f, b)
  BY <1>1, <1>9, <1>10 DEF Kept, Guards
<1>11. \A old \in r.records :
         old \in s.records \/ (old.impact = impact /\ old.degraded = degraded)
  BY <1>2 DEF RenewedIn
<1>12. ASSUME NEW f \in File, NEW b \in Nat, b <= r.generation, Kept(r, f, b)
       PROVE  Kept(s, f, b)
  <2>1. PICK old \in r.records : Guards(old, f) /\ old.gen > b
    BY <1>12 DEF Kept
  <2>2. CASE old \in s.records
    BY <2>1, <2>2 DEF Kept
  <2>3. CASE old.impact = impact
    BY <2>1, <2>3, <1>10, <1>12 DEF Guards
  <2> QED BY <2>2, <2>3, <1>11
<1>13. Doubted(r) => Doubted(s)
  BY <1>9, <1>11 DEF Doubted
<1>14. degraded /\ impact = Whole => Doubted(s)
  BY <1>9 DEF Doubted
<1>15. Later(r, s)
  BY <1>1, <1>2, <1>12 DEF Later
<1>16. WellFormed(s)
  BY <1>5, <1>7, <1>8 DEF WellFormed
<1> QED BY <1>2, <1>10, <1>13, <1>14, <1>15, <1>16

\* While nothing is observed, every file is guarded.
LEMMA DoubtGuards ==
  ASSUME NEW r, Sound(r), ~ r.healthy, NEW f \in File
  PROVE  Kept(r, f, 0)
<1>1. PICK old \in r.records : old.impact = Whole /\ old.degraded /\ ~ old.cleared
  BY DEF Sound, Doubted
<1>2. old.gen > 0
  BY <1>1 DEF Sound, WellFormed, Reducer, StaleRecord
<1> QED BY <1>1, <1>2 DEF Kept, Guards

\* The health that is reported is the health that is had, and that there is none is put on
\* record.
LEMMA HealthMeans ==
  ASSUME NEW r, Sound(r), NEW healthy \in BOOLEAN, NEW s, s = Health(r, healthy)
  PROVE  Sound(s) /\ Later(r, s) /\ s.healthy = healthy
<1>1. /\ r.generation \in Nat /\ r.records \subseteq StaleRecord /\ r.floors \in [Scope -> Nat]
      /\ r.healthy \in BOOLEAN /\ r \in Reducer
      /\ r.started \in [generation : Nat, target : Scope, observed : Nat]
  BY DEF Sound, WellFormed, Reducer
<1>2. CASE r.healthy = healthy
  BY <1>1, <1>2 DEF Health, Later
<1>3. CASE r.healthy # healthy /\ healthy
  <2>1. s = [r EXCEPT !.healthy = TRUE, !.generation = @ + 1]
    BY <1>3 DEF Health
  <2>2. /\ s.generation = r.generation + 1 /\ s.records = r.records /\ s.healthy = TRUE
        /\ s.started = r.started /\ s.floors = r.floors
        /\ s = [generation |-> s.generation, records |-> s.records, healthy |-> s.healthy,
                started |-> s.started, floors |-> s.floors]
    BY <2>1, <1>1 DEF Reducer
  <2>3. s \in Reducer
    <3>1. s.generation \in Nat /\ s.records \in SUBSET StaleRecord /\ s.floors \in [Scope -> Nat]
      BY <2>2, <1>1
    <3>2. s.started \in [generation : Nat, target : Scope, observed : Nat]
      BY <2>2, <1>1
    <3>3. s.healthy \in BOOLEAN
      BY <2>2, Zenon
    <3> QED BY <3>1, <3>2, <3>3, <2>2 DEF Reducer
  <2>4. \A old \in r.records : old.gen \in Nat
    BY <1>1 DEF StaleRecord
  <2>5. \A old \in r.records : 0 < old.gen /\ old.gen <= r.generation + 1
    BY <2>4, <1>1 DEF Sound, WellFormed
  <2>6. WellFormed(s)
    BY <2>2, <2>3, <2>5 DEF Sound, WellFormed
  <2>7. Later(r, s)
    BY <2>2, <1>1 DEF Later, Kept
  <2> QED BY <2>2, <2>6, <2>7, <1>3 DEF Sound
<1>4. CASE r.healthy # healthy /\ ~ healthy
  <2> DEFINE blinded == [r EXCEPT !.healthy = FALSE]
  <2>1. s = Mark(blinded, Whole, TRUE)
    BY <1>1, <1>4 DEF Health
  <2>2. /\ blinded.generation = r.generation /\ blinded.records = r.records
        /\ blinded.healthy = FALSE /\ blinded.started = r.started /\ blinded \in Reducer
    BY <1>1 DEF Reducer
  <2>3. WellFormed(blinded) /\ Whole \in Scope
    BY <2>2 DEF Sound, WellFormed, Scope
  <2> HIDE DEF blinded
  <2>4. WellFormed(s) /\ Later(blinded, s) /\ s.healthy = blinded.healthy /\ Doubted(s)
    BY <2>1, <2>3, MarkMeans
  <2>5. Later(r, s)
    BY <2>2, <2>4 DEF Later, Kept
  <2> QED BY <2>2, <2>4, <2>5, <1>4 DEF Sound
<1> QED BY <1>1, <1>2, <1>3, <1>4

\* What an observation tells of a file.
Names(o, f) == o.what \in {"overflow", "root"} \/ o = [what |-> "event", file |-> f]

\* An observation is marked for the scopes it may concern.
LEMMA ObservationMeans ==
  ASSUME NEW r, Sound(r), known \in BOOLEAN, NEW o \in Observation,
         NEW s, s = ByObservation(r, o)
  PROVE  /\ Sound(s) /\ Later(r, s)
         /\ \A f \in File, b \in Nat : Names(o, f) /\ b <= r.generation => Kept(s, f, b)
         /\ o.what = "off" => ~ s.healthy
<1>1. /\ o.what \in {"event", "overflow", "root", "off", "on"}
      /\ o.what = "event" => o.file \in File
      /\ r.generation \in Nat /\ r \in Reducer
  BY DEF Observation, Sound, WellFormed, Reducer
<1>2. ASSUME NEW impact \in Scope, NEW degraded \in BOOLEAN, s = Mark(r, impact, degraded),
             degraded => impact = Whole
      PROVE  /\ Sound(s) /\ Later(r, s)
             /\ \A f \in File, b \in Nat :
                  impact \in {Whole, ScopeOf[f]} /\ b <= r.generation => Kept(s, f, b)
  BY <1>2, MarkMeans DEF Sound
<1>3. CASE o.what = "event"
  <2>1. s = Mark(r, Classified(o.file, known), FALSE)
    BY <1>3 DEF ByObservation
  <2>2. Classified(o.file, known) \in Scope
        /\ Classified(o.file, known) \in {Whole, ScopeOf[o.file]}
    BY <1>1, <1>3, FreshnessAssumption DEF Classified, Scope
  <2>3. \A f \in File : Names(o, f) => o.file = f
    BY <1>3 DEF Names
  <2> QED BY <1>2, <1>3, <2>1, <2>2, <2>3
<1>4. CASE o.what = "overflow"
  <2>1. s = Mark(r, Whole, TRUE) /\ Whole \in Scope
    BY <1>4 DEF ByObservation, Scope
  <2> QED BY <1>2, <1>4, <2>1
<1>5. CASE o.what = "root"
  <2> DEFINE lost == Health(r, FALSE)
  <2>1. s = Mark(lost, Whole, FALSE) /\ Whole \in Scope
    BY <1>5 DEF ByObservation, Scope
  <2>2. Sound(lost) /\ Later(r, lost) /\ lost \in Reducer
    BY HealthMeans DEF Sound, WellFormed
  <2> HIDE DEF lost
  <2>3. /\ Sound(s) /\ Later(lost, s)
        /\ \A f \in File, b \in Nat : b <= lost.generation => Kept(s, f, b)
    BY <2>1, <2>2, MarkMeans DEF Sound
  <2>4. s \in Reducer
    BY <2>3 DEF Sound, WellFormed
  <2>5. Later(r, s)
    BY <1>1, <2>2, <2>3, <2>4, LaterStill
  <2>6. \A f \in File, b \in Nat : b <= r.generation => Kept(s, f, b)
    <3>1. lost.generation \in Nat /\ lost.generation >= r.generation
      BY <2>2 DEF Later, Reducer
    <3> QED BY <1>1, <2>3, <3>1
  <2> QED BY <1>5, <2>3, <2>5, <2>6
<1>6. CASE o.what \in {"off", "on"}
  <2>1. s = Health(r, o.what = "on")
    BY <1>6 DEF ByObservation
  <2>2. \A f \in File : ~ Names(o, f)
    BY <1>6 DEF Names
  <2> QED BY <1>6, <2>1, <2>2, HealthMeans
<1> QED BY <1>1, <1>3, <1>4, <1>5, <1>6

-----------------------------------------------------------------------------
(* What the reducer is told, one after the other.                          *)

\* The reducer has passed through a state before and after each observation.
LEMMA ObservationsUnfold ==
  ASSUME NEW r, NEW told \in Seq(Observation)
  PROVE  \E after :
           /\ after[0] = r
           /\ \A i \in 1..Len(told) : after[i] = ByObservation(after[i - 1], told[i])
           /\ ByObservations(r, told) = after[Len(told)]
<1> DEFINE Follows(g, n) ==
      g = [i \in 0..n |-> IF i = 0 THEN r ELSE ByObservation(g[i - 1], told[i])]
    Bad == { n \in Nat : ~ \E g : Follows(g, n) }
<1>1. Len(told) \in Nat
  OBVIOUS
<1>2. Bad = {}
  <2> SUFFICES ASSUME Bad # {} PROVE FALSE
    OBVIOUS
  <2>1. PICK n \in Bad : \A m \in Bad : ~ (<<m, n>> \in OpToRel(<, Nat))
    BY NatLessThanWellFounded, WFMin, Zenon
  <2>2. n \in Nat /\ \A m \in Nat : m < n => \E g : Follows(g, m)
    BY <2>1 DEF OpToRel
  <2>3. n # 0
    <3>1. Follows([i \in 0..0 |-> r], 0)
      OBVIOUS
    <3> QED BY <2>1, <3>1
  <2>4. PICK g : Follows(g, n - 1)
    <3>1. n - 1 \in Nat /\ n - 1 < n
      BY <2>2, <2>3
    <3> QED BY <2>2, <3>1
  <2> DEFINE h == [i \in 0..n |-> IF i = n THEN ByObservation(g[n - 1], told[n]) ELSE g[i]]
  <2>5. \A i \in 0..n : h[i] = IF i = 0 THEN r ELSE ByObservation(h[i - 1], told[i])
    <3> TAKE i \in 0..n
    <3>1. CASE i = 0
      BY <2>2, <2>3, <2>4, <3>1
    <3>2. CASE i # 0 /\ i # n
      <4>1. i \in 0..(n - 1) /\ i - 1 \in 0..n /\ i - 1 # n
        BY <2>2, <3>2
      <4>2. h[i] = g[i] /\ h[i - 1] = g[i - 1]
        BY <4>1, <3>2
      <4>3. g[i] = ByObservation(g[i - 1], told[i])
        BY <2>4, <3>2, <4>1
      <4> QED BY <3>2, <4>2, <4>3
    <3>3. CASE i = n
      <4>1. n - 1 \in 0..n /\ n - 1 # n /\ n \in 0..n
        BY <2>2, <2>3
      <4>2. h[n] = ByObservation(g[n - 1], told[n]) /\ h[n - 1] = g[n - 1]
        BY <4>1
      <4> QED BY <2>3, <3>3, <4>2
    <3> QED BY <3>1, <3>2, <3>3
  <2>6. h = [i \in 0..n |-> h[i]]
    OBVIOUS
  <2> HIDE DEF h
  <2>7. Follows(h, n)
    BY <2>5, <2>6
  <2> QED BY <2>1, <2>7
<1>3. \E g : Follows(g, Len(told))
  BY <1>1, <1>2
<1> DEFINE after == CHOOSE g : Follows(g, Len(told))
<1>4. Follows(after, Len(told))
  BY <1>3
<1>5. ByObservations(r, told) = after[Len(told)]
  BY DEF ByObservations
<1> HIDE DEF after
<1>6. /\ after[0] = r
      /\ \A i \in 1..Len(told) : after[i] = ByObservation(after[i - 1], told[i])
  BY <1>1, <1>4
<1> QED BY <1>5, <1>6

\* What the reducer has heard of it warns of, and it warns of no less than before; it is as
\* healthy as it heard last.
LEMMA ObservationsMean ==
  ASSUME NEW r, Sound(r), known \in BOOLEAN, NEW told \in Seq(Observation),
         NEW s, s = ByObservations(r, told)
  PROVE  /\ Sound(s) /\ Later(r, s)
         /\ \A i \in 1..Len(told), f \in File, b \in Nat :
              Names(told[i], f) /\ b <= r.generation => Kept(s, f, b)
         /\ \A i \in 1..Len(told), f \in File : told[i].what = "off" => Kept(s, f, 0)
         /\ told # <<>> /\ told[Len(told)].what = "off" => ~ s.healthy
         /\ told = <<>> => s = r
<1>1. PICK after :
        /\ after[0] = r
        /\ \A i \in 1..Len(told) : after[i] = ByObservation(after[i - 1], told[i])
        /\ s = after[Len(told)]
  BY ObservationsUnfold
<1> DEFINE Passed(i) ==
      /\ Sound(after[i]) /\ Later(r, after[i])
      /\ \A j \in 1..i, f \in File, b \in Nat :
           Names(told[j], f) /\ b <= r.generation => Kept(after[i], f, b)
      /\ \A j \in 1..i, f \in File : told[j].what = "off" => Kept(after[i], f, 0)
      /\ i # 0 /\ told[i].what = "off" => ~ after[i].healthy
    Bad == { i \in Nat : i <= Len(told) /\ ~ Passed(i) }
<1>2. Len(told) \in Nat /\ r.generation \in Nat /\ r \in Reducer
      /\ \A i \in 1..Len(told) : told[i] \in Observation
  BY DEF Sound, WellFormed, Reducer
<1>3. Passed(0)
  <2>1. Later(r, r)
    BY <1>2 DEF Later
  <2> QED BY <1>1, <2>1
<1>4. ASSUME NEW i \in Nat, i # 0, i <= Len(told), Passed(i - 1)
      PROVE  Passed(i)
  <2> DEFINE before == after[i - 1]
             now == after[i]
  <2>1. i \in 1..Len(told) /\ i - 1 \in Nat /\ told[i] \in Observation
    BY <1>2, <1>4
  <2>2. now = ByObservation(before, told[i])
    BY <1>1, <2>1
  <2>3. Sound(before) /\ Later(r, before) /\ before \in Reducer
    BY <1>4 DEF Sound, WellFormed
  <2>4. /\ before.generation \in Nat /\ before.generation >= r.generation
        /\ \A j \in 1..(i - 1), f \in File, b \in Nat :
             Names(told[j], f) /\ b <= r.generation => Kept(before, f, b)
        /\ \A j \in 1..(i - 1), f \in File : told[j].what = "off" => Kept(before, f, 0)
    BY <1>4, <2>3 DEF Reducer, Later
  <2> HIDE DEF before, now
  <2>5. /\ Sound(now) /\ Later(before, now)
        /\ \A f \in File, b \in Nat :
             Names(told[i], f) /\ b <= before.generation => Kept(now, f, b)
        /\ told[i].what = "off" => ~ now.healthy
    BY <2>1, <2>2, <2>3, ObservationMeans
  <2>6. Later(r, now)
    <3>1. now \in Reducer
      BY <2>5 DEF Sound, WellFormed
    <3> QED BY <1>2, <2>3, <2>5, <3>1, LaterStill
  <2>7. ASSUME NEW j \in 1..i, NEW f \in File, NEW b \in Nat, Names(told[j], f), b <= r.generation
        PROVE  Kept(now, f, b)
    <3>1. b <= before.generation
      BY <1>2, <2>4, <2>7
    <3>2. CASE j = i
      BY <2>5, <2>7, <3>1, <3>2
    <3>3. CASE j # i
      <4>1. j \in 1..(i - 1)
        BY <3>3, <2>1
      <4>2. Kept(before, f, b)
        BY <2>4, <2>7, <4>1
      <4> QED BY <2>5, <3>1, <4>2 DEF Later
    <3> QED BY <3>2, <3>3
  <2>8. ASSUME NEW j \in 1..i, NEW f \in File, told[j].what = "off"
        PROVE  Kept(now, f, 0)
    <3>1. CASE j = i
      BY <2>5, <2>8, <3>1, DoubtGuards
    <3>2. CASE j # i
      <4>1. j \in 1..(i - 1) /\ 0 \in Nat /\ 0 <= before.generation
        BY <3>2, <2>1, <2>4
      <4>2. Kept(before, f, 0)
        BY <2>4, <2>8, <4>1
      <4> QED BY <2>5, <4>1, <4>2 DEF Later
    <3> QED BY <3>1, <3>2
  <2> QED BY <2>5, <2>6, <2>7, <2>8 DEF now
<1> HIDE DEF Passed
<1>5. Bad = {}
  <2> SUFFICES ASSUME Bad # {} PROVE FALSE
    OBVIOUS
  <2>1. PICK i \in Bad : \A j \in Bad : ~ (<<j, i>> \in OpToRel(<, Nat))
    BY NatLessThanWellFounded, WFMin, Zenon
  <2>2. i \in Nat /\ i <= Len(told) /\ ~ Passed(i) /\ i # 0
    BY <2>1, <1>3
  <2>3. i - 1 \in Nat /\ i - 1 < i /\ i - 1 <= Len(told)
    BY <2>2, <1>2
  <2>4. i - 1 \notin Bad
    BY <2>1, <2>2, <2>3 DEF OpToRel
  <2>5. Passed(i - 1)
    BY <2>3, <2>4
  <2> QED BY <1>4, <2>2, <2>5
<1>6. Passed(Len(told))
  BY <1>2, <1>5
<1>7. told = <<>> => s = r
  BY <1>1
<1>8. told # <<>> => Len(told) # 0
  OBVIOUS
<1> QED BY <1>1, <1>6, <1>7, <1>8 DEF Passed

-----------------------------------------------------------------------------
(* What the reducer makes of a report.                                     *)

\* Whole is no part of a project.
LEMMA WholeIsOutside ==
  ASSUME NEW p \in Project
  PROVE  Whole \notin InProject(p)
BY FreshnessAssumption DEF InProject

\* What a refresh settles it read, or it was on record before the refresh began.
LEMMA RemainingMeans ==
  ASSUME NEW r, Sound(r), NEW target \in Scope, NEW began \in Nat,
         NEW s, s = [r EXCEPT !.records = Remaining(r, target, began)]
  PROVE  /\ Sound(s) /\ s.generation = r.generation /\ s.healthy = r.healthy
         /\ s.started = r.started
         /\ \A f \in File, b \in Nat :
              Kept(r, f, b) /\ (began <= b \/ f \notin FilesOf(target)) => Kept(s, f, b)
<1>1. /\ r.generation \in Nat /\ r.records \subseteq StaleRecord /\ r.floors \in [Scope -> Nat]
      /\ r.healthy \in BOOLEAN /\ r \in Reducer
      /\ r.started \in [generation : Nat, target : Scope, observed : Nat]
  BY DEF Sound, WellFormed, Reducer
<1>2. /\ s.generation = r.generation /\ s.records = Remaining(r, target, began)
      /\ s.healthy = r.healthy /\ s.started = r.started /\ s.floors = r.floors
      /\ s = [generation |-> s.generation, records |-> s.records, healthy |-> s.healthy,
              started |-> s.started, floors |-> s.floors]
  BY <1>1 DEF Reducer
<1>3. \A old \in r.records :
        /\ old.gen \in Nat /\ old.impact \in Scope /\ old.degraded \in BOOLEAN
        /\ old.cleared \in BOOLEAN /\ 0 < old.gen /\ old.gen <= r.generation
  BY <1>1 DEF StaleRecord, Sound, WellFormed
<1>4. ASSUME NEW new \in s.records
      PROVE  /\ new \in StaleRecord
             /\ \E old \in r.records : /\ old.gen = new.gen /\ old.impact = new.impact
                                       /\ old.degraded = new.degraded
                                       /\ \/ new = old
                                          \/ /\ new = [old EXCEPT !.cleared = TRUE]
                                             /\ old.gen <= began /\ old.impact = target
                                             /\ target # Whole /\ target \notin Project
  <2>1. CASE target = Whole \/ target \in Project
    BY <1>1, <1>2, <1>4, <2>1 DEF Remaining
  <2>2. CASE target # Whole /\ target \notin Project
    <3>1. PICK old \in r.records :
            new = IF old.gen <= began /\ old.impact = target THEN [old EXCEPT !.cleared = TRUE]
                  ELSE old
      BY <1>2, <1>4, <2>2 DEF Remaining
    <3>2. CASE old.gen <= began /\ old.impact = target
      <4>1. new = [old EXCEPT !.cleared = TRUE] /\ old \in StaleRecord
        BY <1>1, <3>1, <3>2
      <4>2. /\ new \in StaleRecord /\ old.gen = new.gen /\ old.impact = new.impact
            /\ old.degraded = new.degraded
        BY <4>1 DEF StaleRecord
      <4> QED BY <2>2, <3>2, <4>1, <4>2
    <3>3. CASE ~ (old.gen <= began /\ old.impact = target)
      BY <1>1, <3>1, <3>3
    <3> QED BY <3>2, <3>3
  <2> QED BY <2>1, <2>2
<1>5. \A a, b \in s.records : (a.impact = b.impact /\ a.degraded = b.degraded) => a = b
  <2> SUFFICES ASSUME NEW a \in s.records, NEW b \in s.records,
                      a.impact = b.impact, a.degraded = b.degraded
               PROVE  a = b
    OBVIOUS
  <2>1. CASE target = Whole \/ target \in Project
    BY <1>2, <2>1 DEF Remaining, Sound, WellFormed
  <2>2. CASE target # Whole /\ target \notin Project
    <3> DEFINE Silenced(old) ==
          IF old.gen <= began /\ old.impact = target THEN [old EXCEPT !.cleared = TRUE] ELSE old
    <3>1. PICK c \in r.records : a = Silenced(c)
      BY <1>2, <2>2 DEF Remaining
    <3>2. PICK d \in r.records : b = Silenced(d)
      BY <1>2, <2>2 DEF Remaining
    <3>3. \A old \in r.records : Silenced(old).impact = old.impact
                                 /\ Silenced(old).degraded = old.degraded
      BY <1>1 DEF StaleRecord
    <3> HIDE DEF Silenced
    <3>4. c.impact = d.impact /\ c.degraded = d.degraded
      BY <3>1, <3>2, <3>3
    <3>5. c = d
      BY <3>4 DEF Sound, WellFormed
    <3> QED BY <3>1, <3>2, <3>5
  <2> QED BY <2>1, <2>2
<1>6. WellFormed(s)
  <2>1. s.records \subseteq StaleRecord
    BY <1>4
  <2>2. s \in Reducer
    BY <1>1, <1>2, <2>1 DEF Reducer
  <2>3. \A old \in s.records : 0 < old.gen /\ old.gen <= s.generation
    BY <1>2, <1>3, <1>4
  <2> QED BY <1>5, <2>2, <2>3 DEF WellFormed
<1>7. ASSUME NEW old \in r.records,
             \/ old.gen > began
             \/ old.impact = Whole /\ target # Whole
             \/ old.impact = Whole /\ old.degraded /\ ~ r.healthy
             \/ \E f \in File : old.impact = ScopeOf[f] /\ f \notin FilesOf(target)
      PROVE  old \in s.records
  <2>1. CASE target = Whole
    BY <1>1, <1>2, <1>3, <1>7, <2>1 DEF Remaining, Settles, FilesOf
  <2>2. CASE target # Whole /\ target \in Project
    BY <1>2, <1>3, <1>7, <2>2, WholeIsOutside DEF Remaining, FilesOf
  <2>3. CASE target # Whole /\ target \notin Project
    <3>1. ~ (old.gen <= began /\ old.impact = target)
      BY <1>3, <1>7, <2>3 DEF FilesOf
    <3> QED BY <1>2, <2>3, <3>1 DEF Remaining
  <2> QED BY <2>1, <2>2, <2>3
<1>8. ASSUME NEW f \in File, NEW b \in Nat, Kept(r, f, b), began <= b \/ f \notin FilesOf(target)
      PROVE  Kept(s, f, b)
  <2>1. PICK old \in r.records : Guards(old, f) /\ old.gen > b
    BY <1>8 DEF Kept
  <2>2. CASE began <= b
    BY <1>3, <1>7, <2>1, <2>2 DEF Kept
  <2>3. CASE f \notin FilesOf(target)
    <3>1. target # Whole
      BY <2>3 DEF FilesOf
    <3> QED BY <1>7, <2>1, <2>3, <3>1 DEF Kept, Guards
  <2> QED BY <1>8, <2>2, <2>3
<1>9. s.healthy \/ Doubted(s)
  <2> SUFFICES ASSUME ~ r.healthy PROVE Doubted(s)
    BY <1>2
  <2>1. PICK old \in r.records : old.impact = Whole /\ old.degraded /\ ~ old.cleared
    BY DEF Sound, Doubted
  <2> QED BY <1>7, <2>1 DEF Doubted
<1> QED BY <1>2, <1>6, <1>8, <1>9 DEF Sound

\* A report says what began, and what ended.
LEMMA ReportType ==
  ASSUME NEW report \in Report
  PROVE  /\ report.what \in {"started", "failed", "succeeded"} /\ report.generation \in Nat
         /\ report.what # "failed" => report.target \in Scope /\ report.began \in Nat
         /\ report.what = "succeeded" => report.ended \in Nat
BY DEF Report

\* A report changes nothing but what is on record, and what counts as begun.
LEMMA ReportMeans ==
  ASSUME NEW r, Sound(r), NEW report \in Report, NEW s, s = ByReport(r, report)
  PROVE  /\ Sound(s) /\ s.generation = r.generation /\ s.healthy = r.healthy
         /\ report.what = "started" =>
              s.started = [generation |-> report.generation, target |-> report.target,
                           observed |-> report.began]
         /\ \A f \in File, b \in Nat :
              /\ Kept(r, f, b)
              /\ report.what = "succeeded" => report.began <= b \/ f \notin FilesOf(report.target)
              => Kept(s, f, b)
<1>1. /\ r.generation \in Nat /\ r.records \subseteq StaleRecord /\ r.floors \in [Scope -> Nat]
      /\ r.healthy \in BOOLEAN /\ r \in Reducer
      /\ r.started \in [generation : Nat, target : Scope, observed : Nat]
  BY DEF Sound, WellFormed, Reducer
<1>2. ASSUME NEW started \in [generation : Nat, target : Scope, observed : Nat],
             NEW t, t = [r EXCEPT !.started = started]
      PROVE  /\ Sound(t) /\ t.generation = r.generation /\ t.healthy = r.healthy
             /\ t.started = started /\ t.records = r.records
  <2>1. /\ t.generation = r.generation /\ t.records = r.records
        /\ t.healthy = r.healthy /\ t.started = started /\ t.floors = r.floors
        /\ t = [generation |-> t.generation, records |-> t.records, healthy |-> t.healthy,
                started |-> t.started, floors |-> t.floors]
    BY <1>1, <1>2 DEF Reducer
  <2>2. t \in Reducer
    BY <1>1, <1>2, <2>1 DEF Reducer
  <2> QED BY <2>1, <2>2 DEF Sound, WellFormed, Doubted
<1>3. NoRefresh \in [generation : Nat, target : Scope, observed : Nat]
  BY DEF NoRefresh, Scope
<1>4. ASSUME NEW t, t = Failed(r, report.generation)
      PROVE  Sound(t) /\ t.generation = r.generation /\ t.healthy = r.healthy
             /\ t.records = r.records
  BY <1>2, <1>3, <1>4 DEF Failed
<1>5. CASE report.what = "started"
  <2> DEFINE began == [generation |-> report.generation, target |-> report.target,
                       observed |-> report.began]
  <2>1. s = [r EXCEPT !.started = began]
    BY <1>5 DEF ByReport, Started
  <2>2. began \in [generation : Nat, target : Scope, observed : Nat]
    BY <1>5, ReportType
  <2> QED BY <1>2, <1>5, <2>1, <2>2, ZenonT(40) DEF Kept
<1>6. CASE report.what = "failed"
  <2>1. s = Failed(r, report.generation)
    BY <1>6 DEF ByReport
  <2> QED BY <1>4, <1>6, <2>1 DEF Kept
<1>7. CASE report.what = "succeeded"
  <2> DEFINE done == Failed(r, report.generation)
  <2>1. Sound(done) /\ done.generation = r.generation /\ done.healthy = r.healthy
        /\ done.records = r.records
    BY <1>4
  <2>2. s = Succeeded(r, report.generation, report.target, report.began, report.ended)
    BY <1>7 DEF ByReport
  <2>3. \/ s = done
        \/ s = [done EXCEPT !.records = Remaining(r, report.target, report.began)]
    BY <2>2 DEF Succeeded
  <2>4. Remaining(r, report.target, report.began) = Remaining(done, report.target, report.began)
    BY <2>1 DEF Remaining, Settles
  <2>5. \A f, b : Kept(r, f, b) => Kept(done, f, b)
    BY <2>1 DEF Kept
  <2>6. report.target \in Scope /\ report.began \in Nat
    BY <1>7, ReportType
  <2> HIDE DEF done
  <2>7. CASE s = done
    BY <1>7, <2>1, <2>5, <2>7
  <2>8. CASE s = [done EXCEPT !.records = Remaining(done, report.target, report.began)]
    <3>1. /\ Sound(s) /\ s.generation = done.generation /\ s.healthy = done.healthy
          /\ \A f \in File, b \in Nat :
               Kept(done, f, b) /\ (report.began <= b \/ f \notin FilesOf(report.target))
                 => Kept(s, f, b)
      BY <2>1, <2>6, <2>8, RemainingMeans
    <3> QED BY <1>7, <2>1, <2>5, <3>1
  <2> QED BY <2>3, <2>4, <2>7, <2>8
<1> QED BY <1>5, <1>6, <1>7, ReportType

\* There are never more than two reports at a time, and they are heard one after the other.
LEMMA ReportsUnfold ==
  ASSUME NEW r, NEW told \in Seq(Report), Len(told) <= 2
  PROVE  /\ told = <<>> => ByReports(r, told) = r
         /\ Len(told) = 1 => ByReports(r, told) = ByReport(r, told[1])
         /\ Len(told) = 2 => ByReports(r, told) = ByReport(ByReport(r, told[1]), told[2])
<1> DEFINE Follows(g) ==
      g = [i \in 0..Len(told) |-> IF i = 0 THEN r ELSE ByReport(g[i - 1], told[i])]
    heard == [i \in 0..Len(told) |->
                IF i = 0 THEN r
                ELSE IF i = 1 THEN ByReport(r, told[1])
                ELSE ByReport(ByReport(r, told[1]), told[2])]
<1>1. Len(told) \in {0, 1, 2}
  <2>1. Len(told) \in Nat
    OBVIOUS
  <2>2. \A n \in Nat : n <= 2 => n \in {0, 1, 2}
    OBVIOUS
  <2> QED BY <2>1, <2>2
<1>2. \A i \in 0..Len(told) :
        heard[i] = IF i = 0 THEN r ELSE ByReport(heard[i - 1], told[i])
  <2> TAKE i \in 0..Len(told)
  <2>1. i = 0 \/ i = 1 \/ i = 2
    BY <1>1
  <2>2. 0 \in 0..Len(told) /\ (i = 2 => 1 \in 0..Len(told))
    BY <1>1
  <2>3. CASE i = 0
    BY <2>2, <2>3
  <2>4. CASE i = 1
    <3>1. heard[i] = ByReport(r, told[1]) /\ heard[0] = r
      BY <2>2, <2>4
    <3> QED BY <2>4, <3>1
  <2>5. CASE i = 2
    <3>1. heard[2] = ByReport(ByReport(r, told[1]), told[2])
      BY <2>5
    <3>2. heard[1] = ByReport(r, told[1])
      BY <2>2, <2>5
    <3>3. heard[2] = ByReport(heard[2 - 1], told[2])
      BY <3>1, <3>2
    <3> QED BY <2>5, <3>3
  <2> QED BY <2>1, <2>3, <2>4, <2>5
<1>3. heard = [i \in 0..Len(told) |-> heard[i]]
  OBVIOUS
<1> HIDE DEF heard
<1>4. Follows(heard)
  BY <1>2, <1>3
<1> DEFINE after == CHOOSE g : Follows(g)
<1>5. Follows(after)
  BY <1>4
<1>6. ByReports(r, told) = after[Len(told)]
  BY DEF ByReports
<1> HIDE DEF after
<1>7. \A i \in 0..Len(told) : after[i] = IF i = 0 THEN r ELSE ByReport(after[i - 1], told[i])
  BY <1>5
<1>8. CASE Len(told) = 0
  BY <1>6, <1>7, <1>8
<1>9. CASE Len(told) = 1
  <2>1. after[0] = r /\ after[1] = ByReport(after[0], told[1])
    BY <1>7, <1>9
  <2> QED BY <1>6, <1>9, <2>1
<1>10. CASE Len(told) = 2
  <2>1. after[0] = r
    BY <1>7, <1>10
  <2>2. after[1] = ByReport(after[0], told[1])
    BY <1>7, <1>10
  <2>3. after[2] = ByReport(after[1], told[2])
    BY <1>7, <1>10
  <2> QED BY <1>6, <1>10, <2>1, <2>2, <2>3
<1> QED BY <1>1, <1>8, <1>9, <1>10

-----------------------------------------------------------------------------
(* The inductive invariant.                                                *)

\* What the variables hold.
Typed ==
  /\ disk \in [File -> Nat] /\ watch \in {"on", "lost", "off"}
  /\ channel \in Seq(Observation) /\ reports \in Seq(Report)
  /\ phase \in {"watch", "coordinate", "key"}
  /\ known \in BOOLEAN /\ observed \in Nat /\ loads \in Nat
  /\ load = None \/ \E target \in Scope : load \in Loading(target)
  /\ content = None \/ content \in Fetching
  /\ shown = None \/ shown \in [File -> Nat]

\* What was read of a file was once in it.
Versioned ==
  /\ load # None => \A f \in DOMAIN load.read : load.read[f] = None \/ load.read[f] <= disk[f]
  /\ content # None => content.version = None \/ content.version <= disk[content.file]
  /\ shown # None => \A f \in File : shown[f] <= disk[f]

\* The reports of success that were not heard yet.
Pending == { i \in DOMAIN reports : reports[i].what = "succeeded" }

\* What the coordinator knows of the reducer, and when a load began.
Dated ==
  /\ observed <= reducer.generation
  /\ phase # "coordinate" => observed = reducer.generation
  /\ load # None => load.began <= observed
  /\ \A i \in Pending : reports[i].began <= reducer.generation
                        /\ reports[i].ended = reducer.generation
  /\ load # None /\ Pending # {} => content = None /\ load.began = reducer.generation
  /\ content # None => shown # None

\* How a load is reported begun.
StartOf(l) ==
  [what |-> "started", generation |-> l.generation, target |-> l.target, began |-> l.began]

\* The load as the reducer has it.
Of(l) == [generation |-> l.generation, target |-> l.target, observed |-> l.began]

\* The reducer has the load under way as the one begun, or is about to hear of it, and a success
\* it has not heard of is that of the load it knows.
Reported ==
  /\ Len(reports) <= 2
  /\ phase = "coordinate" => reports = <<>>
  /\ phase = "key" => Len(reports) <= 1 /\ (load # None => reports = <<>>)
  /\ Len(reports) = 2 => reports[2].what = "started"
  /\ load # None => IF reports = <<>> THEN reducer.started = Of(load)
                    ELSE reports[Len(reports)] = StartOf(load)
  /\ \A i \in Pending : i = 1 /\ reducer.started = Of(reports[i])

\* That nothing is observed is known, or is the last that was said.
OffIsTold ==
  watch = "off" =>
    IF channel = <<>> THEN ~ reducer.healthy ELSE channel[Len(channel)].what = "off"

\* The file is named by an observation on its way.
Told(f) == \E i \in DOMAIN channel : Names(channel[i], f)

\* What is shown stale is warned of, or will be.
ShownGuarded ==
  shown # None =>
    \A f \in File \ blind : shown[f] # disk[f] => Unheard(f) \/ Kept(reducer, f, 0)

\* What a load has read and has changed since is on record after the load began, or will be.
LoadGuarded ==
  load # None =>
    \A f \in DOMAIN load.read \ blind :
      load.read[f] \notin {None, disk[f]} => Told(f) \/ Kept(reducer, f, load.began)

\* What a load has shown and has changed since is not settled when the reducer hears of the
\* success.
CreditGuarded ==
  shown # None =>
    \A i \in Pending : \A f \in FilesOf(reports[i].target) \ blind :
      shown[f] # disk[f] =>
        Unheard(f) \/ Kept(reducer, f, reports[i].began) \/ ~ reducer.healthy

\* A body that was fetched, is not shown yet, and is no longer what the file says.
BodyStale ==
  content # None /\ content.version \notin {None, disk[content.file]} /\ content.file \notin blind

\* Neither the load under way nor a success the reducer has not heard of settles the change such
\* a body missed.
BodyGuarded ==
  BodyStale =>
    IF load # None THEN Told(content.file) \/ Kept(reducer, content.file, load.began)
    ELSE \/ Unheard(content.file) \/ ~ reducer.healthy
         \/ /\ Kept(reducer, content.file, 0)
            /\ \A i \in Pending : Kept(reducer, content.file, reports[i].began)

\* The inductive invariant.
IInv ==
  /\ Typed /\ Versioned /\ Sound(reducer) /\ Dated /\ Reported /\ OffIsTold
  /\ ShownGuarded /\ LoadGuarded /\ CreditGuarded /\ BodyGuarded

\* The files of a scope are files.
LEMMA FilesOfType ==
  ASSUME NEW target
  PROVE  FilesOf(target) \subseteq File
BY DEF FilesOf

\* What a load is.
LEMMA LoadType ==
  ASSUME Typed, load # None
  PROVE  /\ load.generation \in Nat /\ load.target \in Scope /\ load.began \in Nat
         /\ load.step \in {"catalogue", "read", "failed"}
         /\ load.read \in [FilesOf(load.target) -> Nat \cup {None}]
         /\ FilesOf(load.target) \subseteq File
         /\ load \in Loading(load.target)
BY FilesOfType DEF Typed, Loading

\* What a body is.
LEMMA BodyType ==
  ASSUME Typed, content # None
  PROVE  content.file \in File /\ content.version \in Nat \cup {None}
BY DEF Typed, Fetching

\* What the interface has yet to hear.
LEMMA UnheardMeans ==
  ASSUME NEW f
  PROVE  Unheard(f) <=> \/ watch = "lost" \/ Told(f)
                        \/ \E i \in DOMAIN channel : channel[i].what = "off"
BY DEF Unheard, Told, Names

\* An observation that is sent follows what was sent before.
LEMMA TellMeans ==
  ASSUME channel \in Seq(Observation), NEW o \in Observation, channel' = Append(channel, o)
  PROVE  /\ channel' \in Seq(Observation) /\ channel' # <<>>
         /\ channel'[Len(channel')] = o
         /\ \A f : Told(f) => Told(f)'
         /\ \A f : Names(o, f) => Told(f)'
         /\ o.what = "off" => \E i \in DOMAIN channel' : channel'[i].what = "off"
         /\ (\E i \in DOMAIN channel : channel[i].what = "off") =>
              \E i \in DOMAIN channel' : channel'[i].what = "off"
<1>1. /\ channel' \in Seq(Observation) /\ channel' # <<>>
      /\ Len(channel') = Len(channel) + 1 /\ Len(channel) \in Nat
      /\ \A i \in 1..Len(channel) : channel'[i] = channel[i]
      /\ channel'[Len(channel) + 1] = o
  OBVIOUS
<1>2. /\ DOMAIN channel = 1..Len(channel) /\ DOMAIN channel' = 1..Len(channel')
  BY <1>1
<1>3. /\ Len(channel') \in DOMAIN channel' /\ channel'[Len(channel')] = o
      /\ \A i \in DOMAIN channel : i \in DOMAIN channel' /\ channel'[i] = channel[i]
  BY <1>1, <1>2
<1> QED BY <1>1, <1>3 DEF Told

-----------------------------------------------------------------------------
(* What happens beside the interface.                                      *)

\* A file that changes is told of, or nothing is observed and the interface knows or will.
LEMMA OutsideKeeps ==
  ASSUME IInv, UNCHANGED <<uiVars, load, content>>, Typed', Versioned', OffIsTold',
         blind \subseteq blind',
         \A f \in File : (Told(f) => Told(f)') /\ (Unheard(f) => Unheard(f)'),
         \A f \in File : \/ disk'[f] = disk[f] \/ Told(f)'
                         \/ /\ Unheard(f)' \/ ~ reducer.healthy
                            /\ load # None => f \in blind'
  PROVE  IInv'
<1>1. /\ reducer' = reducer /\ reports' = reports /\ phase' = phase /\ observed' = observed
      /\ load' = load /\ content' = content /\ shown' = shown /\ Pending' = Pending
  BY DEF uiVars, Pending
<1>2. Sound(reducer')
  BY <1>1 DEF IInv
<1>3. Dated'
  BY <1>1 DEF IInv, Dated
<1>4. Reported'
  BY <1>1 DEF IInv, Reported
<1>5. \A f \in File : Told(f)' => Unheard(f)'
  BY DEF Told, Names, Unheard
<1>6. \A f \in File : ~ reducer.healthy => Kept(reducer, f, 0)
  BY DoubtGuards DEF IInv
<1>7. ShownGuarded'
  BY <1>1, <1>5, <1>6 DEF IInv, ShownGuarded
<1>8. LoadGuarded'
  <2> SUFFICES ASSUME load # None, NEW f \in DOMAIN load.read \ blind',
                      load.read[f] \notin {None, disk'[f]}
               PROVE  Told(f)' \/ Kept(reducer, f, load.began)
    BY <1>1 DEF LoadGuarded
  <2>1. f \in File
    BY LoadType DEF IInv
  <2>2. CASE disk'[f] = disk[f]
    BY <2>1, <2>2 DEF IInv, LoadGuarded
  <2> QED BY <2>1, <2>2
<1>9. CreditGuarded'
  <2> SUFFICES ASSUME shown # None, NEW i \in Pending,
                      NEW f \in FilesOf(reports[i].target) \ blind', shown[f] # disk'[f]
               PROVE  Unheard(f)' \/ Kept(reducer, f, reports[i].began) \/ ~ reducer.healthy
    BY <1>1 DEF CreditGuarded
  <2>1. f \in File
    BY FilesOfType
  <2>2. CASE disk'[f] = disk[f]
    BY <2>1, <2>2 DEF IInv, CreditGuarded
  <2> QED BY <1>5, <2>1, <2>2
<1>10. BodyGuarded'
  <2> SUFFICES ASSUME BodyStale'
               PROVE  IF load # None
                      THEN Told(content.file)' \/ Kept(reducer, content.file, load.began)
                      ELSE \/ Unheard(content.file)' \/ ~ reducer.healthy
                           \/ /\ Kept(reducer, content.file, 0)
                              /\ \A i \in Pending : Kept(reducer, content.file, reports[i].began)
    BY <1>1 DEF BodyGuarded
  <2>1. content # None /\ content.file \in File /\ content.file \notin blind'
    BY <1>1, BodyType DEF BodyStale, IInv
  <2>2. CASE disk'[content.file] = disk[content.file]
    <3>1. BodyStale
      BY <1>1, <2>1, <2>2 DEF BodyStale
    <3> QED BY <2>1, <3>1 DEF IInv, BodyGuarded
  <2> QED BY <1>5, <2>1, <2>2
<1> QED BY <1>1, <1>2, <1>3, <1>4, <1>7, <1>8, <1>9, <1>10 DEF IInv

\* What says nothing leaves the others' words as they are.
LEMMA SilenceMeans ==
  ASSUME UNCHANGED channel
  PROVE  /\ \A f : Told(f) <=> Told(f)'
         /\ watch' = watch => \A f : Unheard(f) <=> Unheard(f)'
BY DEF Told, Unheard

\* While nothing is observed, the interface knows or is about to hear it.
LEMMA OffIsKnown ==
  ASSUME IInv, watch # "on", NEW f \in File
  PROVE  Unheard(f) \/ ~ reducer.healthy
<1>1. CASE watch = "lost"
  BY <1>1 DEF Unheard
<1>2. CASE watch = "off" /\ channel # <<>>
  <2>1. channel[Len(channel)].what = "off" /\ Len(channel) \in DOMAIN channel
    BY <1>2 DEF IInv, OffIsTold, Typed
  <2> QED BY <2>1 DEF Unheard
<1> QED BY <1>1, <1>2 DEF IInv, OffIsTold, Typed

\* What is unheard stays so while more is said.
LEMMA TellKeeps ==
  ASSUME channel \in Seq(Observation), NEW o \in Observation, channel' = Append(channel, o),
         watch = "on", NEW f \in File, Names(o, f)
  PROVE  Told(f)' /\ \A g \in File : (Told(g) => Told(g)') /\ (Unheard(g) => Unheard(g)')
<1>1. /\ Told(f)' /\ \A g \in File : Told(g) => Told(g)'
      /\ (\E i \in DOMAIN channel : channel[i].what = "off") =>
           \E i \in DOMAIN channel' : channel'[i].what = "off"
  BY TellMeans
<1>2. ASSUME NEW g \in File, Told(g)' \/ \E i \in DOMAIN channel' : channel'[i].what = "off"
      PROVE  Unheard(g)'
  BY <1>2 DEF Told, Unheard, Names
<1>3. ASSUME NEW g \in File, Unheard(g) PROVE Unheard(g)'
  <2>1. Told(g) \/ \E i \in DOMAIN channel : channel[i].what = "off"
    BY <1>3, UnheardMeans
  <2> QED BY <1>1, <1>2, <2>1
<1> QED BY <1>1, <1>3

\* An edit that is observed is told of.
LEMMA EditsKeeps ==
  ASSUME IInv, NEW f \in File, Edits(f)
  PROVE  IInv'
<1>1. /\ UNCHANGED <<uiVars, load, content>> /\ watch' = watch /\ blind \subseteq blind'
      /\ disk' = [disk EXCEPT ![f] = @ + 1]
  BY DEF Edits
<1>2. /\ disk' \in [File -> Nat] /\ disk'[f] = disk[f] + 1
      /\ \A g \in File : disk[g] <= disk'[g] /\ (g # f => disk'[g] = disk[g])
      /\ \A g \in File : disk[g] \in Nat
  BY <1>1 DEF IInv, Typed
<1> DEFINE event == [what |-> "event", file |-> f]
<1>3. event \in Observation /\ Names(event, f) /\ event.what # "off"
  BY DEF Observation, Names
<1>4. \/ watch = "on" /\ channel' = Append(channel, event)
      \/ watch # "on" /\ channel' = channel /\ (load # None => f \in blind')
  BY DEF Edits, Tells
<1> HIDE DEF event
<1>5. Versioned'
  <2>1. /\ load # None => \A g \in DOMAIN load.read :
             load.read[g] = None \/ (load.read[g] \in Nat /\ g \in File)
        /\ content # None =>
             content.version = None \/ (content.version \in Nat /\ content.file \in File)
        /\ shown # None => \A g \in File : shown[g] \in Nat
    BY LoadType, BodyType DEF IInv, Typed
  <2>2. load' = load /\ content' = content /\ shown' = shown
    BY <1>1 DEF uiVars
  <2>3. \A n \in Nat, g \in File : n <= disk[g] => n <= disk'[g]
    BY <1>2
  <2> QED BY <2>1, <2>2, <2>3 DEF IInv, Versioned
<1>6. Typed'
  <2>1. channel' \in Seq(Observation)
    BY <1>3, <1>4, TellMeans DEF IInv, Typed
  <2> QED BY <1>1, <1>2, <2>1 DEF IInv, Typed, uiVars
<1>7. CASE watch = "on" /\ channel' = Append(channel, event)
  <2>1. Told(f)' /\ \A g \in File : (Told(g) => Told(g)') /\ (Unheard(g) => Unheard(g)')
    BY <1>1, <1>3, <1>7, TellKeeps DEF IInv, Typed
  <2>2. OffIsTold'
    BY <1>1, <1>7 DEF OffIsTold
  <2> QED BY <1>1, <1>2, <1>5, <1>6, <2>1, <2>2, OutsideKeeps
<1>8. CASE watch # "on" /\ channel' = channel /\ (load # None => f \in blind')
  <2>1. \A g \in File : (Told(g) => Told(g)') /\ (Unheard(g) <=> Unheard(g)')
    BY <1>1, <1>8, SilenceMeans
  <2>2. OffIsTold'
    BY <1>1, <1>8 DEF OffIsTold, uiVars, IInv
  <2>3. Unheard(f)' \/ ~ reducer.healthy
    BY <1>8, <2>1, OffIsKnown
  <2> QED BY <1>1, <1>2, <1>5, <1>6, <1>8, <2>1, <2>2, <2>3, OutsideKeeps
<1> QED BY <1>4, <1>7, <1>8

\* An edit whose event is lost is told of as something that was missed.
LEMMA EditsUntoldKeeps ==
  ASSUME IInv, NEW f \in File, EditsUntold(f)
  PROVE  IInv'
<1>1. /\ UNCHANGED <<uiVars, load, content>> /\ watch' = watch /\ blind = blind'
      /\ disk' = [disk EXCEPT ![f] = @ + 1] /\ watch = "on"
  BY DEF EditsUntold
<1>2. /\ disk' \in [File -> Nat] /\ disk'[f] = disk[f] + 1
      /\ \A g \in File : disk[g] <= disk'[g] /\ (g # f => disk'[g] = disk[g])
      /\ \A g \in File : disk[g] \in Nat
  BY <1>1 DEF IInv, Typed
<1> DEFINE overflow == [what |-> "overflow"]
<1>3. overflow \in Observation /\ Names(overflow, f) /\ overflow.what # "off"
  BY DEF Observation, Names
<1>4. channel' = Append(channel, overflow)
  BY DEF EditsUntold, Tells
<1> HIDE DEF overflow
<1>5. Versioned'
  <2>1. /\ load # None => \A g \in DOMAIN load.read :
             load.read[g] = None \/ (load.read[g] \in Nat /\ g \in File)
        /\ content # None =>
             content.version = None \/ (content.version \in Nat /\ content.file \in File)
        /\ shown # None => \A g \in File : shown[g] \in Nat
    BY LoadType, BodyType DEF IInv, Typed
  <2>2. load' = load /\ content' = content /\ shown' = shown
    BY <1>1 DEF uiVars
  <2>3. \A n \in Nat, g \in File : n <= disk[g] => n <= disk'[g]
    BY <1>2
  <2> QED BY <2>1, <2>2, <2>3 DEF IInv, Versioned
<1>6. Typed'
  <2>1. channel' \in Seq(Observation)
    BY <1>3, <1>4, TellMeans DEF IInv, Typed
  <2> QED BY <1>1, <1>2, <2>1 DEF IInv, Typed, uiVars
<1>7. Told(f)' /\ \A g \in File : (Told(g) => Told(g)') /\ (Unheard(g) => Unheard(g)')
  BY <1>1, <1>3, <1>4, TellKeeps DEF IInv, Typed
<1>8. OffIsTold'
  BY <1>1 DEF OffIsTold
<1> QED BY <1>1, <1>2, <1>5, <1>6, <1>7, <1>8, OutsideKeeps

\* What the adapter says of its own health it says in time.
LEMMA AdapterKeeps ==
  ASSUME IInv, LosesRoot \/ LosesWatch \/ NoticesLoss \/ Rewatches
  PROVE  IInv'
<1>1. UNCHANGED <<uiVars, load, content, disk, blind>>
  BY DEF LosesRoot, LosesWatch, NoticesLoss, Rewatches
<1>2. \/ watch = "on" /\ watch' = "lost" /\ channel' = Append(channel, [what |-> "root"])
      \/ watch = "on" /\ watch' = "lost" /\ channel' = channel
      \/ watch # "off" /\ watch' = "off" /\ channel' = Append(channel, [what |-> "off"])
      \/ watch = "off" /\ watch' = "on" /\ channel' = Append(channel, [what |-> "on"])
  BY DEF LosesRoot, LosesWatch, NoticesLoss, Rewatches, Tells, IInv, Typed
<1>3. {[what |-> "root"], [what |-> "off"], [what |-> "on"]} \subseteq Observation
  BY DEF Observation
<1>4. Versioned'
  BY <1>1 DEF IInv, Versioned, uiVars
<1>5. channel \in Seq(Observation)
  BY DEF IInv, Typed
<1>6. Typed'
  <2>1. channel' \in Seq(Observation)
    BY <1>2, <1>3, <1>5, TellMeans
  <2>2. watch' \in {"on", "lost", "off"}
    BY <1>2
  <2> QED BY <1>1, <2>1, <2>2 DEF IInv, Typed, uiVars
<1>7. OffIsTold'
  BY <1>2, <1>3, <1>5, TellMeans DEF OffIsTold
<1>8. \A f \in File : Told(f) => Told(f)'
  BY <1>2, <1>3, <1>5, TellMeans, SilenceMeans
<1>9. ASSUME NEW f \in File, Unheard(f) PROVE Unheard(f)'
  <2>1. Told(f)' => Unheard(f)'
    BY DEF Told, Unheard, Names
  <2>2. CASE watch' = "lost"
    BY <2>2 DEF Unheard
  <2>3. CASE watch' = "off"
    <3>1. \E i \in DOMAIN channel' : channel'[i].what = "off"
      BY <1>2, <1>3, <1>5, <2>3, TellMeans
    <3> QED BY <3>1 DEF Unheard
  <2>4. CASE watch' = "on"
    <3>1. watch = "off" /\ channel' = Append(channel, [what |-> "on"])
      BY <1>2, <2>4
    <3>2. Told(f) \/ \E i \in DOMAIN channel : channel[i].what = "off"
      BY <1>9, <3>1, UnheardMeans
    <3>3. Told(f)' \/ \E i \in DOMAIN channel' : channel'[i].what = "off"
      BY <1>3, <1>5, <3>1, <3>2, TellMeans
    <3> QED BY <2>1, <3>3 DEF Unheard
  <2> QED BY <1>2, <2>2, <2>3, <2>4
<1>10. UNCHANGED <<uiVars, load, content>> /\ blind \subseteq blind' /\ disk' = disk
  BY <1>1
<1> QED BY <1>4, <1>6, <1>7, <1>8, <1>9, <1>10, OutsideKeeps

-----------------------------------------------------------------------------
(* What the threads do.                                                    *)

\* A load that goes on, or fails, has still read what it read.
LEMMA StepsKeep ==
  ASSUME IInv, LoadsCatalogue \/ LoadFails
  PROVE  IInv'
<1>1. /\ UNCHANGED <<disk, watch, channel, uiVars, content, blind>> /\ load # None
      /\ \E next \in {"read", "failed"} : load' = [load EXCEPT !.step = next]
  BY DEF LoadsCatalogue, LoadFails
<1>2. /\ load.generation \in Nat /\ load.target \in Scope /\ load.began \in Nat
      /\ load.read \in [FilesOf(load.target) -> Nat \cup {None}]
      /\ load \in Loading(load.target)
  BY <1>1, LoadType DEF IInv
<1>3. /\ load' \in Loading(load.target) /\ load'.target = load.target /\ load'.began = load.began
      /\ load'.generation = load.generation /\ load'.read = load.read
  BY <1>1, <1>2 DEF Loading
<1>4. load' # None
  BY <1>2, <1>3, TerminalAssumption
<1>5. /\ \A f : Told(f) <=> Told(f)'
      /\ \A f : Unheard(f) <=> Unheard(f)'
  BY <1>1, SilenceMeans
<1>6. /\ reducer' = reducer /\ reports' = reports /\ phase' = phase /\ observed' = observed
      /\ content' = content /\ shown' = shown /\ Pending' = Pending /\ known' = known
      /\ loads' = loads /\ disk' = disk /\ watch' = watch /\ channel' = channel /\ blind' = blind
  BY <1>1 DEF uiVars, Pending
<1>7. Typed' /\ Versioned' /\ OffIsTold' /\ Sound(reducer')
  BY <1>1, <1>2, <1>3, <1>6 DEF IInv, Typed, Versioned, OffIsTold
<1>8. Dated'
  BY <1>1, <1>3, <1>6 DEF IInv, Dated
<1>9. Reported'
  <2>1. Of(load)' = Of(load) /\ StartOf(load)' = StartOf(load)
    BY <1>3 DEF Of, StartOf
  <2> QED BY <1>1, <1>4, <1>6, <2>1 DEF IInv, Reported
<1>10. ShownGuarded' /\ CreditGuarded'
  BY <1>5, <1>6 DEF IInv, ShownGuarded, CreditGuarded
<1>11. LoadGuarded'
  BY <1>1, <1>3, <1>5, <1>6 DEF IInv, LoadGuarded
<1>12. BodyGuarded'
  <2>1. BodyStale' => BodyStale
    BY <1>6 DEF BodyStale
  <2> QED BY <1>1, <1>3, <1>4, <1>5, <1>6, <2>1 DEF IInv, BodyGuarded
<1> QED BY <1>7, <1>8, <1>9, <1>10, <1>11, <1>12 DEF IInv

\* A load reads what is there.
LEMMA LoadReadsKeeps ==
  ASSUME IInv, NEW f, LoadReads(f)
  PROVE  IInv'
<1>1. /\ UNCHANGED <<disk, watch, channel, uiVars, content, blind>> /\ load # None
      /\ f \in DOMAIN load.read /\ load' = [load EXCEPT !.read[f] = disk[f]]
  BY DEF LoadReads
<1>2. /\ load.generation \in Nat /\ load.target \in Scope /\ load.began \in Nat
      /\ load.step \in {"catalogue", "read", "failed"}
      /\ load.read \in [FilesOf(load.target) -> Nat \cup {None}]
      /\ load \in Loading(load.target) /\ FilesOf(load.target) \subseteq File
  BY <1>1, LoadType DEF IInv
<1>3. disk[f] \in Nat /\ f \in FilesOf(load.target)
  BY <1>1, <1>2 DEF IInv, Typed
<1>4. /\ load'.target = load.target /\ load'.began = load.began
      /\ load'.generation = load.generation /\ load'.read = [load.read EXCEPT ![f] = disk[f]]
      /\ load'.step = load.step
      /\ load' = [generation |-> load'.generation, target |-> load'.target,
                  began |-> load'.began, step |-> load'.step, read |-> load'.read]
  BY <1>1, <1>2 DEF Loading
<1>5. load'.read \in [FilesOf(load.target) -> Nat \cup {None}]
  BY <1>2, <1>3, <1>4
<1>6. load' \in Loading(load.target)
  BY <1>2, <1>4, <1>5 DEF Loading
<1>7. load' # None
  BY <1>2, <1>6, TerminalAssumption
<1>8. /\ \A g : Told(g) <=> Told(g)'
      /\ \A g : Unheard(g) <=> Unheard(g)'
  BY <1>1, SilenceMeans
<1>9. /\ reducer' = reducer /\ reports' = reports /\ phase' = phase /\ observed' = observed
      /\ content' = content /\ shown' = shown /\ Pending' = Pending /\ known' = known
      /\ loads' = loads /\ disk' = disk /\ watch' = watch /\ channel' = channel /\ blind' = blind
  BY <1>1 DEF uiVars, Pending
<1>10. /\ DOMAIN load'.read = DOMAIN load.read
       /\ \A g \in DOMAIN load.read :
            \/ load'.read[g] = load.read[g]
            \/ load'.read[g] = disk[g]
  BY <1>2, <1>3, <1>4
<1>11. Versioned'
  <2>1. \A g \in DOMAIN load.read : disk[g] \in Nat /\ disk[g] <= disk[g]
    BY <1>2 DEF IInv, Typed
  <2>2. \A g \in DOMAIN load'.read : load'.read[g] = None \/ load'.read[g] <= disk[g]
    BY <1>1, <1>10, <2>1 DEF IInv, Versioned
  <2> QED BY <1>9, <2>2 DEF IInv, Versioned
<1>12. Typed' /\ OffIsTold' /\ Sound(reducer')
  BY <1>2, <1>6, <1>9 DEF IInv, Typed, OffIsTold
<1>13. Dated'
  BY <1>1, <1>4, <1>9 DEF IInv, Dated
<1>14. Reported'
  <2>1. Of(load)' = Of(load) /\ StartOf(load)' = StartOf(load)
    BY <1>4 DEF Of, StartOf
  <2> QED BY <1>1, <1>7, <1>9, <2>1 DEF IInv, Reported
<1>15. ShownGuarded' /\ CreditGuarded'
  BY <1>8, <1>9 DEF IInv, ShownGuarded, CreditGuarded
<1>16. LoadGuarded'
  BY <1>1, <1>4, <1>8, <1>9, <1>10 DEF IInv, LoadGuarded
<1>17. BodyGuarded'
  <2>1. BodyStale' => BodyStale
    BY <1>9 DEF BodyStale
  <2> QED BY <1>1, <1>4, <1>7, <1>8, <1>9, <2>1 DEF IInv, BodyGuarded
<1> QED BY <1>11, <1>12, <1>13, <1>14, <1>15, <1>16, <1>17 DEF IInv

\* A body is what the file is now.
LEMMA ContentReadsKeeps ==
  ASSUME IInv, ContentReads
  PROVE  IInv'
<1>1. /\ UNCHANGED <<disk, watch, channel, uiVars, load, blind>> /\ content # None
      /\ content' = [content EXCEPT !.version = disk[content.file]]
  BY DEF ContentReads
<1>2. content.file \in File /\ content \in Fetching
  BY <1>1, BodyType DEF IInv, Typed
<1>3. disk[content.file] \in Nat
  BY <1>2 DEF IInv, Typed
<1>4. /\ content'.file = content.file /\ content'.version = disk[content.file]
      /\ content' \in Fetching
  BY <1>1, <1>2, <1>3 DEF Fetching
<1>5. content' # None
  BY <1>4, TerminalAssumption
<1>6. /\ \A f : Told(f) <=> Told(f)'
      /\ \A f : Unheard(f) <=> Unheard(f)'
  BY <1>1, SilenceMeans
<1>7. /\ reducer' = reducer /\ reports' = reports /\ phase' = phase /\ observed' = observed
      /\ load' = load /\ shown' = shown /\ Pending' = Pending /\ known' = known
      /\ loads' = loads /\ disk' = disk /\ watch' = watch /\ channel' = channel /\ blind' = blind
  BY <1>1 DEF uiVars, Pending
<1>8. Versioned'
  <2>1. content'.version <= disk[content'.file]
    BY <1>3, <1>4
  <2> QED BY <1>7, <2>1 DEF IInv, Versioned
<1>9. Typed' /\ OffIsTold' /\ Sound(reducer')
  BY <1>4, <1>7 DEF IInv, Typed, OffIsTold
<1>10. Dated'
  BY <1>1, <1>7 DEF IInv, Dated
<1>11. Reported'
  BY <1>7 DEF IInv, Reported
<1>12. ShownGuarded' /\ CreditGuarded' /\ LoadGuarded'
  BY <1>6, <1>7 DEF IInv, ShownGuarded, CreditGuarded, LoadGuarded
<1>13. BodyGuarded'
  BY <1>4, <1>7 DEF BodyGuarded, BodyStale
<1> QED BY <1>8, <1>9, <1>10, <1>11, <1>12, <1>13 DEF IInv

-----------------------------------------------------------------------------
(* What the loop does.                                                     *)

\* A key that asks for nothing changes nothing, and one that asks for a body has read none yet.
LEMMA KeysKeep ==
  ASSUME IInv, Idles \/ \E f \in File : FetchesContent(f)
  PROVE  IInv'
<1>1. /\ UNCHANGED <<disk, watch, channel, reducer, reports, observed, known, load, loads, shown,
                     blind>>
      /\ phase = "key" /\ phase' = "watch"
      /\ \/ content' = content
         \/ /\ shown # None
            /\ \E f \in File : content' = [file |-> f, version |-> None]
  BY DEF Idles, FetchesContent
<1>2. /\ \A f : Told(f) <=> Told(f)'
      /\ \A f : Unheard(f) <=> Unheard(f)'
  BY <1>1, SilenceMeans
<1>3. Pending' = Pending /\ (load # None => Pending = {})
  <2>1. load # None => reports = <<>>
    BY <1>1 DEF IInv, Reported
  <2> QED BY <1>1, <2>1 DEF Pending
<1>4. \/ content' = content
      \/ /\ shown # None /\ content' \in Fetching
         /\ content' # None /\ content'.version = None
  <2>1. ASSUME NEW f \in File, content' = [file |-> f, version |-> None]
        PROVE  content' \in Fetching /\ content' # None /\ content'.version = None
    <3>1. content' \in Fetching /\ content'.version = None
      BY <2>1 DEF Fetching
    <3> QED BY <3>1, TerminalAssumption
  <2> QED BY <1>1, <2>1
<1>5. Versioned'
  BY <1>1, <1>4 DEF IInv, Versioned
<1>6. Typed' /\ OffIsTold' /\ Sound(reducer')
  BY <1>1, <1>4 DEF IInv, Typed, OffIsTold
<1>7. Dated'
  BY <1>1, <1>3, <1>4 DEF IInv, Dated
<1>8. Reported'
  BY <1>1, <1>3 DEF IInv, Reported
<1>9. ShownGuarded' /\ CreditGuarded' /\ LoadGuarded'
  BY <1>1, <1>2, <1>3 DEF IInv, ShownGuarded, CreditGuarded, LoadGuarded
<1>10. BodyGuarded'
  <2>1. CASE content' = content
    BY <1>1, <1>2, <1>3, <2>1 DEF IInv, BodyGuarded, BodyStale
  <2>2. CASE content'.version = None
    BY <2>2 DEF BodyGuarded, BodyStale
  <2> QED BY <1>4, <2>1, <2>2
<1> QED BY <1>5, <1>6, <1>7, <1>8, <1>9, <1>10 DEF IInv

\* A refresh begins on what the coordinator knows, and has read nothing.
LEMMA RefreshesKeeps ==
  ASSUME IInv, NEW target \in Scope, Refreshes(target)
  PROVE  IInv'
<1> DEFINE report == [what |-> "started", generation |-> loads + 1, target |-> target,
                      began |-> observed]
<1>1. /\ UNCHANGED <<disk, watch, channel, reducer, observed, known, shown, blind>>
      /\ phase = "key" /\ phase' = "watch" /\ load' = Begun(loads + 1, target, observed)
      /\ reports' = Append(reports, report) /\ loads' = loads + 1 /\ content' = None
  BY DEF Refreshes
<1>2. /\ loads + 1 \in Nat /\ observed \in Nat /\ reports \in Seq(Report) /\ Len(reports) \in Nat
      /\ Len(reports) <= 1 /\ observed = reducer.generation
  BY <1>1 DEF IInv, Typed, Reported, Dated
<1>3. report \in Report
  BY <1>2 DEF Report
<1>4. /\ load'.generation = loads + 1 /\ load'.target = target /\ load'.began = observed
      /\ load'.read = [f \in FilesOf(target) |-> None]
      /\ load' \in Loading(target)
  BY <1>1, <1>2 DEF Begun, Loading
<1>5. load' # None
  BY <1>4, TerminalAssumption
<1> HIDE DEF report
<1>6. /\ reports' \in Seq(Report) /\ reports' # <<>>
      /\ Len(reports') = Len(reports) + 1 /\ reports'[Len(reports')] = report
      /\ DOMAIN reports' = 1..Len(reports') /\ DOMAIN reports = 1..Len(reports)
      /\ \A i \in DOMAIN reports : reports'[i] = reports[i]
  BY <1>1, <1>2, <1>3
<1>7. Pending' = Pending /\ (\A i \in Pending : reports'[i] = reports[i])
  <2>1. report.what = "started"
    BY DEF report
  <2>2. \A i \in DOMAIN reports' : i \in DOMAIN reports \/ i = Len(reports')
    BY <1>2, <1>6
  <2> QED BY <1>2, <1>6, <2>1, <2>2 DEF Pending
<1>8. /\ \A f : Told(f) <=> Told(f)'
      /\ \A f : Unheard(f) <=> Unheard(f)'
  BY <1>1, SilenceMeans
<1>9. Versioned'
  BY <1>1, <1>4 DEF IInv, Versioned
<1>10. Typed' /\ OffIsTold' /\ Sound(reducer')
  BY <1>1, <1>2, <1>4, <1>6 DEF IInv, Typed, OffIsTold
<1>11. Dated'
  <2>1. /\ observed' = reducer'.generation /\ observed' <= reducer'.generation
        /\ load'.began <= observed'
    BY <1>1, <1>2, <1>4
  <2> QED BY <1>1, <1>2, <1>4, <1>7, <2>1 DEF IInv, Dated
<1>12. Reported'
  <2>1. report = StartOf(load)'
    BY <1>4 DEF StartOf, report
  <2>2. report.what = "started"
    BY DEF report
  <2>3. Len(reports') <= 2 /\ (Len(reports') = 2 => reports'[2] = report)
    BY <1>2, <1>6
  <2>4. \A i \in Pending' : i = 1 /\ reducer'.started = Of(reports'[i])
    BY <1>1, <1>7 DEF IInv, Reported
  <2> QED BY <1>1, <1>6, <2>1, <2>2, <2>3, <2>4 DEF Reported
<1>13. ShownGuarded'
  BY <1>1, <1>8 DEF IInv, ShownGuarded
<1>14. CreditGuarded'
  BY <1>1, <1>7, <1>8 DEF IInv, CreditGuarded
<1>15. LoadGuarded'
  BY <1>4 DEF LoadGuarded
<1>16. BodyGuarded'
  BY <1>1 DEF BodyGuarded, BodyStale
<1> QED BY <1>9, <1>10, <1>11, <1>12, <1>13, <1>14, <1>15, <1>16 DEF IInv

\* What guards against the changes after a generation guards against those after an earlier one.
LEMMA KeptSince ==
  ASSUME NEW r, Sound(r), NEW f, NEW b \in Nat, NEW c \in Nat, c <= b, Kept(r, f, b)
  PROVE  Kept(r, f, c)
<1>1. PICK old \in r.records : Guards(old, f) /\ old.gen > b
  BY DEF Kept
<1>2. old.gen \in Nat
  BY DEF Sound, WellFormed, Reducer, StaleRecord
<1> QED BY <1>1, <1>2 DEF Kept

\* A body is put in the place of one file, if anything is shown at all.
LEMMA WithContentMeans ==
  ASSUME Typed, NEW now \in [File -> Nat] \cup {None}, NEW then, then = WithContent(now)
  PROVE  /\ now = None => then = None
         /\ now # None =>
              /\ then \in [File -> Nat] /\ then # None
              /\ \A f \in File :
                   \/ then[f] = now[f]
                   \/ /\ content # None /\ content.file = f /\ content.version # None
                      /\ then[f] = content.version
<1>1. CASE now = None
  BY <1>1 DEF WithContent
<1>2. CASE now # None
  <2>1. now \in [File -> Nat] /\ (\A g \in [File -> Nat] : g # None)
    BY <1>2, TerminalAssumption
  <2>2. CASE content = None \/ content.version = None
    BY <2>1, <2>2, <1>2 DEF WithContent
  <2>3. CASE content # None /\ content.version # None
    <3>1. then = [now EXCEPT ![content.file] = content.version]
      BY <1>2, <2>3 DEF WithContent
    <3>2. content.file \in File /\ content.version \in Nat
      BY <2>3, BodyType
    <3>3. then \in [File -> Nat]
      BY <2>1, <3>1, <3>2
    <3>4. \A f \in File : then[f] = IF f = content.file THEN content.version ELSE now[f]
      BY <2>1, <3>1, <3>2
    <3> QED BY <1>2, <2>1, <2>3, <3>3, <3>4
  <2> QED BY <2>2, <2>3
<1> QED BY <1>1, <1>2

\* What a completed load shows is what it read, or what was shown.
LEMMA PromotedMeans ==
  ASSUME Typed, LoadDone, shown # None \/ load.target = Whole
  PROVE  /\ Promoted \in [File -> Nat]
         /\ \A f \in File :
              \/ /\ f \in FilesOf(load.target) /\ load.read[f] \in Nat /\ load.read[f] # None
                 /\ Promoted[f] = load.read[f]
              \/ f \notin FilesOf(load.target) /\ shown # None /\ Promoted[f] = shown[f]
<1>1. load # None /\ \A f \in DOMAIN load.read : load.read[f] # None
  BY DEF LoadDone
<1>2. /\ load.read \in [FilesOf(load.target) -> Nat \cup {None}]
      /\ FilesOf(load.target) \subseteq File
  BY <1>1, LoadType
<1>3. /\ load.read \in [FilesOf(load.target) -> Nat]
      /\ DOMAIN load.read = FilesOf(load.target)
      /\ \A f \in FilesOf(load.target) : load.read[f] \in Nat /\ load.read[f] # None
  BY <1>1, <1>2
<1>4. CASE shown = None
  <2>1. FilesOf(load.target) = File
    BY <1>4 DEF FilesOf
  <2> QED BY <1>3, <1>4, <2>1 DEF Promoted
<1>5. CASE shown # None
  <2>1. shown \in [File -> Nat]
    BY <1>5 DEF Typed
  <2>2. Promoted = [f \in File |-> IF f \in FilesOf(load.target) THEN load.read[f] ELSE shown[f]]
    BY <1>3, <1>5 DEF Promoted
  <2>3. \A f \in File :
          (IF f \in FilesOf(load.target) THEN load.read[f] ELSE shown[f]) \in Nat
    BY <1>3, <2>1
  <2> QED BY <1>3, <1>5, <2>2, <2>3
<1> QED BY <1>4, <1>5

\* A body that is stale is on record before it is shown.
LEMMA BodyIsKnown ==
  ASSUME IInv, BodyStale
  PROVE  /\ Unheard(content.file) \/ Kept(reducer, content.file, 0)
         /\ load # None => Unheard(content.file) \/ Kept(reducer, content.file, load.began)
<1>1. content.file \in File
  BY BodyType DEF IInv, BodyStale
<1>2. Told(content.file) => Unheard(content.file)
  BY UnheardMeans
<1>3. CASE load # None
  <2>1. Told(content.file) \/ Kept(reducer, content.file, load.began)
    BY <1>3 DEF IInv, BodyGuarded
  <2>2. load.began \in Nat /\ 0 \in Nat /\ 0 <= load.began
    BY <1>3, LoadType DEF IInv
  <2>3. Kept(reducer, content.file, load.began) => Kept(reducer, content.file, 0)
    BY <2>2, KeptSince DEF IInv
  <2> QED BY <1>2, <2>1, <2>3
<1>4. CASE load = None
  <2>1. ~ reducer.healthy => Kept(reducer, content.file, 0)
    BY <1>1, DoubtGuards DEF IInv
  <2> QED BY <1>4, <2>1 DEF IInv, BodyGuarded
<1> QED BY <1>3, <1>4

\* What changed since it was read is on record before it is shown.
LEMMA ReadIsKnown ==
  ASSUME IInv, load # None, NEW f \in FilesOf(load.target) \ blind,
         load.read[f] \notin {None, disk[f]}
  PROVE  /\ Unheard(f) \/ Kept(reducer, f, 0)
         /\ Unheard(f) \/ Kept(reducer, f, load.began)
<1>1. Told(f) \/ Kept(reducer, f, load.began)
  BY LoadType DEF IInv, LoadGuarded
<1>2. Told(f) => Unheard(f)
  BY UnheardMeans
<1>3. load.began \in Nat /\ 0 \in Nat /\ 0 <= load.began
  BY LoadType DEF IInv
<1>4. Kept(reducer, f, load.began) => Kept(reducer, f, 0)
  BY <1>3, KeptSince DEF IInv
<1> QED BY <1>1, <1>2, <1>4

\* A load that completes shows what it read, and is credited with what changed before it began.
LEMMA CoordinatesKeeps ==
  ASSUME IInv, Coordinates
  PROVE  IInv'
<1>1. /\ UNCHANGED <<disk, watch, channel, reducer, loads, blind>>
      /\ phase = "coordinate" /\ phase' = "key" /\ observed' = reducer.generation
      /\ known' \in BOOLEAN
      /\ content' = IF content # None /\ content.version # None THEN None ELSE content
  BY DEF Coordinates, IInv, Typed
<1>2. /\ \A f : Told(f) <=> Told(f)'
      /\ \A f : Unheard(f) <=> Unheard(f)'
  BY <1>1, SilenceMeans
<1>3. reducer.generation \in Nat
  BY DEF IInv, Sound, WellFormed, Reducer
<1>4. reports = <<>> /\ Pending = {} /\ (load # None => reducer.started = Of(load))
  BY <1>1 DEF IInv, Reported, Pending
<1> DEFINE now == IF LoadDone
                  THEN IF shown # None \/ load.target = Whole THEN Promoted ELSE None
                  ELSE shown
<1>5. /\ ~ (LoadDone /\ load # None /\ load.step = "failed")
      /\ LoadDone =>
           /\ shown' = WithContent(IF shown # None \/ load.target = Whole THEN Promoted ELSE None)
           /\ reports' = Append(reports, [what |-> "succeeded", generation |-> load.generation,
                                          target |-> load.target, began |-> Credited,
                                          ended |-> observed'])
           /\ load' = None
      /\ load # None /\ load.step = "failed" =>
           /\ shown' = WithContent(shown)
           /\ reports' = Append(reports, [what |-> "failed", generation |-> load.generation])
           /\ load' = None
      /\ ~ LoadDone /\ ~ (load # None /\ load.step = "failed") =>
           /\ shown' = WithContent(shown)
           /\ UNCHANGED <<reports, load>>
  <2>1. ~ (LoadDone /\ load # None /\ load.step = "failed")
    BY DEF LoadDone
  <2>2. CASE LoadDone
    BY <2>1, <2>2 DEF Coordinates
  <2>3. CASE load # None /\ load.step = "failed"
    BY <2>1, <2>3 DEF Coordinates
  <2>4. CASE ~ LoadDone /\ ~ (load # None /\ load.step = "failed")
    BY <2>4 DEF Coordinates
  <2> QED BY <2>1, <2>2, <2>3, <2>4
<1>6. shown' = WithContent(now)
  BY <1>5
<1>7. now \in [File -> Nat] \cup {None} /\ (shown # None => now # None)
  BY PromotedMeans, TerminalAssumption DEF IInv, Typed
<1>8. ASSUME NEW f \in File, now # None
      PROVE  \/ shown # None /\ now[f] = shown[f]
                /\ (LoadDone => f \notin FilesOf(load.target))
             \/ /\ load # None /\ f \in FilesOf(load.target)
                /\ load.read[f] \in Nat /\ load.read[f] # None /\ now[f] = load.read[f]
  <2>1. CASE LoadDone
    <3>1. load # None /\ (shown # None \/ load.target = Whole)
      BY <1>8, <2>1 DEF LoadDone
    <3> QED BY <2>1, <3>1, PromotedMeans DEF IInv
  <2>2. CASE ~ LoadDone
    BY <1>8, <2>2
  <2> QED BY <2>1, <2>2
<1> HIDE DEF now
<1>9. /\ shown' \in [File -> Nat] \cup {None}
      /\ shown' # None => now # None
      /\ shown # None => shown' # None
      /\ \A f \in File : shown' # None =>
           \/ shown'[f] = now[f]
           \/ /\ content # None /\ content.file = f /\ content.version # None
              /\ shown'[f] = content.version
  BY <1>6, <1>7, WithContentMeans DEF IInv
<1>10. ASSUME NEW f \in File, shown' # None
       PROVE  /\ shown'[f] <= disk[f]
              /\ f \notin blind /\ shown'[f] # disk[f] =>
                   /\ Unheard(f) \/ Kept(reducer, f, 0)
                   /\ LoadDone /\ f \in FilesOf(load.target) =>
                        Unheard(f) \/ Kept(reducer, f, load.began)
  <2>1. CASE /\ content # None /\ content.file = f /\ content.version # None
             /\ shown'[f] = content.version
    <3>1. f \notin blind /\ shown'[f] # disk[f] => BodyStale
      BY <2>1 DEF BodyStale
    <3>2. LoadDone => load # None
      BY DEF LoadDone
    <3>3. shown'[f] <= disk[f]
      BY <2>1 DEF IInv, Versioned
    <3> QED BY <2>1, <3>1, <3>2, <3>3, BodyIsKnown
  <2>2. CASE /\ shown'[f] = now[f] /\ shown # None /\ now[f] = shown[f]
             /\ (LoadDone => f \notin FilesOf(load.target))
    BY <2>2 DEF IInv, ShownGuarded, Versioned
  <2>3. CASE /\ shown'[f] = now[f] /\ load # None /\ f \in FilesOf(load.target)
             /\ load.read[f] \in Nat /\ load.read[f] # None /\ now[f] = load.read[f]
    <3>1. load.read[f] <= disk[f]
      BY <2>3, LoadType DEF IInv, Versioned
    <3> QED BY <2>3, <3>1, ReadIsKnown
  <2> QED BY <1>8, <1>9, <1>10, <2>1, <2>2, <2>3
<1>11. \/ /\ LoadDone /\ load' = None
          /\ reports' = <<[what |-> "succeeded", generation |-> load.generation,
                           target |-> load.target, began |-> load.began,
                           ended |-> reducer.generation]>>
       \/ /\ ~ LoadDone /\ load # None /\ load' = None
          /\ reports' = <<[what |-> "failed", generation |-> load.generation]>>
       \/ ~ LoadDone /\ load' = load /\ reports' = <<>>
  <2>1. \A x : Append(<<>>, x) = <<x>>
    OBVIOUS
  <2>2. CASE LoadDone
    BY <1>1, <1>4, <1>5, <2>1, <2>2 DEF Credited
  <2>3. CASE ~ LoadDone
    BY <1>4, <1>5, <2>1, <2>3
  <2> QED BY <2>2, <2>3
<1>12. LoadDone => load # None
  BY DEF LoadDone
<1>13. load # None => load.generation \in Nat /\ load.target \in Scope /\ load.began \in Nat
                      /\ load.began <= reducer.generation
  BY <1>1, <1>3, LoadType DEF IInv, Dated, Typed
<1>14. reports' \in Seq(Report)
  <2>1. ASSUME NEW report \in Report PROVE <<report>> \in Seq(Report)
    OBVIOUS
  <2>2. load # None =>
          /\ [what |-> "succeeded", generation |-> load.generation, target |-> load.target,
              began |-> load.began, ended |-> reducer.generation] \in Report
          /\ [what |-> "failed", generation |-> load.generation] \in Report
    BY <1>3, <1>13 DEF Report
  <2>3. <<>> \in Seq(Report)
    OBVIOUS
  <2> QED BY <1>11, <1>12, <2>1, <2>2, <2>3
<1>15. \A i \in Pending' :
         /\ LoadDone /\ load' = None /\ i = 1 /\ reports'[i].target = load.target
         /\ reports'[i].began = load.began /\ reports'[i].ended = reducer.generation
         /\ Of(reports'[i]) = Of(load)
  <2>1. \A i \in Pending' : i = 1 /\ LoadDone /\ load' = None
    BY <1>11 DEF Pending
  <2>2. LoadDone =>
          /\ reports'[1].generation = load.generation /\ reports'[1].target = load.target
          /\ reports'[1].began = load.began /\ reports'[1].ended = reducer.generation
    BY <1>11
  <2> QED BY <2>1, <2>2 DEF Of
<1>16. Len(reports') <= 1 /\ (load' # None => reports' = <<>> /\ load' = load)
  BY <1>11
<1>17. content' = content \/ content' = None
  BY <1>1
<1>18. Typed'
  BY <1>1, <1>3, <1>9, <1>11, <1>14, <1>17 DEF IInv, Typed
<1>19. Versioned'
  <2>1. shown' # None => \A f \in File : shown'[f] <= disk'[f]
    BY <1>1, <1>10
  <2> QED BY <1>1, <1>16, <1>17, <2>1 DEF IInv, Versioned
<1>20. OffIsTold' /\ Sound(reducer')
  BY <1>1 DEF IInv, OffIsTold
<1>21. Dated'
  <2>1. \A i \in Pending' : /\ reports'[i].began <= reducer'.generation
                            /\ reports'[i].ended = reducer'.generation /\ load' = None
    BY <1>1, <1>12, <1>13, <1>15
  <2>2. observed' <= reducer'.generation /\ observed' = reducer'.generation
    BY <1>1, <1>3
  <2>3. load' # None => load'.began <= observed'
    BY <1>1, <1>13, <1>16
  <2>4. content' # None => shown' # None
    BY <1>9, <1>17 DEF IInv, Dated
  <2> QED BY <2>1, <2>2, <2>3, <2>4 DEF Dated
<1>22. Reported'
  <2>1. Len(reports') <= 2 /\ Len(reports') # 2
    <3>1. \A n \in Nat : n <= 1 => n <= 2 /\ n # 2
      OBVIOUS
    <3>2. Len(reports') \in Nat
      BY <1>14
    <3> QED BY <1>16, <3>1, <3>2
  <2>2. load' # None => reports' = <<>> /\ reducer'.started = Of(load')
    BY <1>1, <1>4, <1>16
  <2>3. \A i \in Pending' : i = 1 /\ reducer'.started = Of(reports'[i])
    BY <1>1, <1>4, <1>12, <1>15
  <2> QED BY <1>1, <1>16, <2>1, <2>2, <2>3 DEF Reported
<1>23. ShownGuarded'
  BY <1>1, <1>2, <1>10 DEF ShownGuarded
<1>24. CreditGuarded'
  <2> SUFFICES ASSUME shown' # None, NEW i \in Pending',
                      NEW f \in FilesOf(load.target) \ blind, shown'[f] # disk[f]
               PROVE  Unheard(f) \/ Kept(reducer, f, load.began)
    BY <1>1, <1>2, <1>15 DEF CreditGuarded
  <2>1. f \in File /\ LoadDone
    BY <1>15, FilesOfType
  <2> QED BY <1>10, <2>1
<1>25. LoadGuarded'
  BY <1>1, <1>2, <1>16 DEF IInv, LoadGuarded
<1>26. BodyGuarded'
  BY <1>1 DEF BodyGuarded, BodyStale
<1> QED BY <1>18, <1>19, <1>20, <1>21, <1>22, <1>23, <1>24, <1>25, <1>26 DEF IInv

\* What the reports leave on record, and what counts as begun after them.
LEMMA ReportsMean ==
  ASSUME IInv, NEW r, r = ByReports(reducer, reports)
  PROVE  /\ Sound(r) /\ r.generation = reducer.generation /\ r.healthy = reducer.healthy
         /\ load # None => r.started = Of(load)
         /\ \A f \in File, b \in Nat :
              /\ Kept(reducer, f, b)
              /\ \A i \in Pending : reports[i].began <= b \/ f \notin FilesOf(reports[i].target)
              => Kept(r, f, b)
<1>1. /\ reports \in Seq(Report) /\ Len(reports) <= 2 /\ Sound(reducer)
      /\ Len(reports) = 2 => reports[2].what = "started"
      /\ load # None => IF reports = <<>> THEN reducer.started = Of(load)
                        ELSE reports[Len(reports)] = StartOf(load)
  BY DEF IInv, Typed, Reported
<1>2. Len(reports) \in {0, 1, 2}
  <2>1. Len(reports) \in Nat
    BY <1>1
  <2>2. \A n \in Nat : n <= 2 => n \in {0, 1, 2}
    OBVIOUS
  <2> QED BY <1>1, <2>1, <2>2
<1>3. CASE Len(reports) = 0
  <2>1. reports = <<>> /\ Pending = {}
    BY <1>1, <1>3 DEF Pending
  <2>2. r = reducer
    BY <1>1, <2>1, ReportsUnfold
  <2> QED BY <1>1, <2>1, <2>2
<1>4. ASSUME NEW l, NEW report \in Report, report = StartOf(l), NEW t, NEW u,
             Sound(t), u = ByReport(t, report)
      PROVE  u.started = Of(l)
  <2>1. /\ report.what = "started" /\ report.generation = l.generation
        /\ report.target = l.target /\ report.began = l.began
    BY <1>4 DEF StartOf
  <2>2. u.started = [generation |-> report.generation, target |-> report.target,
                     observed |-> report.began]
    BY <1>4, <2>1, ReportMeans
  <2> QED BY <2>1, <2>2 DEF Of
<1>5. CASE Len(reports) = 1
  <2>1. reports[1] \in Report /\ reports # <<>> /\ DOMAIN reports = {1}
    BY <1>1, <1>5
  <2>2. r = ByReport(reducer, reports[1])
    BY <1>1, <1>5, ReportsUnfold
  <2>3. /\ Sound(r) /\ r.generation = reducer.generation /\ r.healthy = reducer.healthy
        /\ \A f \in File, b \in Nat :
             /\ Kept(reducer, f, b)
             /\ reports[1].what = "succeeded" =>
                  reports[1].began <= b \/ f \notin FilesOf(reports[1].target)
             => Kept(r, f, b)
    BY <1>1, <2>1, <2>2, ReportMeans, ZenonT(40)
  <2>4. reports[1].what = "succeeded" => 1 \in Pending
    BY <2>1 DEF Pending
  <2>5. load # None => r.started = Of(load)
    BY <1>1, <1>4, <1>5, <2>1, <2>2
  <2> QED BY <2>3, <2>4, <2>5
<1>6. CASE Len(reports) = 2
  <2>1. /\ reports[1] \in Report /\ reports[2] \in Report /\ reports # <<>>
        /\ 1 \in DOMAIN reports
    BY <1>1, <1>6
  <2> DEFINE t == ByReport(reducer, reports[1])
  <2>2. r = ByReport(t, reports[2])
    BY <1>1, <1>6, ReportsUnfold
  <2>3. /\ Sound(t) /\ t.generation = reducer.generation /\ t.healthy = reducer.healthy
        /\ \A f \in File, b \in Nat :
             /\ Kept(reducer, f, b)
             /\ reports[1].what = "succeeded" =>
                  reports[1].began <= b \/ f \notin FilesOf(reports[1].target)
             => Kept(t, f, b)
    BY <1>1, <2>1, ReportMeans, ZenonT(40)
  <2> HIDE DEF t
  <2>4. reports[1].what = "succeeded" => 1 \in Pending
    BY <2>1 DEF Pending
  <2>5. /\ Sound(r) /\ r.generation = t.generation /\ r.healthy = t.healthy
        /\ \A f \in File, b \in Nat : Kept(t, f, b) => Kept(r, f, b)
    BY <1>1, <1>6, <2>1, <2>2, <2>3, ReportMeans, ZenonT(40)
  <2>6. load # None => r.started = Of(load)
    BY <1>1, <1>4, <1>6, <2>1, <2>2, <2>3
  <2> QED BY <2>3, <2>4, <2>5, <2>6
<1> QED BY <1>2, <1>3, <1>5, <1>6

\* The reducer hears everything there is to hear, and what a success settles it does not settle
\* for what changed under the load.
LEMMA WatchesKeeps ==
  ASSUME IInv, Watches
  PROVE  IInv'
<1>1. /\ UNCHANGED <<disk, watch, observed, known, load, content, loads, shown, blind>>
      /\ phase = "watch" /\ phase' = "coordinate" /\ reports' = <<>> /\ channel' = <<>>
  BY DEF Watches
<1>2. PICK r : r = ByReports(reducer, reports)
  OBVIOUS
<1>3. PICK s : s = reducer'
  OBVIOUS
<1>4. s = ByObservations(r, channel)
  BY <1>2, <1>3 DEF Watches
<1>5. /\ Sound(r) /\ r.generation = reducer.generation /\ r.healthy = reducer.healthy
      /\ load # None => r.started = Of(load)
      /\ \A f \in File, b \in Nat :
           /\ Kept(reducer, f, b)
           /\ \A i \in Pending : reports[i].began <= b \/ f \notin FilesOf(reports[i].target)
           => Kept(r, f, b)
  BY <1>2, ReportsMean
<1>6. channel \in Seq(Observation) /\ known \in BOOLEAN /\ DOMAIN channel = 1..Len(channel)
  BY DEF IInv, Typed
<1>7. /\ Sound(s) /\ Later(r, s)
      /\ \A i \in 1..Len(channel), f \in File, b \in Nat :
           Names(channel[i], f) /\ b <= r.generation => Kept(s, f, b)
      /\ \A i \in 1..Len(channel), f \in File : channel[i].what = "off" => Kept(s, f, 0)
      /\ channel # <<>> /\ channel[Len(channel)].what = "off" => ~ s.healthy
      /\ channel = <<>> => s = r
  BY <1>4, <1>5, <1>6, ObservationsMean
<1>8. reducer.generation \in Nat /\ s.generation \in Nat /\ s.generation >= reducer.generation
  BY <1>5, <1>7 DEF Later, IInv, Sound, WellFormed, Reducer
<1>9. Pending' = {}
  BY <1>1 DEF Pending
<1>10. ASSUME NEW f \in File, NEW b \in Nat, b <= reducer.generation, Told(f)
       PROVE  Kept(s, f, b)
  BY <1>5, <1>6, <1>7, <1>10 DEF Told
<1>11. ASSUME NEW f \in File, Unheard(f)
       PROVE  Unheard(f)' \/ Kept(s, f, 0)
  <2>1. CASE watch = "lost"
    BY <1>1, <2>1 DEF Unheard
  <2>2. CASE Told(f)
    BY <1>8, <1>10, <2>2
  <2>3. CASE \E i \in DOMAIN channel : channel[i].what = "off"
    BY <1>6, <1>7, <2>3
  <2> QED BY <1>11, <2>1, <2>2, <2>3, UnheardMeans
<1>12. ASSUME NEW f \in File, NEW b \in Nat, b <= reducer.generation, Kept(reducer, f, b),
              \A i \in Pending : reports[i].began <= b \/ f \notin FilesOf(reports[i].target)
       PROVE  Kept(s, f, b)
  BY <1>5, <1>7, <1>12 DEF Later
<1>13. ASSUME NEW f \in File, ~ reducer.healthy
       PROVE  Kept(s, f, 0)
  <2>1. Kept(r, f, 0)
    BY <1>5, <1>13, DoubtGuards
  <2> QED BY <1>5, <1>7, <1>8, <2>1 DEF Later
<1>14. \A i \in Pending : i = 1 /\ reports[i].began \in Nat
                          /\ reports[i].began <= reducer.generation
  <2>1. \A i \in Pending : reports[i] \in Report /\ reports[i].what = "succeeded"
    BY DEF IInv, Typed, Pending
  <2> QED BY <2>1, ReportType DEF IInv, Dated, Reported
<1>15. ASSUME NEW f \in File, Kept(reducer, f, 0),
              \A i \in Pending : f \in FilesOf(reports[i].target) =>
                                   Kept(reducer, f, reports[i].began)
       PROVE  Kept(s, f, 0)
  <2>1. CASE \A i \in Pending : f \notin FilesOf(reports[i].target)
    BY <1>8, <1>12, <1>15, <2>1
  <2>2. CASE \E i \in Pending : f \in FilesOf(reports[i].target)
    <3>1. 1 \in Pending /\ f \in FilesOf(reports[1].target)
      BY <1>14, <2>2
    <3>2. PICK b \in Nat : b = reports[1].began
      BY <1>14, <3>1
    <3>3. Kept(reducer, f, b) /\ b <= reducer.generation /\ 0 <= b
      BY <1>14, <1>15, <3>1, <3>2
    <3>4. \A i \in Pending : reports[i].began <= b
      BY <1>14, <3>2
    <3>5. Kept(s, f, b)
      BY <1>12, <3>3, <3>4
    <3> QED BY <1>7, <3>3, <3>5, KeptSince
  <2> QED BY <2>1, <2>2
<1>16. ShownGuarded'
  <2> SUFFICES ASSUME shown # None, NEW f \in File \ blind, shown[f] # disk[f]
               PROVE  Unheard(f)' \/ Kept(s, f, 0)
    BY <1>1, <1>3 DEF ShownGuarded
  <2>1. Unheard(f) \/ Kept(reducer, f, 0)
    BY DEF IInv, ShownGuarded
  <2>2. \A i \in Pending : f \in FilesOf(reports[i].target) =>
          Unheard(f) \/ Kept(reducer, f, reports[i].began) \/ ~ reducer.healthy
    BY DEF IInv, CreditGuarded
  <2> QED BY <1>11, <1>13, <1>15, <2>1, <2>2
<1>17. ASSUME load # None, NEW f \in File, Told(f) \/ Kept(reducer, f, load.began)
       PROVE  Kept(s, f, load.began)
  <2>1. load.began \in Nat /\ load.began <= reducer.generation
    BY <1>8, <1>17, LoadType DEF IInv, Dated, Typed
  <2>2. \A i \in Pending : reports[i].began <= load.began
    BY <1>14, <1>17 DEF IInv, Dated
  <2> QED BY <1>10, <1>12, <1>17, <2>1, <2>2
<1>18. LoadGuarded'
  <2> SUFFICES ASSUME load # None, NEW f \in DOMAIN load.read \ blind,
                      load.read[f] \notin {None, disk[f]}
               PROVE  Kept(s, f, load.began)
    BY <1>1, <1>3 DEF LoadGuarded
  <2>1. f \in File
    BY LoadType DEF IInv
  <2>2. Told(f) \/ Kept(reducer, f, load.began)
    BY DEF IInv, LoadGuarded
  <2> QED BY <1>17, <2>1, <2>2
<1>19. BodyGuarded'
  <2> SUFFICES ASSUME BodyStale
               PROVE  IF load # None THEN Kept(s, content.file, load.began)
                      ELSE Unheard(content.file)' \/ Kept(s, content.file, 0)
    BY <1>1, <1>3, <1>9 DEF BodyGuarded, BodyStale
  <2>1. content.file \in File
    BY BodyType DEF IInv, BodyStale
  <2>2. CASE load # None
    <3>1. Told(content.file) \/ Kept(reducer, content.file, load.began)
      BY <2>2 DEF IInv, BodyGuarded
    <3> QED BY <1>17, <2>1, <2>2, <3>1
  <2>3. CASE load = None
    <3>1. \/ Unheard(content.file) \/ ~ reducer.healthy
          \/ /\ Kept(reducer, content.file, 0)
             /\ \A i \in Pending : Kept(reducer, content.file, reports[i].began)
      BY <2>3 DEF IInv, BodyGuarded
    <3>2. PICK f \in File : f = content.file /\ f = content'.file
      BY <1>1, <2>1
    <3>3. CASE Unheard(f)
      BY <1>11, <2>3, <3>2, <3>3
    <3>4. CASE ~ reducer.healthy
      BY <1>13, <2>3, <3>2, <3>4
    <3>5. CASE Kept(reducer, f, 0) /\ \A i \in Pending : Kept(reducer, f, reports[i].began)
      <4>1. Kept(s, f, 0)
        BY <1>15, <3>5
      <4> QED BY <2>3, <3>2, <4>1
    <3> QED BY <3>1, <3>2, <3>3, <3>4, <3>5
  <2> QED BY <2>2, <2>3
<1>20. CreditGuarded'
  BY <1>9 DEF CreditGuarded
<1>21. OffIsTold'
  BY <1>1, <1>3, <1>5, <1>7 DEF IInv, OffIsTold
<1>22. Typed' /\ Versioned'
  <2>1. <<>> \in Seq(Observation) /\ <<>> \in Seq(Report)
    OBVIOUS
  <2> QED BY <1>1, <2>1 DEF IInv, Typed, Versioned
<1>23. Dated'
  <2>1. observed' <= reducer'.generation
    <3>1. observed \in Nat /\ observed <= reducer.generation
      BY DEF IInv, Typed, Dated
    <3> QED BY <1>1, <1>3, <1>8, <3>1
  <2> QED BY <1>1, <1>9, <2>1 DEF IInv, Dated
<1>24. Reported'
  <2>1. load' # None => reducer'.started = Of(load')
    BY <1>1, <1>3, <1>5, <1>7 DEF Later
  <2>2. Len(reports') = 0 /\ 0 <= 2 /\ 0 # 2
    BY <1>1
  <2>3. \A i \in Pending' : FALSE
    BY <1>9
  <2>4. Len(reports') <= 2 /\ Len(reports') # 2 /\ phase' # "key" /\ reports' = <<>>
    BY <1>1, <2>2
  <2> QED BY <2>1, <2>3, <2>4 DEF Reported
<1> QED BY <1>3, <1>7, <1>16, <1>18, <1>19, <1>20, <1>21, <1>22, <1>23, <1>24 DEF IInv

-----------------------------------------------------------------------------
\* What the first attempt to observe came to.
LEMMA NewReducerMeans ==
  ASSUME NEW healthy \in BOOLEAN, NEW s, s = NewReducer(healthy)
  PROVE  Sound(s) /\ s.healthy = healthy
<1>1. Fresh \in Reducer
  BY DEF Fresh, Reducer, NoRefresh, Scope
<1>2. Sound(Fresh)
  BY <1>1 DEF Fresh, Sound, WellFormed
<1> QED BY <1>2, HealthMeans DEF NewReducer

\* It holds when the workbench opens.
LEMMA InitHolds == Init => IInv
<1> SUFFICES ASSUME Init PROVE IInv
  OBVIOUS
<1>1. /\ disk = [f \in File |-> 0] /\ watch \in {"on", "off"} /\ channel = <<>>
      /\ phase = "watch" /\ reducer = NewReducer(watch = "on") /\ observed = reducer.generation
      /\ reports = <<[what |-> "started", generation |-> 1, target |-> Whole, began |-> observed]>>
      /\ known = FALSE /\ load = Begun(1, Whole, observed) /\ content = None
      /\ loads = 1 /\ shown = None /\ blind = {}
  BY DEF Init
<1>2. Sound(reducer) /\ reducer.healthy = (watch = "on")
  BY <1>1, NewReducerMeans
<1>3. observed \in Nat /\ observed = reducer.generation
  BY <1>1, <1>2 DEF Sound, WellFormed, Reducer
<1>4. Whole \in Scope
  BY DEF Scope
<1>5. /\ load.generation = 1 /\ load.target = Whole /\ load.began = observed
      /\ load.read = [f \in FilesOf(Whole) |-> None] /\ load \in Loading(Whole)
  BY <1>1, <1>3, <1>4 DEF Begun, Loading
<1>6. load # None
  BY <1>4, <1>5, TerminalAssumption
<1>7. /\ reports \in Seq(Report) /\ Len(reports) = 1 /\ reports[1] = StartOf(load)
      /\ reports # <<>> /\ DOMAIN reports = {1} /\ reports[1].what = "started"
  <2> DEFINE report == [what |-> "started", generation |-> 1, target |-> Whole, began |-> observed]
  <2>1. report \in Report
    BY <1>3, <1>4 DEF Report
  <2>2. report = StartOf(load) /\ report.what = "started"
    BY <1>5 DEF StartOf
  <2> HIDE DEF report
  <2>3. reports = <<report>>
    BY <1>1 DEF report
  <2> QED BY <2>1, <2>2, <2>3
<1>8. Pending = {}
  BY <1>7 DEF Pending
<1>9. Typed
  <2>1. disk \in [File -> Nat] /\ channel \in Seq(Observation) /\ loads \in Nat
    BY <1>1
  <2>2. known \in BOOLEAN
    BY <1>1, Zenon
  <2>3. load = None \/ \E target \in Scope : load \in Loading(target)
    BY <1>4, <1>5
  <2> QED BY <1>1, <1>3, <1>7, <2>1, <2>3, <2>2 DEF Typed
<1>10. Versioned
  BY <1>1, <1>5 DEF Versioned
<1>11. Dated
  <2>1. observed <= reducer.generation /\ load.began <= observed
    BY <1>3, <1>5
  <2> QED BY <1>1, <1>3, <1>8, <2>1 DEF Dated
<1>12. Reported
  BY <1>1, <1>7, <1>8 DEF Reported
<1>13. OffIsTold
  BY <1>1, <1>2 DEF OffIsTold
<1>14. ShownGuarded /\ LoadGuarded /\ CreditGuarded /\ BodyGuarded
  BY <1>1, <1>5 DEF ShownGuarded, LoadGuarded, CreditGuarded, BodyGuarded, BodyStale
<1> QED BY <1>2, <1>9, <1>10, <1>11, <1>12, <1>13, <1>14 DEF IInv

\* The invariant is about every variable but the counters and the adapter's retry.
LEMMA StutterKeeps == IInv /\ UNCHANGED vars => IInv'
<1> SUFFICES ASSUME IInv, UNCHANGED vars PROVE IInv'
  OBVIOUS
<1>1. /\ UNCHANGED <<uiVars, load, content, disk, watch, channel, blind>>
  BY DEF vars, uiVars
<1>2. \A f : (Told(f) <=> Told(f)') /\ (Unheard(f) <=> Unheard(f)')
  BY <1>1, SilenceMeans
<1>3. Typed' /\ Versioned' /\ OffIsTold'
  BY <1>1 DEF IInv, Typed, Versioned, OffIsTold, uiVars
<1> QED BY <1>1, <1>2, <1>3, OutsideKeeps

\* IInv is inductive.
LEMMA NextKeeps == IInv /\ [Next]_vars => IInv'
<1> SUFFICES ASSUME IInv, [Next]_vars PROVE IInv'
  OBVIOUS
<1>1. CASE \E f \in File : Edits(f)
  BY <1>1, EditsKeeps
<1>2. CASE \E f \in File : EditsUntold(f)
  BY <1>2, EditsUntoldKeeps
<1>3. CASE \E f \in File : LoadReads(f)
  BY <1>3, LoadReadsKeeps
<1>4. CASE Idles \/ \E f \in File : FetchesContent(f)
  BY <1>4, KeysKeep
<1>5. CASE LosesRoot \/ LosesWatch \/ NoticesLoss \/ Rewatches
  BY <1>5, AdapterKeeps
<1>6. CASE LoadsCatalogue \/ LoadFails
  BY <1>6, StepsKeep
<1>7. CASE ContentReads
  BY <1>7, ContentReadsKeeps
<1>8. CASE Watches
  BY <1>8, WatchesKeeps
<1>9. CASE Coordinates
  BY <1>9, CoordinatesKeeps
<1>10. CASE \E target \in Scope : Refreshes(target)
  BY <1>10, RefreshesKeeps
<1>11. CASE UNCHANGED vars
  BY <1>11, StutterKeeps
<1> QED BY <1>1, <1>2, <1>3, <1>4, <1>5, <1>6, <1>7, <1>8, <1>9, <1>10, <1>11 DEF Next

\* So it always holds.
LEMMA Invariant == Spec => []IInv
<1>1. Init => IInv
  BY InitHolds
<1>2. IInv /\ [Next]_vars => IInv'
  BY NextKeeps
<1> QED BY <1>1, <1>2, PTL DEF Spec

\* A record that guards a file warns in every view the file is seen in.
LEMMA GuardsWarns ==
  ASSUME NEW f \in File, NEW view \in Views(f), NEW old, Guards(old, f)
  PROVE  WarnsOf(view, old)
<1>1. view \in Scope /\ f \in FilesOf(view) /\ ~ old.cleared /\ old.impact \in {Whole, ScopeOf[f]}
  BY DEF Views, Guards
<1>2. CASE old.impact = Whole \/ view = Whole
  BY <1>2 DEF WarnsOf
<1>3. CASE old.impact = ScopeOf[f] /\ view # Whole /\ view \in Project
  BY <1>1, <1>3 DEF WarnsOf, FilesOf
<1>4. CASE old.impact = ScopeOf[f] /\ view # Whole /\ view \notin Project
  <2>1. view \in Investigation /\ old.impact = view
    BY <1>1, <1>4 DEF FilesOf, Scope
  <2> QED BY <1>1, <2>1 DEF WarnsOf, Overlapping
<1> QED BY <1>1, <1>2, <1>3, <1>4

-----------------------------------------------------------------------------
\* What the program keeps has its type: there is one record of each kind, and no version is shown
\* that was never in the file (Terminal.TypeOK).
THEOREM TerminalTypes == Spec => []TypeOK
<1>1. IInv => TypeOK
  <2> SUFFICES ASSUME IInv PROVE TypeOK
    OBVIOUS
  <2>1. shown = None \/ (DOMAIN shown = File /\ \A f \in File : shown[f] \in 0..disk[f])
    <3> SUFFICES ASSUME shown # None
                 PROVE  DOMAIN shown = File /\ \A f \in File : shown[f] \in 0..disk[f]
      OBVIOUS
    <3>1. shown \in [File -> Nat] /\ disk \in [File -> Nat] /\ \A f \in File : shown[f] <= disk[f]
      BY DEF IInv, Typed, Versioned
    <3> QED BY <3>1
  <2> QED BY <2>1 DEF IInv, Typed, Dated, TypeOK, Sound, WellFormed, Reducer
<1> QED BY <1>1, Invariant, PTL

\* What is shown and is no longer what the file says is warned of in every view the file is seen
\* in, as soon as the interface has heard of the change, unless the file changed unobserved while
\* a load was under way: whatever refreshes completed, failed or were dropped in between, and
\* however often the observation was lost and found again (watching.rs, FreshnessReducer).
THEOREM StaleIsAlwaysWarned == Spec => []StaleIsWarnedUnlessBlind
<1>1. IInv => StaleIsWarnedUnlessBlind
  <2> SUFFICES ASSUME IInv, shown # None, NEW f \in File \ blind,
                      shown[f] # disk[f], ~ Unheard(f), NEW view \in Views(f)
               PROVE  Warned(reducer, view)
    BY DEF StaleIsWarnedUnlessBlind
  <2>1. Kept(reducer, f, 0)
    BY DEF IInv, ShownGuarded
  <2> QED BY <2>1, GuardsWarns DEF Kept, Warned
<1> QED BY <1>1, Invariant, PTL

\* A refresh of the whole store that began on the last observation, and ended well while the
\* observation held, leaves no warning: that of a lost observation neither
\* (watching.rs, FreshnessReducer::report).
THEOREM RefreshClears == Spec => RefreshClearsWarnings
<1>1. ASSUME IInv, [Next]_vars, phase = "watch", reports # <<>>,
             Last(reports).what = "succeeded", Last(reports).target = Whole,
             Last(reports).began = reducer.generation,
             channel = <<>>, reducer.healthy, phase' = "coordinate"
      PROVE  reducer'.records = {}
  <2>1. Watches
    <3>1. \/ phase' = phase \/ Watches \/ phase' \in {"key", "watch"}
      BY <1>1 DEF Next, vars, uiVars, Edits, EditsUntold, LosesRoot, LosesWatch, NoticesLoss,
                  Rewatches, LoadReads, LoadsCatalogue, LoadFails, ContentReads, FetchesContent,
                  Coordinates, Refreshes, Idles
    <3> QED BY <1>1, <3>1
  <2>2. /\ reports \in Seq(Report) /\ Len(reports) <= 2 /\ Len(reports) \in Nat
        /\ Len(reports) # 0 /\ Last(reports) = reports[Len(reports)]
    BY <1>1 DEF IInv, Typed, Reported, Last
  <2>3. Len(reports) = 1
    <3>1. Len(reports) # 2
      BY <1>1, <2>2 DEF IInv, Reported
    <3>2. \A n \in Nat : n <= 2 /\ n # 0 /\ n # 2 => n = 1
      OBVIOUS
    <3> QED BY <2>2, <3>1, <3>2
  <2>4. 1 \in Pending /\ reports[1].target = Whole /\ reports[1].began = reducer.generation
    BY <1>1, <2>2, <2>3 DEF Pending
  <2>5. /\ reducer.started = Of(reports[1]) /\ reports[1].ended = reducer.generation
    BY <1>1, <2>4 DEF IInv, Reported, Dated
  <2>6. reducer.generation \in Nat
    BY <1>1 DEF IInv, Sound, WellFormed, Reducer
  <2>7. reducer' = ByReport(reducer, reports[1])
    <3>1. ByReports(reducer, reports) = ByReport(reducer, reports[1])
      BY <2>2, <2>3, ReportsUnfold
    <3>2. Sound(ByReports(reducer, reports))
      BY <1>1, ReportsMean
    <3>3. channel \in Seq(Observation) /\ known \in BOOLEAN
      BY <1>1 DEF IInv, Typed
    <3>4. ByObservations(ByReports(reducer, reports), channel) = ByReports(reducer, reports)
      BY <1>1, <3>2, <3>3, ObservationsMean
    <3> QED BY <2>1, <3>1, <3>4 DEF Watches
  <2>8. ByReport(reducer, reports[1])
          = Succeeded(reducer, reports[1].generation, Whole, reducer.generation, reducer.generation)
    BY <2>4, <2>5 DEF ByReport, Pending
  <2>9. ~ (reducer.generation < reducer.generation)
    BY <2>6
  <2>10. reducer' = [Failed(reducer, reports[1].generation) EXCEPT
                       !.records = Remaining(reducer, Whole, reducer.generation)]
    BY <2>4, <2>5, <2>7, <2>8, <2>9 DEF Succeeded, ChangedMeanwhile, Of
  <2>11. Remaining(reducer, Whole, reducer.generation) = {}
    BY <1>1 DEF Remaining, Settles, IInv, Sound, WellFormed
  <2>12. reducer \in Reducer
    BY <1>1 DEF IInv, Sound, WellFormed
  <2>13. "records" \in DOMAIN Failed(reducer, reports[1].generation)
    BY <2>12 DEF Failed, Reducer
  <2> QED BY <2>10, <2>11, <2>13
<1> QED BY <1>1, Invariant, PTL DEF RefreshClearsWarnings, Spec

-----------------------------------------------------------------------------
(* The lists of the browser. *)

AllPaths == Browse!Range(Paths)

ScopeOrNone == Browse!Scopes \cup {None}

(* A path is in a scope or in none. *)
LEMMA ScopeType ==
  ASSUME Browse!BrowsingAssumption, NEW roots, NEW p \in AllPaths
  PROVE  Browse!ScopeIn(roots, p) \in ScopeOrNone
<1> DEFINE folders == FoldersOf[p]
           inside == { n \in DOMAIN folders : folders[n] \in roots[PlaceOf[p]] }
           first == CHOOSE n \in inside : \A m \in inside : n <= m
<1>1. /\ PlaceOf[p] \in Browse!Range(Projects)
      /\ folders \in Seq(Browse!Range(Investigations))
  BY DEF Browse!BrowsingAssumption, AllPaths
<1>2. inside # {} => folders[first] \in Browse!Range(Investigations)
  <2> SUFFICES ASSUME inside # {} PROVE folders[first] \in Browse!Range(Investigations)
    OBVIOUS
  <2>1. inside \subseteq Nat
    BY <1>1
  <2>2. PICK n \in inside : \A m \in inside : ~ (<<m, n>> \in OpToRel(<, Nat))
    <3> HIDE DEF inside
    <3> QED BY <2>1, NatLessThanWellFounded, WFMin, Zenon
  <2>3. \A m \in inside : n <= m
    <3> HIDE DEF inside, first
    <3>1. ASSUME NEW m \in inside PROVE ~ (m < n)
      <4>1. <<m, n>> \notin OpToRel(<, Nat)
        BY <2>2
      <4>2. m \in Nat /\ n \in Nat
        BY <2>1
      <4> QED BY <4>1, <4>2 DEF OpToRel
    <3> QED BY <2>1, <3>1
  <2>4. first \in inside
    <3> HIDE DEF inside
    <3> QED BY <2>3
  <2>5. first \in DOMAIN folders
    <3> HIDE DEF first
    <3> QED BY <2>4
  <2> HIDE DEF first, folders
  <2> QED BY <1>1, <2>5
<1>3. Browse!ScopeIn(roots, p) =
        IF PlaceOf[p] \notin DOMAIN roots THEN None
        ELSE <<PlaceOf[p], IF inside = {} THEN None ELSE folders[first]>>
  BY DEF Browse!ScopeIn
<1> HIDE DEF inside, first, folders
<1> QED BY <1>1, <1>2, <1>3 DEF Browse!Scopes, ScopeOrNone

(* There are finitely many paths. *)
LEMMA PathsFinite ==
  ASSUME Browse!BrowsingAssumption PROVE IsFiniteSet(AllPaths)
<1>1. Paths \in Seq(AllPaths) /\ AllPaths = { Paths[n] : n \in DOMAIN Paths }
  BY DEF Browse!BrowsingAssumption, AllPaths, Browse!Range
<1>2. \A p \in AllPaths : \E n \in 1 .. Len(Paths) : Paths[n] = p
  BY <1>1
<1> QED BY <1>1, <1>2 DEF IsFiniteSet

(* What lists say of an entry. *)
FactOK(fact) == fact.scope \in ScopeOrNone /\ fact.work \in BOOLEAN

FactsOK(facts) ==
  /\ facts = [p \in DOMAIN facts |-> facts[p]]
  /\ IsFiniteSet(DOMAIN facts)
  /\ \A p \in DOMAIN facts : FactOK(facts[p])

(* One more of a kind, or one less. *)
LEMMA CountPut ==
  ASSUME NEW facts, FactsOK(facts), NEW p, p \notin DOMAIN facts, NEW fact, NEW S, NEW T,
         S \subseteq DOMAIN facts, T \in {S, S \cup {p}}
  PROVE  /\ IsFiniteSet(T) /\ Cardinality(S) \in Nat
         /\ Cardinality(T) = IF p \in T THEN Cardinality(S) + 1 ELSE Cardinality(S)
<1>1. IsFiniteSet(S)
  BY FS_Subset DEF FactsOK
<1> QED BY <1>1, FS_AddElement, FS_CardinalityType

LEMMA CountDrop ==
  ASSUME NEW facts, FactsOK(facts), NEW p, p \in DOMAIN facts, NEW S, NEW T,
         S \subseteq DOMAIN facts, T = S \ {p}
  PROVE  /\ IsFiniteSet(T) /\ Cardinality(S) \in Nat
         /\ Cardinality(T) = IF p \in S THEN Cardinality(S) - 1 ELSE Cardinality(S)
<1>1. IsFiniteSet(S)
  BY FS_Subset DEF FactsOK
<1> QED BY <1>1, FS_RemoveElement, FS_CardinalityType

LEMMA PutMeans ==
  ASSUME NEW f, NEW k, NEW value
  PROVE  /\ DOMAIN Browse!Put(f, k, value) = DOMAIN f \cup {k}
         /\ Browse!Put(f, k, value)[k] = value
         /\ \A x \in DOMAIN f : x # k => Browse!Put(f, k, value)[x] = f[x]
         /\ Browse!Put(f, k, value) =
              [x \in DOMAIN Browse!Put(f, k, value) |-> Browse!Put(f, k, value)[x]]
  BY DEF Browse!Put

LEMMA DropMeans ==
  ASSUME NEW f, NEW keys
  PROVE  /\ DOMAIN Browse!Drop(f, keys) = DOMAIN f \ keys
         /\ \A x \in DOMAIN f \ keys : Browse!Drop(f, keys)[x] = f[x]
         /\ Browse!Drop(f, keys) =
              [x \in DOMAIN Browse!Drop(f, keys) |-> Browse!Drop(f, keys)[x]]
  BY DEF Browse!Drop, Browse!Restrict

(* The tally of one fact more is counted up. *)
LEMMA TallyPut ==
  ASSUME NEW facts, FactsOK(facts), NEW p, p \notin DOMAIN facts, NEW fact, FactOK(fact),
         None \notin Browse!Scopes
  PROVE  Browse!TallyOf(Browse!Put(facts, p, fact))
           = Browse!Counted(Browse!TallyOf(facts), fact, 1)
<1> DEFINE later == Browse!Put(facts, p, fact)
           Kind(f, k) == { q \in DOMAIN f : f[q].scope = k[1] /\ f[q].work = k[2] }
           keys == Browse!Scopes \X BOOLEAN
<1>1. /\ DOMAIN later = DOMAIN facts \cup {p} /\ later[p] = fact
      /\ \A q \in DOMAIN facts : later[q] = facts[q]
  BY DEF Browse!Put
<1> HIDE DEF later
<1>2. ASSUME NEW k \in keys
      PROVE  Cardinality(Kind(later, k)) =
               IF fact.scope = k[1] /\ fact.work = k[2] THEN Cardinality(Kind(facts, k)) + 1
               ELSE Cardinality(Kind(facts, k))
  <2>1. /\ Kind(facts, k) \subseteq DOMAIN facts
        /\ Kind(later, k) = IF fact.scope = k[1] /\ fact.work = k[2]
                            THEN Kind(facts, k) \cup {p} ELSE Kind(facts, k)
    BY <1>1
  <2>2. p \notin Kind(facts, k) /\ Kind(later, k) \in {Kind(facts, k), Kind(facts, k) \cup {p}}
    BY <2>1
  <2> HIDE DEF Kind
  <2>3. Cardinality(Kind(later, k)) =
          IF p \in Kind(later, k) THEN Cardinality(Kind(facts, k)) + 1
          ELSE Cardinality(Kind(facts, k))
    BY <2>1, <2>2, CountPut
  <2> QED BY <2>1, <2>2, <2>3
<1>3. /\ Browse!TallyOf(later) = [k \in keys |-> Cardinality(Kind(later, k))]
      /\ Browse!TallyOf(facts) = [k \in keys |-> Cardinality(Kind(facts, k))]
  BY DEF Browse!TallyOf, Browse!Cardinality, Cardinality
<1> HIDE DEF Kind
<1>4. Browse!TallyOf(facts) \in [keys -> {Cardinality(Kind(facts, k)) : k \in keys}]
  BY <1>3
<1>5. CASE fact.scope = None
  <2>1. \A k \in keys : k[1] # fact.scope
    BY <1>5
  <2>2. Browse!TallyOf(later) = Browse!TallyOf(facts)
    BY <1>2, <1>3, <2>1
  <2> QED BY <1>5, <2>2 DEF Browse!Counted, later
<1>6. CASE fact.scope # None
  <2> DEFINE one == <<fact.scope, fact.work>>
  <2>1. one \in keys
    BY <1>6 DEF FactOK, ScopeOrNone
  <2>2. \A k \in keys : k = one <=> fact.scope = k[1] /\ fact.work = k[2]
    OBVIOUS
  <2> HIDE DEF keys, one
  <2>3. Browse!TallyOf(later) =
          [Browse!TallyOf(facts) EXCEPT ![one] = Browse!TallyOf(facts)[one] + 1]
    BY <1>2, <1>3, <2>1, <2>2
  <2> QED BY <1>6, <2>3 DEF Browse!Counted, later, one
<1> QED BY <1>5, <1>6

(* And that of one less is counted down. *)
LEMMA TallyDrop ==
  ASSUME NEW facts, FactsOK(facts), NEW p \in DOMAIN facts, None \notin Browse!Scopes
  PROVE  Browse!TallyOf(Browse!Drop(facts, {p})) =
           Browse!Counted(Browse!TallyOf(facts), facts[p], -1)
<1> DEFINE later == Browse!Drop(facts, {p})
           fact == facts[p]
           one == <<fact.scope, fact.work>>
           Kind(f, k) == { q \in DOMAIN f : f[q].scope = k[1] /\ f[q].work = k[2] }
           keys == Browse!Scopes \X BOOLEAN
<1>1. /\ DOMAIN later = DOMAIN facts \ {p}
      /\ \A q \in DOMAIN later : later[q] = facts[q]
  BY DEF Browse!Drop, Browse!Restrict
<1> HIDE DEF later
<1>2. ASSUME NEW k \in keys
      PROVE  Cardinality(Kind(later, k)) =
               IF fact.scope = k[1] /\ fact.work = k[2] THEN Cardinality(Kind(facts, k)) - 1
               ELSE Cardinality(Kind(facts, k))
  <2>1. /\ Kind(facts, k) \subseteq DOMAIN facts
        /\ Kind(later, k) = Kind(facts, k) \ {p}
        /\ p \in Kind(facts, k) <=> fact.scope = k[1] /\ fact.work = k[2]
    BY <1>1
  <2> HIDE DEF Kind
  <2>2. Cardinality(Kind(later, k)) =
          IF p \in Kind(facts, k) THEN Cardinality(Kind(facts, k)) - 1
          ELSE Cardinality(Kind(facts, k))
    BY <2>1, CountDrop
  <2> QED BY <2>1, <2>2
<1>3. /\ Browse!TallyOf(later) = [k \in keys |-> Cardinality(Kind(later, k))]
      /\ Browse!TallyOf(facts) = [k \in keys |-> Cardinality(Kind(facts, k))]
  BY DEF Browse!TallyOf, Browse!Cardinality, Cardinality
<1>4. FactOK(fact)
  BY DEF FactsOK
<1> HIDE DEF Kind, fact
<1>5. CASE fact.scope = None
  <2>1. \A k \in keys : k[1] # fact.scope
    BY <1>5
  <2>2. Browse!TallyOf(later) = Browse!TallyOf(facts)
    BY <1>2, <1>3, <2>1
  <2> QED BY <1>5, <2>2 DEF Browse!Counted, later, fact
<1>6. CASE fact.scope # None
  <2>1. one \in keys
    BY <1>4, <1>6 DEF FactOK, ScopeOrNone
  <2>2. \A k \in keys : k = one <=> fact.scope = k[1] /\ fact.work = k[2]
    OBVIOUS
  <2> HIDE DEF keys, one
  <2>3. Browse!TallyOf(later) =
          [Browse!TallyOf(facts) EXCEPT ![one] = Browse!TallyOf(facts)[one] + -1]
    <3>1. \A k \in keys : Cardinality(Kind(facts, k)) - 1 = Cardinality(Kind(facts, k)) + -1
      OBVIOUS
    <3> QED BY <1>2, <1>3, <2>1, <2>2, <3>1
  <2> QED BY <1>6, <2>3 DEF Browse!Counted, later, one, fact
<1> QED BY <1>5, <1>6

(* So are the matches of a needle. *)
LEMMA HitsPut ==
  ASSUME NEW facts, FactsOK(facts), NEW p, p \notin DOMAIN facts, NEW fact, FactOK(fact),
         None \notin Browse!Scopes,
         NEW hits, NEW needle, hits # None, hits = Browse!HitsOf(facts, needle)
  PROVE  Browse!Found(hits, p, fact) = Browse!HitsOf(Browse!Put(facts, p, fact), needle)
<1> DEFINE later == Browse!Put(facts, p, fact)
           Match(f) == { q \in DOMAIN f : f[q].title = needle }
           In(f, s) == { q \in Match(f) : f[q].scope = s }
<1>1. /\ DOMAIN later = DOMAIN facts \cup {p} /\ later[p] = fact
      /\ \A q \in DOMAIN facts : later[q] = facts[q]
  BY DEF Browse!Put
<1>2. \A f : Browse!HitsOf(f, needle) =
        [needle |-> needle, paths |-> Match(f),
         scopes |-> [s \in Browse!Scopes |-> Cardinality(In(f, s))]]
  BY DEF Browse!HitsOf, Browse!Cardinality, Cardinality
<1>3. /\ hits.needle = needle /\ hits.paths = Match(facts)
      /\ hits.scopes = [s \in Browse!Scopes |-> Cardinality(In(facts, s))]
      /\ DOMAIN hits = {"needle", "paths", "scopes"}
  <2> HIDE DEF Match, In
  <2> QED BY <1>2
<1> HIDE DEF later
<1>4. Match(later) = IF fact.title = needle THEN Match(facts) \cup {p} ELSE Match(facts)
  BY <1>1
<1>5. ASSUME NEW s \in Browse!Scopes
      PROVE  Cardinality(In(later, s)) =
               IF fact.title = needle /\ fact.scope = s THEN Cardinality(In(facts, s)) + 1
               ELSE Cardinality(In(facts, s))
  <2>1. /\ In(facts, s) \subseteq DOMAIN facts /\ p \notin In(facts, s)
        /\ In(later, s) = IF fact.title = needle /\ fact.scope = s
                          THEN In(facts, s) \cup {p} ELSE In(facts, s)
    BY <1>1
  <2> HIDE DEF In, Match
  <2>2. In(later, s) \in {In(facts, s), In(facts, s) \cup {p}}
    BY <2>1
  <2>3. Cardinality(In(later, s)) =
          IF p \in In(later, s) THEN Cardinality(In(facts, s)) + 1
          ELSE Cardinality(In(facts, s))
    BY <2>1, <2>2, CountPut, ZenonT(30)
  <2> QED BY <2>1, <2>3
<1> HIDE DEF In, Match
<1>6. Browse!HitsOf(later, needle) =
        [needle |-> needle, paths |-> Match(later),
         scopes |-> [s \in Browse!Scopes |-> Cardinality(In(later, s))]]
  BY <1>2
<1>7. CASE fact.title # needle
  <2>1. Browse!HitsOf(later, needle) = hits
    BY <1>2, <1>4, <1>5, <1>6, <1>7
  <2> QED BY <1>3, <1>7, <2>1 DEF Browse!Found, later
<1>8. CASE fact.title = needle
  <2> DEFINE scopes == Browse!CountedIn(hits.scopes, fact.scope, 1)
  <2>1. [s \in Browse!Scopes |-> Cardinality(In(later, s))] = scopes
    BY <1>3, <1>5, <1>8 DEF FactOK, ScopeOrNone, Browse!CountedIn
  <2>2. Browse!Found(hits, p, fact) =
          [hits EXCEPT !.paths = hits.paths \cup {p}, !.scopes = scopes]
    BY <1>3, <1>8 DEF Browse!Found
  <2>3. Browse!HitsOf(later, needle) =
          [needle |-> hits.needle, paths |-> hits.paths \cup {p}, scopes |-> scopes]
    BY <1>3, <1>4, <1>6, <1>8, <2>1
  <2> HIDE DEF scopes
  <2>4. hits = [needle |-> hits.needle, paths |-> hits.paths, scopes |-> hits.scopes]
    BY <1>2
  <2> QED BY <1>3, <2>2, <2>3, <2>4 DEF later
<1> QED BY <1>7, <1>8

LEMMA HitsDrop ==
  ASSUME NEW facts, FactsOK(facts), NEW p \in DOMAIN facts, None \notin Browse!Scopes,
         NEW hits, NEW needle, hits # None, hits = Browse!HitsOf(facts, needle)
  PROVE  Browse!Lost(hits, p, facts[p]) = Browse!HitsOf(Browse!Drop(facts, {p}), needle)
<1> DEFINE later == Browse!Drop(facts, {p})
           fact == facts[p]
           Match(f) == { q \in DOMAIN f : f[q].title = needle }
           In(f, s) == { q \in Match(f) : f[q].scope = s }
<1>1. /\ DOMAIN later = DOMAIN facts \ {p}
      /\ \A q \in DOMAIN later : later[q] = facts[q]
  BY DEF Browse!Drop, Browse!Restrict
<1>2. \A f : Browse!HitsOf(f, needle) =
        [needle |-> needle, paths |-> Match(f),
         scopes |-> [s \in Browse!Scopes |-> Cardinality(In(f, s))]]
  BY DEF Browse!HitsOf, Browse!Cardinality, Cardinality
<1>3. /\ hits.needle = needle /\ hits.paths = Match(facts)
      /\ hits.scopes = [s \in Browse!Scopes |-> Cardinality(In(facts, s))]
      /\ DOMAIN hits = {"needle", "paths", "scopes"}
  <2> HIDE DEF Match, In
  <2> QED BY <1>2
<1>4. FactOK(fact) /\ (p \in Match(facts) <=> fact.title = needle)
  BY DEF FactsOK
<1> HIDE DEF later, fact
<1>5. Match(later) = Match(facts) \ {p}
  BY <1>1
<1>6. ASSUME NEW s \in Browse!Scopes
      PROVE  Cardinality(In(later, s)) =
               IF fact.title = needle /\ fact.scope = s THEN Cardinality(In(facts, s)) + -1
               ELSE Cardinality(In(facts, s))
  <2>1. /\ In(facts, s) \subseteq DOMAIN facts /\ In(later, s) = In(facts, s) \ {p}
        /\ p \in In(facts, s) <=> fact.title = needle /\ fact.scope = s
    BY <1>1 DEF fact
  <2> HIDE DEF In, Match
  <2>2. /\ Cardinality(In(facts, s)) \in Nat
        /\ Cardinality(In(later, s)) =
             IF p \in In(facts, s) THEN Cardinality(In(facts, s)) - 1
             ELSE Cardinality(In(facts, s))
    BY <2>1, CountDrop
  <2> QED BY <2>1, <2>2
<1> HIDE DEF In, Match
<1>7. Browse!HitsOf(later, needle) =
        [needle |-> needle, paths |-> Match(later),
         scopes |-> [s \in Browse!Scopes |-> Cardinality(In(later, s))]]
  BY <1>2
<1>8. CASE fact.title # needle
  <2>1. Match(later) = Match(facts)
    BY <1>4, <1>5, <1>8
  <2>2. Browse!HitsOf(later, needle) = hits
    BY <1>2, <1>6, <1>7, <1>8, <2>1
  <2> QED BY <1>3, <1>4, <1>8, <2>2 DEF Browse!Lost, later
<1>9. CASE fact.title = needle
  <2> DEFINE scopes == Browse!CountedIn(hits.scopes, fact.scope, -1)
  <2>1. [s \in Browse!Scopes |-> Cardinality(In(later, s))] = scopes
    BY <1>3, <1>4, <1>6, <1>9 DEF FactOK, ScopeOrNone, Browse!CountedIn
  <2>2. Browse!Lost(hits, p, fact) =
          [hits EXCEPT !.paths = hits.paths \ {p}, !.scopes = scopes]
    BY <1>3, <1>4, <1>9 DEF Browse!Lost
  <2>3. Browse!HitsOf(later, needle) =
          [needle |-> hits.needle, paths |-> hits.paths \ {p}, scopes |-> scopes]
    BY <1>3, <1>5, <1>7, <2>1
  <2> HIDE DEF scopes
  <2>4. hits = [needle |-> hits.needle, paths |-> hits.paths, scopes |-> hits.scopes]
    BY <1>2
  <2> QED BY <1>3, <2>2, <2>3, <2>4 DEF later, fact
<1> QED BY <1>8, <1>9

(* What an increment keeps. *)
Fields == {"roots", "at", "facts", "members", "tally", "hits"}

Consistent(lists) ==
  /\ lists = [k \in Fields |-> lists[k]]
  /\ FactsOK(lists.facts)
  /\ lists.at = [p \in DOMAIN lists.facts |-> lists.at[p]]
  /\ lists.members = Browse!MembersOf(lists.facts)
  /\ lists.tally = Browse!TallyOf(lists.facts)
  /\ lists.hits # None => lists.hits = Browse!HitsOf(lists.facts, lists.hits.needle)

LEMMA InsertedConsistent ==
  ASSUME NEW lists, Consistent(lists), NEW p, p \notin DOMAIN lists.facts,
         NEW fact, FactOK(fact), NEW i, None \notin Browse!Scopes
  PROVE  LET later == Browse!Inserted(lists, p, fact, i)
         IN  /\ Consistent(later) /\ later.roots = lists.roots
             /\ later.facts = Browse!Put(lists.facts, p, fact)
             /\ later.at = Browse!Put(lists.at, p, i)
<1> DEFINE later == Browse!Inserted(lists, p, fact, i)
           facts == Browse!Put(lists.facts, p, fact)
<1>1. DOMAIN lists = Fields
  BY DEF Consistent
<1>2. /\ later = [k \in Fields |-> later[k]]
      /\ later.roots = lists.roots
      /\ later.at = Browse!Put(lists.at, p, i)
      /\ later.facts = facts
      /\ later.members = IF fact.scope = None THEN lists.members
                         ELSE lists.members \cup {<<fact.scope, p>>}
      /\ later.tally = Browse!Counted(lists.tally, fact, 1)
      /\ later.hits = Browse!Found(lists.hits, p, fact)
  BY <1>1 DEF Browse!Inserted, Fields
<1> HIDE DEF later, facts
<1>3. /\ DOMAIN facts = DOMAIN lists.facts \cup {p} /\ facts[p] = fact
      /\ \A q \in DOMAIN lists.facts : facts[q] = lists.facts[q]
      /\ facts = [q \in DOMAIN facts |-> facts[q]]
  BY DEF Browse!Put, facts
<1>4. FactsOK(facts)
  <2>1. IsFiniteSet(DOMAIN lists.facts)
    BY DEF Consistent, FactsOK
  <2>2. IsFiniteSet(DOMAIN facts)
    BY <1>3, <2>1, FS_AddElement
  <2> QED BY <1>3, <2>2 DEF Consistent, FactsOK
<1>5. later.at = [q \in DOMAIN facts |-> later.at[q]]
  BY <1>2, <1>3 DEF Consistent, Browse!Put
<1>6. later.members = Browse!MembersOf(facts)
  <2>1. lists.members = Browse!MembersOf(lists.facts)
    BY DEF Consistent
  <2> QED BY <1>2, <1>3, <2>1 DEF Browse!MembersOf
<1>7. later.tally = Browse!TallyOf(facts)
  BY <1>2, TallyPut DEF Consistent, facts
<1>8. later.hits # None => later.hits = Browse!HitsOf(facts, later.hits.needle)
  <2> SUFFICES ASSUME later.hits # None
               PROVE  later.hits = Browse!HitsOf(facts, later.hits.needle)
    OBVIOUS
  <2>1. lists.hits # None
    BY <1>2 DEF Browse!Found
  <2>2. lists.hits = Browse!HitsOf(lists.facts, lists.hits.needle)
    BY <2>1 DEF Consistent
  <2>3. later.hits = Browse!HitsOf(facts, lists.hits.needle)
    BY <1>2, <2>1, <2>2, HitsPut DEF Consistent, facts
  <2>4. Browse!HitsOf(facts, lists.hits.needle).needle = lists.hits.needle
    BY DEF Browse!HitsOf
  <2> QED BY <2>3, <2>4
<1> QED BY <1>2, <1>4, <1>5, <1>6, <1>7, <1>8 DEF Consistent, later, facts

LEMMA RemovedConsistent ==
  ASSUME NEW lists, Consistent(lists), NEW p \in DOMAIN lists.facts, None \notin Browse!Scopes
  PROVE  LET later == Browse!Removed(lists, p)
         IN  /\ Consistent(later) /\ later.roots = lists.roots
             /\ later.facts = Browse!Drop(lists.facts, {p})
             /\ later.at = Browse!Drop(lists.at, {p})
<1> DEFINE later == Browse!Removed(lists, p)
           facts == Browse!Drop(lists.facts, {p})
           fact == lists.facts[p]
<1>1. DOMAIN lists = Fields
  BY DEF Consistent
<1>2. /\ later = [k \in Fields |-> later[k]]
      /\ later.roots = lists.roots
      /\ later.at = Browse!Drop(lists.at, {p})
      /\ later.facts = facts
      /\ later.members = lists.members \ {<<fact.scope, p>>}
      /\ later.tally = Browse!Counted(lists.tally, fact, -1)
      /\ later.hits = Browse!Lost(lists.hits, p, fact)
  BY <1>1 DEF Browse!Removed, Fields
<1>3. /\ DOMAIN facts = DOMAIN lists.facts \ {p}
      /\ \A q \in DOMAIN facts : facts[q] = lists.facts[q]
      /\ facts = [q \in DOMAIN facts |-> facts[q]]
  BY DEF Browse!Drop, Browse!Restrict
<1> HIDE DEF later, facts
<1>4. FactsOK(facts)
  <2>1. IsFiniteSet(DOMAIN lists.facts)
    BY DEF Consistent, FactsOK
  <2>2. IsFiniteSet(DOMAIN facts)
    BY <1>3, <2>1, FS_RemoveElement
  <2> QED BY <1>3, <2>2 DEF Consistent, FactsOK
<1>5. later.at = [q \in DOMAIN facts |-> later.at[q]]
  <2>1. DOMAIN lists.at = DOMAIN lists.facts
    BY DEF Consistent
  <2> QED BY <1>2, <1>3, <2>1 DEF Browse!Drop, Browse!Restrict
<1>6. later.members = Browse!MembersOf(facts)
  <2>1. lists.members = Browse!MembersOf(lists.facts)
    BY DEF Consistent
  <2> QED BY <1>2, <1>3, <2>1 DEF Browse!MembersOf
<1>7. later.tally = Browse!TallyOf(facts)
  BY <1>2, TallyDrop DEF Consistent, facts
<1>8. later.hits # None => later.hits = Browse!HitsOf(facts, later.hits.needle)
  <2> SUFFICES ASSUME later.hits # None
               PROVE  later.hits = Browse!HitsOf(facts, later.hits.needle)
    OBVIOUS
  <2>1. lists.hits # None
    BY <1>2 DEF Browse!Lost
  <2>2. lists.hits = Browse!HitsOf(lists.facts, lists.hits.needle)
    BY <2>1 DEF Consistent
  <2>3. later.hits = Browse!HitsOf(facts, lists.hits.needle)
    BY <1>2, <2>1, <2>2, HitsDrop DEF Consistent, facts
  <2>4. Browse!HitsOf(facts, lists.hits.needle).needle = lists.hits.needle
    BY DEF Browse!HitsOf
  <2> QED BY <2>3, <2>4
<1> QED BY <1>2, <1>4, <1>5, <1>6, <1>7, <1>8 DEF Consistent, later, facts

(* What the lists say of a path is what they should say of what is shown. *)
ListedRight(lists, items, index, p) ==
  IF p \in DOMAIN index
  THEN /\ p \in DOMAIN lists.facts
       /\ lists.at[p] = index[p]
       /\ lists.facts[p] = Browse!FactOf(lists.roots, p, items[index[p]].entry)
  ELSE p \notin DOMAIN lists.facts

ListedAsBefore(before, lists, p) ==
  /\ p \in DOMAIN lists.facts <=> p \in DOMAIN before.facts
  /\ p \in DOMAIN before.facts => lists.at[p] = before.at[p] /\ lists.facts[p] = before.facts[p]

LEMMA UpdatedAtMeans ==
  ASSUME Browse!BrowsingAssumption, NEW lists, Consistent(lists), NEW items, NEW index,
         NEW p \in AllPaths, p \in DOMAIN index => items[index[p]].entry.doc.work \in BOOLEAN
  PROVE  LET later == Browse!UpdatedAt(lists, items, index, p)
         IN  /\ Consistent(later) /\ later.roots = lists.roots
             /\ ListedRight(later, items, index, p)
             /\ \A q : q # p => ListedAsBefore(lists, later, q)
<1> DEFINE fact == Browse!FactOf(lists.roots, p, items[index[p]].entry)
           later == Browse!UpdatedAt(lists, items, index, p)
           rest == Browse!Removed(lists, p)
<1>1. None \notin Browse!Scopes
  BY DEF Browse!BrowsingAssumption
<1>2. DOMAIN lists = Fields /\ DOMAIN lists.at = DOMAIN lists.facts
  BY DEF Consistent
<1>3. /\ Consistent(rest) /\ rest.roots = lists.roots
      /\ p \notin DOMAIN rest.facts
      /\ \A q : q # p => ListedAsBefore(lists, rest, q)
  <2>1. CASE p \notin DOMAIN lists.facts
    <3>1. rest = lists
      BY <2>1 DEF Browse!Removed
    <3> QED BY <2>1, <3>1 DEF ListedAsBefore
  <2>2. CASE p \in DOMAIN lists.facts
    <3>1. /\ Consistent(rest) /\ rest.roots = lists.roots
          /\ rest.facts = Browse!Drop(lists.facts, {p})
          /\ rest.at = Browse!Drop(lists.at, {p})
      BY <1>1, <2>2, RemovedConsistent
    <3> HIDE DEF rest
    <3> QED BY <1>2, <3>1 DEF ListedAsBefore, Browse!Drop, Browse!Restrict
  <2> QED BY <2>1, <2>2
<1> HIDE DEF rest
<1>4. CASE p \notin DOMAIN index
  <2>1. later = rest
    BY <1>4 DEF Browse!UpdatedAt, rest
  <2> QED BY <1>3, <1>4, <2>1 DEF ListedRight
<1>5. CASE p \in DOMAIN index /\ p \in DOMAIN lists.facts /\ lists.facts[p] = fact
  <2>1. later = [lists EXCEPT !.at = Browse!Put(lists.at, p, index[p])]
    BY <1>5 DEF Browse!UpdatedAt
  <2> HIDE DEF later
  <2>2. /\ later = [k \in Fields |-> later[k]]
        /\ \A k \in Fields \ {"at"} : later[k] = lists[k]
        /\ later.at = Browse!Put(lists.at, p, index[p])
    BY <1>2, <2>1 DEF Fields
  <2>3. /\ later.roots = lists.roots /\ later.facts = lists.facts
        /\ later.members = lists.members /\ later.tally = lists.tally
        /\ later.hits = lists.hits
    BY <2>2 DEF Fields
  <2>4. /\ later.at = [q \in DOMAIN lists.facts |-> later.at[q]] /\ later.at[p] = index[p]
        /\ \A q \in DOMAIN lists.facts : q # p => later.at[q] = lists.at[q]
    <3> DEFINE at0 == lists.at
               i == index[p]
               at == Browse!Put(at0, p, i)
    <3>1. DOMAIN at0 = DOMAIN lists.facts /\ later.at = at
      BY <1>2, <2>2
    <3> HIDE DEF at0, i
    <3>2. /\ DOMAIN at = DOMAIN at0 \cup {p} /\ at[p] = i
          /\ \A q \in DOMAIN at0 : q # p => at[q] = at0[q]
          /\ at = [q \in DOMAIN at |-> at[q]]
      BY DEF Browse!Put
    <3> HIDE DEF at
    <3>3. DOMAIN at = DOMAIN lists.facts
      BY <1>5, <3>1, <3>2
    <3> QED BY <3>1, <3>2, <3>3 DEF at0, i
  <2>5. Consistent(later)
    BY <2>2, <2>3, <2>4 DEF Consistent
  <2> QED BY <1>5, <2>3, <2>4, <2>5 DEF ListedRight, ListedAsBefore, later
<1>6. CASE p \in DOMAIN index /\ ~ (p \in DOMAIN lists.facts /\ lists.facts[p] = fact)
  <2>1. later = Browse!Inserted(rest, p, fact, index[p])
    BY <1>6 DEF Browse!UpdatedAt, rest
  <2>2. FactOK(fact)
    BY <1>6, ScopeType DEF FactOK, Browse!FactOf
  <2> HIDE DEF later, fact
  <2>3. /\ Consistent(later) /\ later.roots = rest.roots
        /\ later.facts = Browse!Put(rest.facts, p, fact)
        /\ later.at = Browse!Put(rest.at, p, index[p])
    BY <1>1, <1>3, <2>1, <2>2, InsertedConsistent
  <2>4. ListedRight(later, items, index, p)
    BY <1>3, <1>6, <2>3 DEF ListedRight, Browse!Put, fact
  <2>5. ASSUME NEW q, q # p PROVE ListedAsBefore(rest, later, q)
    <3>1. DOMAIN rest.at = DOMAIN rest.facts
      BY <1>3 DEF Consistent
    <3> QED BY <2>3, <2>5, <3>1 DEF ListedAsBefore, Browse!Put
  <2>6. \A q : q # p => ListedAsBefore(lists, later, q)
    BY <1>3, <2>5 DEF ListedAsBefore
  <2> QED BY <1>3, <2>3, <2>4, <2>6 DEF later
<1> QED BY <1>4, <1>5, <1>6

(* The lists have passed through a state before and after each path. *)
UpdatedSteps(after, lists, items, index, paths) ==
  /\ after[0] = lists
  /\ \A i \in 1 .. Len(Paths) : after[i] = IF Paths[i] \in paths
       THEN Browse!UpdatedAt(after[i - 1], items, index, Paths[i]) ELSE after[i - 1]
  /\ Browse!Updated(lists, items, index, paths) = after[Len(Paths)]

LEMMA UpdatedUnfolds ==
  ASSUME Browse!BrowsingAssumption, NEW lists, NEW items, NEW index, NEW paths
  PROVE  \E after : UpdatedSteps(after, lists, items, index, paths)
<1> DEFINE Step(x, i) == IF Paths[i] \in paths
                THEN Browse!UpdatedAt(x, items, index, Paths[i]) ELSE x
           Follows(g, n) == g = [i \in 0 .. n |-> IF i = 0 THEN lists ELSE Step(g[i - 1], i)]
           Bad == { n \in Nat : ~ \E g : Follows(g, n) }
<1>1. Len(Paths) \in Nat
  BY DEF Browse!BrowsingAssumption
<1>2. Bad = {}
  <2> HIDE DEF Step
  <2> SUFFICES ASSUME Bad # {} PROVE FALSE
    OBVIOUS
  <2>1. PICK n \in Bad : \A m \in Bad : ~ (<<m, n>> \in OpToRel(<, Nat))
    BY NatLessThanWellFounded, WFMin, Zenon
  <2>2. n \in Nat /\ \A m \in Nat : m < n => \E g : Follows(g, m)
    BY <2>1 DEF OpToRel
  <2>3. n # 0
    <3>1. Follows([i \in 0 .. 0 |-> lists], 0)
      OBVIOUS
    <3> QED BY <2>1, <3>1
  <2>4. PICK g : Follows(g, n - 1)
    <3>1. n - 1 \in Nat /\ n - 1 < n
      BY <2>2, <2>3
    <3> QED BY <2>2, <3>1
  <2> DEFINE h == [i \in 0 .. n |-> IF i = n THEN Step(g[n - 1], n) ELSE g[i]]
  <2>5. \A i \in 0 .. n : h[i] = IF i = 0 THEN lists ELSE Step(h[i - 1], i)
    <3> TAKE i \in 0 .. n
    <3>1. CASE i = 0
      BY <2>2, <2>3, <2>4, <3>1
    <3>2. CASE i # 0 /\ i # n
      <4>1. i \in 0 .. (n - 1) /\ i - 1 \in 0 .. n /\ i - 1 # n
        BY <2>2, <3>2
      <4>2. h[i] = g[i] /\ h[i - 1] = g[i - 1]
        BY <4>1, <3>2
      <4>3. g[i] = Step(g[i - 1], i)
        BY <2>4, <3>2, <4>1
      <4> QED BY <3>2, <4>2, <4>3
    <3>3. CASE i = n
      <4>1. n - 1 \in 0 .. n /\ n - 1 # n /\ n \in 0 .. n
        BY <2>2, <2>3
      <4>2. h[n] = Step(g[n - 1], n) /\ h[n - 1] = g[n - 1]
        BY <4>1
      <4> QED BY <2>3, <3>3, <4>2
    <3> QED BY <3>1, <3>2, <3>3
  <2>6. h = [i \in 0 .. n |-> h[i]]
    OBVIOUS
  <2> HIDE DEF h
  <2>7. Follows(h, n)
    BY <2>5, <2>6
  <2> QED BY <2>1, <2>7
<1>3. \E g : Follows(g, Len(Paths))
  BY <1>1, <1>2
<1> DEFINE after == CHOOSE g : Follows(g, Len(Paths))
<1>4. Follows(after, Len(Paths))
  <2> HIDE DEF Follows
  <2> QED BY <1>3
<1>5. Browse!Updated(lists, items, index, paths) = after[Len(Paths)]
  BY DEF Browse!Updated
<1> HIDE DEF after, Step
<1>6. /\ after[0] = lists
      /\ \A i \in 1 .. Len(Paths) : after[i] = Step(after[i - 1], i)
  BY <1>1, <1>4
<1>7. UpdatedSteps(after, lists, items, index, paths)
  BY <1>5, <1>6 DEF Step, UpdatedSteps
<1> QED BY <1>7, Zenon

(* The paths up to a place in their order. *)
Covered(n) == { Paths[j] : j \in 1 .. n }

LEMMA CoveredStep ==
  ASSUME Browse!BrowsingAssumption
  PROVE  /\ Len(Paths) \in Nat /\ Covered(0) = {} /\ Covered(Len(Paths)) = AllPaths
         /\ \A n \in 1 .. Len(Paths) :
              /\ n - 1 \in 0 .. Len(Paths) /\ Paths[n] \in AllPaths
              /\ Covered(n) = Covered(n - 1) \cup {Paths[n]}
<1>1. Paths \in Seq(AllPaths) /\ AllPaths = { Paths[n] : n \in DOMAIN Paths }
  BY DEF Browse!BrowsingAssumption, AllPaths, Browse!Range
<1>2. Len(Paths) \in Nat /\ DOMAIN Paths = 1 .. Len(Paths)
  BY <1>1
<1>3. ASSUME NEW n \in 1 .. Len(Paths)
      PROVE  Covered(n) = Covered(n - 1) \cup {Paths[n]}
  <2>1. 1 .. n = (1 .. (n - 1)) \cup {n}
    BY <1>2
  <2> QED BY <2>1 DEF Covered
<1>4. Covered(0) = {}
  BY DEF Covered
<1> QED BY <1>1, <1>2, <1>3, <1>4 DEF Covered

(* An update of the lists is right about what it names and leaves the rest alone. *)
LEMMA UpdatedMeans ==
  ASSUME Browse!BrowsingAssumption, NEW lists, Consistent(lists), NEW items, NEW index, NEW paths,
         \A p \in DOMAIN index : items[index[p]].entry.doc.work \in BOOLEAN
  PROVE  LET later == Browse!Updated(lists, items, index, paths)
         IN  /\ Consistent(later) /\ later.roots = lists.roots
             /\ \A p \in AllPaths \cap paths : ListedRight(later, items, index, p)
             /\ \A p : p \notin AllPaths \cap paths => ListedAsBefore(lists, later, p)
<1>0. PICK after : UpdatedSteps(after, lists, items, index, paths)
  BY UpdatedUnfolds, Zenon
<1>1. /\ after[0] = lists
      /\ \A i \in 1 .. Len(Paths) :
           after[i] = IF Paths[i] \in paths
                      THEN Browse!UpdatedAt(after[i - 1], items, index, Paths[i])
                      ELSE after[i - 1]
      /\ Browse!Updated(lists, items, index, paths) = after[Len(Paths)]
  BY <1>0 DEF UpdatedSteps
<1> DEFINE Passed(i) ==
             /\ Consistent(after[i]) /\ after[i].roots = lists.roots
             /\ \A p \in Covered(i) \cap paths : ListedRight(after[i], items, index, p)
             /\ \A p : p \notin Covered(i) \cap paths => ListedAsBefore(lists, after[i], p)
           Bad == { i \in Nat : i <= Len(Paths) /\ ~ Passed(i) }
<1>2. Len(Paths) \in Nat
  BY CoveredStep
<1>3. Passed(0)
  BY <1>1, CoveredStep DEF ListedAsBefore
<1>4. ASSUME NEW i \in Nat, i # 0, i <= Len(Paths), Passed(i - 1)
      PROVE  Passed(i)
  <2> DEFINE before == after[i - 1]
             now == after[i]
             p == Paths[i]
  <2>1. /\ i \in 1 .. Len(Paths) /\ p \in AllPaths
        /\ Covered(i) = Covered(i - 1) \cup {p}
        /\ now = IF p \in paths THEN Browse!UpdatedAt(before, items, index, p) ELSE before
    BY <1>1, <1>2, <1>4, CoveredStep
  <2>2. /\ Consistent(before) /\ before.roots = lists.roots
        /\ \A q \in Covered(i - 1) \cap paths : ListedRight(before, items, index, q)
        /\ \A q : q \notin Covered(i - 1) \cap paths => ListedAsBefore(lists, before, q)
    BY <1>4
  <2> HIDE DEF before, now, p
  <2>3. CASE p \notin paths
    <3>1. Covered(i) \cap paths = Covered(i - 1) \cap paths /\ now = before
      BY <2>1, <2>3
    <3> QED BY <2>2, <3>1 DEF now
  <2>4. CASE p \in paths
    <3>1. /\ Consistent(now) /\ now.roots = before.roots
          /\ ListedRight(now, items, index, p)
          /\ \A q : q # p => ListedAsBefore(before, now, q)
      BY <2>1, <2>2, <2>4, UpdatedAtMeans
    <3>2. ASSUME NEW q \in Covered(i) \cap paths
          PROVE  ListedRight(now, items, index, q)
      <4>1. CASE q = p
        BY <3>1, <4>1
      <4>2. CASE q # p
        <5>1. ListedRight(before, items, index, q) /\ ListedAsBefore(before, now, q)
          BY <2>1, <2>2, <3>1, <4>2
        <5> QED BY <3>1, <5>1 DEF ListedRight, ListedAsBefore
      <4> QED BY <4>1, <4>2
    <3>3. ASSUME NEW q, q \notin Covered(i) \cap paths
          PROVE  ListedAsBefore(lists, now, q)
      <4>1. q # p /\ q \notin Covered(i - 1) \cap paths
        BY <2>1, <2>4, <3>3
      <4>2. ListedAsBefore(lists, before, q) /\ ListedAsBefore(before, now, q)
        BY <2>2, <3>1, <4>1
      <4> QED BY <4>2 DEF ListedAsBefore
    <3> QED BY <2>2, <3>1, <3>2, <3>3 DEF now
  <2> QED BY <2>3, <2>4
<1>5. Bad = {}
  <2> HIDE DEF Passed
  <2> SUFFICES ASSUME Bad # {} PROVE FALSE
    OBVIOUS
  <2>1. PICK i \in Bad : \A m \in Bad : ~ (<<m, i>> \in OpToRel(<, Nat))
    BY NatLessThanWellFounded, WFMin, Zenon
  <2>2. i \in Nat /\ i <= Len(Paths) /\ ~ Passed(i)
    BY <2>1
  <2>3. i # 0
    BY <1>3, <2>2
  <2>4. i - 1 \in Nat /\ i - 1 < i /\ i - 1 <= Len(Paths)
    BY <1>2, <2>2, <2>3
  <2>5. i - 1 \notin Bad
    BY <2>1, <2>2, <2>4 DEF OpToRel
  <2>6. Passed(i - 1)
    BY <2>4, <2>5
  <2> QED BY <1>4, <2>2, <2>3, <2>6
<1>6. Passed(Len(Paths))
  <2> HIDE DEF Passed
  <2> QED BY <1>2, <1>5
<1> QED BY <1>1, <1>6, CoveredStep

-----------------------------------------------------------------------------
(* What is shown, and where. *)

Bodies == { doc \in UNION { DocsOf[p] : p \in AllPaths } : doc # None }

Entry == [doc : Bodies, scope : ScopeOrNone, parsed : BOOLEAN]

Item == [path : AllPaths, entry : Entry]

AppFields == {"shown", "index", "lists", "cards", "browser", "resumed", "feedback"}

(* Each path that is shown has one place. *)
Matched(items, index) ==
  /\ items \in Seq(Item)
  /\ \A p \in DOMAIN index : index[p] \in 1 .. Len(items) /\ items[index[p]].path = p
  /\ \A i \in 1 .. Len(items) : items[i].path \in DOMAIN index /\ index[items[i].path] = i

Placed(a) ==
  /\ a = [k \in AppFields |-> a[k]]
  /\ a.index = [p \in DOMAIN a.index |-> a.index[p]]
  /\ Matched(a.shown, a.index)

SameBut(a, b) ==
  /\ b.lists = a.lists /\ b.cards = a.cards /\ b.browser = a.browser
  /\ b.resumed = a.resumed /\ b.feedback = a.feedback

EntryAt(a, p) == a.shown[a.index[p]].entry

LEMMA UnshownMeans ==
  ASSUME NEW a, Placed(a), NEW p
  PROVE  LET b == Browse!Unshown(a, p)
         IN  /\ Placed(b) /\ SameBut(a, b)
             /\ DOMAIN b.index = DOMAIN a.index \ {p}
             /\ \A q \in DOMAIN b.index : EntryAt(b, q) = EntryAt(a, q)
<1> DEFINE b == Browse!Unshown(a, p)
<1>1. CASE p \notin DOMAIN a.index
  <2>1. b = a
    BY <1>1 DEF Browse!Unshown
  <2> QED BY <1>1, <2>1 DEF SameBut
<1>2. CASE p \in DOMAIN a.index
  <2> DEFINE i == a.index[p]
             last == Len(a.shown)
             moved == a.shown[last].path
             swapped == [a.shown EXCEPT ![i] = a.shown[last]]
             items == SubSeq(swapped, 1, last - 1)
             index == IF i = last THEN Browse!Drop(a.index, {p})
                      ELSE Browse!Put(Browse!Drop(a.index, {p}), moved, i)
  <2>0. Matched(a.shown, a.index)
    BY DEF Placed
  <2>1. DOMAIN a = AppFields
    BY DEF Placed
  <2>2. b = [a EXCEPT !.shown = items, !.index = index]
    BY <1>2 DEF Browse!Unshown
  <2>3. /\ a.shown \in Seq(Item) /\ last \in Nat /\ i \in 1 .. last
        /\ a.shown[i].path = p
    BY <1>2, <2>0 DEF Matched
  <2>4. /\ moved \in DOMAIN a.index /\ a.index[moved] = last
        /\ a.shown[last] \in Item
    <3>1. last \in 1 .. last
      BY <2>3
    <3> QED BY <2>0, <2>3, <3>1, SMTT(15) DEF Matched
  <2>5. moved = p <=> i = last
    BY <2>3, <2>4
  <2> HIDE DEF b
  <2>6. /\ b = [k \in AppFields |-> b[k]] /\ SameBut(a, b)
        /\ b.shown = items /\ b.index = index
    <3> HIDE DEF items, index
    <3> QED BY <2>1, <2>2 DEF AppFields, SameBut
  <2>7. /\ swapped \in Seq(Item) /\ Len(swapped) = last
        /\ \A j \in 1 .. last : swapped[j] = IF j = i THEN a.shown[last] ELSE a.shown[j]
    BY <2>3, <2>4
  <2> HIDE DEF swapped
  <2>8. /\ items \in Seq(Item) /\ Len(items) = last - 1
        /\ \A j \in 1 .. (last - 1) :
             items[j] = IF j = i THEN a.shown[last] ELSE a.shown[j]
    BY <2>3, <2>7
  <2>9. /\ DOMAIN index = DOMAIN a.index \ {p}
        /\ \A q \in DOMAIN index :
             index[q] = IF q = moved /\ i # last THEN i ELSE a.index[q]
        /\ index = [q \in DOMAIN index |-> index[q]]
    BY <2>4, <2>5 DEF Browse!Drop, Browse!Put, Browse!Restrict
  <2> HIDE DEF items, index
  <2>10. ASSUME NEW q \in DOMAIN index
         PROVE  /\ index[q] \in 1 .. (last - 1)
                /\ items[index[q]] = a.shown[a.index[q]]
                /\ a.shown[a.index[q]].path = q
    <3>1. /\ a.index[q] \in 1 .. last /\ a.shown[a.index[q]].path = q /\ q # p
      BY <2>0, <2>9 DEF Matched
    <3>2. CASE q = moved
      <4>1. i # last
        BY <2>5, <3>1, <3>2
      <4>2. index[q] = i /\ i \in 1 .. (last - 1)
        BY <2>3, <2>9, <3>2, <4>1
      <4> QED BY <2>4, <2>8, <3>1, <3>2, <4>2
    <3>3. CASE q # moved
      <4>1. a.index[q] # last /\ a.index[q] # i
        BY <2>3, <3>1, <3>3
      <4>2. index[q] = a.index[q] /\ a.index[q] \in 1 .. (last - 1)
        BY <2>3, <2>9, <3>1, <3>3, <4>1
      <4> QED BY <2>8, <3>1, <4>1, <4>2
    <3> QED BY <3>2, <3>3
  <2>11. ASSUME NEW j \in 1 .. (last - 1)
         PROVE  items[j].path \in DOMAIN index /\ index[items[j].path] = j
    <3>1. /\ j \in 1 .. last /\ j # last
          /\ a.shown[j].path \in DOMAIN a.index /\ a.index[a.shown[j].path] = j
      BY <2>0, <2>3 DEF Matched
    <3>2. CASE j = i
      <4>1. items[j].path = moved /\ moved # p
        BY <2>5, <2>8, <3>1, <3>2
      <4> QED BY <2>4, <2>9, <3>1, <3>2, <4>1
    <3>3. CASE j # i
      <4>1. items[j].path = a.shown[j].path
        BY <2>8, <3>3
      <4>2. a.shown[j].path # p /\ a.shown[j].path # moved
        BY <2>4, <3>1, <3>3
      <4> QED BY <2>9, <3>1, <4>1, <4>2
    <3> QED BY <3>2, <3>3
  <2>12. Placed(b)
    <3>1. Matched(items, index)
      BY <2>8, <2>10, <2>11 DEF Matched
    <3> QED BY <2>6, <2>9, <3>1 DEF Placed
  <2>13. \A q \in DOMAIN b.index : EntryAt(b, q) = EntryAt(a, q)
    BY <2>6, <2>10 DEF EntryAt
  <2> QED BY <2>6, <2>9, <2>12, <2>13 DEF b
<1> QED BY <1>1, <1>2

LEMMA ShownAtMeans ==
  ASSUME NEW a, Placed(a), NEW p \in AllPaths, NEW entry \in Entry
  PROVE  LET b == Browse!ShownAt(a, p, entry)
         IN  /\ Placed(b) /\ SameBut(a, b)
             /\ DOMAIN b.index = DOMAIN a.index \cup {p}
             /\ EntryAt(b, p) = entry
             /\ \A q \in DOMAIN a.index : q # p => EntryAt(b, q) = EntryAt(a, q)
<1> DEFINE b == Browse!ShownAt(a, p, entry)
           item == [path |-> p, entry |-> entry]
           i == a.index[p]
           last == Len(a.shown)
<1>1. DOMAIN a = AppFields /\ item \in Item /\ item.path = p /\ item.entry = entry
  BY DEF Placed, Item
<1>2. a.shown \in Seq(Item) /\ last \in Nat /\ Matched(a.shown, a.index)
  BY DEF Placed, Matched
<1> HIDE DEF item
<1>3. CASE p \in DOMAIN a.index
  <2> DEFINE items == [a.shown EXCEPT ![i] = item]
  <2>1. b = [a EXCEPT !.shown = items]
    BY <1>3 DEF Browse!ShownAt, item
  <2> HIDE DEF b
  <2>2. /\ b = [k \in AppFields |-> b[k]] /\ SameBut(a, b)
        /\ b.shown = items /\ b.index = a.index
    <3> HIDE DEF items
    <3> QED BY <1>1, <2>1 DEF AppFields, SameBut
  <2>3. i \in 1 .. last /\ a.shown[i].path = p
    BY <1>2, <1>3 DEF Matched
  <2>4. /\ items \in Seq(Item) /\ Len(items) = last
        /\ \A j \in 1 .. last : items[j] = IF j = i THEN item ELSE a.shown[j]
    BY <1>1, <1>2, <2>3
  <2> HIDE DEF items
  <2>5. /\ \A q \in DOMAIN a.index :
             /\ a.index[q] \in 1 .. last /\ a.shown[a.index[q]].path = q
             /\ a.index[q] = i <=> q = p
        /\ \A j \in 1 .. last : a.shown[j].path \in DOMAIN a.index /\ a.index[a.shown[j].path] = j
    BY <1>2, <1>3, <2>3 DEF Matched
  <2>6. /\ \A q \in DOMAIN a.index : items[a.index[q]].path = q
        /\ \A j \in 1 .. last : items[j].path = a.shown[j].path
    BY <1>1, <2>3, <2>4, <2>5
  <2>7. Placed(b)
    <3>1. Matched(items, a.index)
      BY <2>4, <2>5, <2>6 DEF Matched
    <3> QED BY <2>2, <3>1 DEF Placed
  <2>8. /\ EntryAt(b, p) = entry
        /\ \A q \in DOMAIN a.index : q # p => EntryAt(b, q) = EntryAt(a, q)
    <3>1. \A q : EntryAt(b, q) = items[a.index[q]].entry
      BY <2>2 DEF EntryAt
    <3> HIDE DEF i
    <3>2. items[i] = item /\ i = a.index[p]
      BY <2>3, <2>4 DEF i
    <3>3. ASSUME NEW q \in DOMAIN a.index, q # p
          PROVE  items[a.index[q]] = a.shown[a.index[q]]
      BY <2>4, <2>5, <3>3
    <3> QED BY <1>1, <3>1, <3>2, <3>3 DEF EntryAt
  <2> QED BY <1>3, <2>2, <2>7, <2>8 DEF b
<1>4. CASE p \notin DOMAIN a.index
  <2> DEFINE items == Append(a.shown, item)
             index == Browse!Put(a.index, p, last + 1)
  <2>1. b = [a EXCEPT !.index = index, !.shown = items]
    BY <1>4 DEF Browse!ShownAt, item
  <2> HIDE DEF b
  <2>2. /\ b = [k \in AppFields |-> b[k]] /\ SameBut(a, b)
        /\ b.shown = items /\ b.index = index
    <3> HIDE DEF items, index
    <3> QED BY <1>1, <2>1 DEF AppFields, SameBut
  <2>3. /\ items \in Seq(Item) /\ Len(items) = last + 1 /\ items[last + 1] = item
        /\ \A j \in 1 .. last : items[j] = a.shown[j]
    BY <1>1, <1>2
  <2>4. /\ DOMAIN index = DOMAIN a.index \cup {p} /\ index[p] = last + 1
        /\ \A q \in DOMAIN a.index : index[q] = a.index[q]
        /\ index = [q \in DOMAIN index |-> index[q]]
    BY <1>4 DEF Browse!Put
  <2> HIDE DEF items, index
  <2>5. /\ \A q \in DOMAIN a.index :
             a.index[q] \in 1 .. last /\ a.shown[a.index[q]].path = q
        /\ \A j \in 1 .. last : a.shown[j].path \in DOMAIN a.index /\ a.index[a.shown[j].path] = j
    BY <1>2, SMTT(15) DEF Matched
  <2>6. ASSUME NEW q \in DOMAIN index
        PROVE  index[q] \in 1 .. (last + 1) /\ items[index[q]].path = q
    <3>1. CASE q = p
      BY <1>1, <1>2, <2>3, <2>4, <3>1
    <3>2. CASE q # p
      <4>1. q \in DOMAIN a.index /\ index[q] = a.index[q]
        BY <2>4, <3>2
      <4>2. index[q] \in 1 .. last /\ items[index[q]] = a.shown[index[q]]
        BY <2>3, <2>5, <4>1
      <4> QED BY <1>2, <2>5, <4>1, <4>2
    <3> QED BY <3>1, <3>2
  <2>7. ASSUME NEW j \in 1 .. (last + 1)
        PROVE  items[j].path \in DOMAIN index /\ index[items[j].path] = j
    <3>1. j \in 1 .. last \/ j = last + 1
      BY <1>2
    <3> QED BY <1>1, <2>3, <2>4, <2>5, <3>1
  <2>8. Placed(b)
    <3>1. Matched(items, index)
      BY <2>3, <2>6, <2>7 DEF Matched
    <3> QED BY <2>2, <2>4, <3>1 DEF Placed
  <2>9. /\ EntryAt(b, p) = entry
        /\ \A q \in DOMAIN a.index : q # p => EntryAt(b, q) = EntryAt(a, q)
    BY <1>1, <1>4, <2>2, <2>3, <2>4, <2>5 DEF EntryAt
  <2> QED BY <2>2, <2>4, <2>8, <2>9 DEF b
<1> QED BY <1>3, <1>4

(* What is gone has been taken away path by path. *)
WithoutSteps(after, a, paths) ==
  /\ after[0] = a
  /\ \A i \in 1 .. Len(Paths) : after[i] = IF Paths[i] \in paths
       THEN Browse!Unshown(after[i - 1], Paths[i]) ELSE after[i - 1]
  /\ Browse!Without(a, paths) = after[Len(Paths)]

LEMMA WithoutUnfolds ==
  ASSUME Browse!BrowsingAssumption, NEW a, NEW paths
  PROVE  \E after : WithoutSteps(after, a, paths)
<1> DEFINE Step(x, i) == IF Paths[i] \in paths
                THEN Browse!Unshown(x, Paths[i]) ELSE x
           Follows(g, n) == g = [i \in 0 .. n |-> IF i = 0 THEN a ELSE Step(g[i - 1], i)]
           Bad == { n \in Nat : ~ \E g : Follows(g, n) }
<1>1. Len(Paths) \in Nat
  BY DEF Browse!BrowsingAssumption
<1>2. Bad = {}
  <2> HIDE DEF Step
  <2> SUFFICES ASSUME Bad # {} PROVE FALSE
    OBVIOUS
  <2>1. PICK n \in Bad : \A m \in Bad : ~ (<<m, n>> \in OpToRel(<, Nat))
    BY NatLessThanWellFounded, WFMin, Zenon
  <2>2. n \in Nat /\ \A m \in Nat : m < n => \E g : Follows(g, m)
    BY <2>1 DEF OpToRel
  <2>3. n # 0
    <3>1. Follows([i \in 0 .. 0 |-> a], 0)
      OBVIOUS
    <3> QED BY <2>1, <3>1
  <2>4. PICK g : Follows(g, n - 1)
    <3>1. n - 1 \in Nat /\ n - 1 < n
      BY <2>2, <2>3
    <3> QED BY <2>2, <3>1
  <2> DEFINE h == [i \in 0 .. n |-> IF i = n THEN Step(g[n - 1], n) ELSE g[i]]
  <2>5. \A i \in 0 .. n : h[i] = IF i = 0 THEN a ELSE Step(h[i - 1], i)
    <3> TAKE i \in 0 .. n
    <3>1. CASE i = 0
      BY <2>2, <2>3, <2>4, <3>1
    <3>2. CASE i # 0 /\ i # n
      <4>1. i \in 0 .. (n - 1) /\ i - 1 \in 0 .. n /\ i - 1 # n
        BY <2>2, <3>2
      <4>2. h[i] = g[i] /\ h[i - 1] = g[i - 1]
        BY <4>1, <3>2
      <4>3. g[i] = Step(g[i - 1], i)
        BY <2>4, <3>2, <4>1
      <4> QED BY <3>2, <4>2, <4>3
    <3>3. CASE i = n
      <4>1. n - 1 \in 0 .. n /\ n - 1 # n /\ n \in 0 .. n
        BY <2>2, <2>3
      <4>2. h[n] = Step(g[n - 1], n) /\ h[n - 1] = g[n - 1]
        BY <4>1
      <4> QED BY <2>3, <3>3, <4>2
    <3> QED BY <3>1, <3>2, <3>3
  <2>6. h = [i \in 0 .. n |-> h[i]]
    OBVIOUS
  <2> HIDE DEF h
  <2>7. Follows(h, n)
    BY <2>5, <2>6
  <2> QED BY <2>1, <2>7
<1>3. \E g : Follows(g, Len(Paths))
  BY <1>1, <1>2
<1> DEFINE after == CHOOSE g : Follows(g, Len(Paths))
<1>4. Follows(after, Len(Paths))
  <2> HIDE DEF Follows
  <2> QED BY <1>3
<1>5. Browse!Without(a, paths) = after[Len(Paths)]
  BY DEF Browse!Without
<1> HIDE DEF after, Step
<1>6. /\ after[0] = a
      /\ \A i \in 1 .. Len(Paths) : after[i] = Step(after[i - 1], i)
  BY <1>1, <1>4
<1>7. WithoutSteps(after, a, paths)
  BY <1>5, <1>6 DEF Step, WithoutSteps
<1> QED BY <1>7, Zenon

(* What is gone is not shown any more, and the rest is as it was. *)
LEMMA WithoutMeans ==
  ASSUME Browse!BrowsingAssumption, NEW a, Placed(a), NEW paths
  PROVE  LET b == Browse!Without(a, paths)
         IN  /\ Placed(b) /\ SameBut(a, b)
             /\ DOMAIN b.index = DOMAIN a.index \ (AllPaths \cap paths)
             /\ \A p \in DOMAIN b.index : EntryAt(b, p) = EntryAt(a, p)
<1>0. PICK after : WithoutSteps(after, a, paths)
  BY WithoutUnfolds, Zenon
<1>1. /\ after[0] = a
      /\ \A i \in 1 .. Len(Paths) :
           after[i] = IF Paths[i] \in paths
                      THEN Browse!Unshown(after[i - 1], Paths[i]) ELSE after[i - 1]
      /\ Browse!Without(a, paths) = after[Len(Paths)]
  BY <1>0 DEF WithoutSteps
<1> DEFINE Passed(i) ==
             /\ Placed(after[i]) /\ SameBut(a, after[i])
             /\ DOMAIN after[i].index = DOMAIN a.index \ (Covered(i) \cap paths)
             /\ \A p \in DOMAIN after[i].index : EntryAt(after[i], p) = EntryAt(a, p)
           Bad == { i \in Nat : i <= Len(Paths) /\ ~ Passed(i) }
<1>2. Len(Paths) \in Nat
  BY CoveredStep
<1>3. Passed(0)
  BY <1>1, CoveredStep DEF SameBut
<1>4. ASSUME NEW i \in Nat, i # 0, i <= Len(Paths), Passed(i - 1)
      PROVE  Passed(i)
  <2> DEFINE before == after[i - 1]
             now == after[i]
             p == Paths[i]
  <2>1. /\ i \in 1 .. Len(Paths) /\ p \in AllPaths
        /\ Covered(i) = Covered(i - 1) \cup {p}
        /\ now = IF p \in paths THEN Browse!Unshown(before, p) ELSE before
    BY <1>1, <1>2, <1>4, CoveredStep
  <2>2. /\ Placed(before) /\ SameBut(a, before)
        /\ DOMAIN before.index = DOMAIN a.index \ (Covered(i - 1) \cap paths)
        /\ \A q \in DOMAIN before.index : EntryAt(before, q) = EntryAt(a, q)
    BY <1>4
  <2> HIDE DEF before, now, p
  <2>3. CASE p \notin paths
    <3>1. Covered(i) \cap paths = Covered(i - 1) \cap paths /\ now = before
      BY <2>1, <2>3
    <3> QED BY <2>2, <3>1 DEF now
  <2>4. CASE p \in paths
    <3>1. /\ Placed(now) /\ SameBut(before, now)
          /\ DOMAIN now.index = DOMAIN before.index \ {p}
          /\ \A q \in DOMAIN now.index : EntryAt(now, q) = EntryAt(before, q)
      BY <2>1, <2>2, <2>4, UnshownMeans
    <3>2. SameBut(a, now)
      BY <2>2, <3>1 DEF SameBut
    <3>3. DOMAIN now.index = DOMAIN a.index \ (Covered(i) \cap paths)
      BY <2>1, <2>2, <2>4, <3>1
    <3> QED BY <2>2, <3>1, <3>2, <3>3 DEF now
  <2> QED BY <2>3, <2>4
<1>5. Bad = {}
  <2> HIDE DEF Passed
  <2> SUFFICES ASSUME Bad # {} PROVE FALSE
    OBVIOUS
  <2>1. PICK i \in Bad : \A m \in Bad : ~ (<<m, i>> \in OpToRel(<, Nat))
    BY NatLessThanWellFounded, WFMin, Zenon
  <2>2. i \in Nat /\ i <= Len(Paths) /\ ~ Passed(i)
    BY <2>1
  <2>3. i # 0
    BY <1>3, <2>2
  <2>4. i - 1 \in Nat /\ i - 1 < i /\ i - 1 <= Len(Paths)
    BY <1>2, <2>2, <2>3
  <2>5. i - 1 \notin Bad
    BY <2>1, <2>2, <2>4 DEF OpToRel
  <2>6. Passed(i - 1)
    BY <2>4, <2>5
  <2> QED BY <1>4, <2>2, <2>3, <2>6
<1>6. Passed(Len(Paths))
  <2> HIDE DEF Passed
  <2> QED BY <1>2, <1>5
<1> QED BY <1>1, <1>6, CoveredStep

(* What has come has been put in its place path by path. *)
ShowingSteps(after, a, entries) ==
  /\ after[0] = a
  /\ \A i \in 1 .. Len(Paths) : after[i] = IF Paths[i] \in DOMAIN entries
       THEN Browse!ShownAt(after[i - 1], Paths[i], entries[Paths[i]]) ELSE after[i - 1]
  /\ Browse!Showing(a, entries) = after[Len(Paths)]

LEMMA ShowingUnfolds ==
  ASSUME Browse!BrowsingAssumption, NEW a, NEW entries
  PROVE  \E after : ShowingSteps(after, a, entries)
<1> DEFINE Step(x, i) == IF Paths[i] \in DOMAIN entries
                THEN Browse!ShownAt(x, Paths[i], entries[Paths[i]]) ELSE x
           Follows(g, n) == g = [i \in 0 .. n |-> IF i = 0 THEN a ELSE Step(g[i - 1], i)]
           Bad == { n \in Nat : ~ \E g : Follows(g, n) }
<1>1. Len(Paths) \in Nat
  BY DEF Browse!BrowsingAssumption
<1>2. Bad = {}
  <2> HIDE DEF Step
  <2> SUFFICES ASSUME Bad # {} PROVE FALSE
    OBVIOUS
  <2>1. PICK n \in Bad : \A m \in Bad : ~ (<<m, n>> \in OpToRel(<, Nat))
    BY NatLessThanWellFounded, WFMin, Zenon
  <2>2. n \in Nat /\ \A m \in Nat : m < n => \E g : Follows(g, m)
    BY <2>1 DEF OpToRel
  <2>3. n # 0
    <3>1. Follows([i \in 0 .. 0 |-> a], 0)
      OBVIOUS
    <3> QED BY <2>1, <3>1
  <2>4. PICK g : Follows(g, n - 1)
    <3>1. n - 1 \in Nat /\ n - 1 < n
      BY <2>2, <2>3
    <3> QED BY <2>2, <3>1
  <2> DEFINE h == [i \in 0 .. n |-> IF i = n THEN Step(g[n - 1], n) ELSE g[i]]
  <2>5. \A i \in 0 .. n : h[i] = IF i = 0 THEN a ELSE Step(h[i - 1], i)
    <3> TAKE i \in 0 .. n
    <3>1. CASE i = 0
      BY <2>2, <2>3, <2>4, <3>1
    <3>2. CASE i # 0 /\ i # n
      <4>1. i \in 0 .. (n - 1) /\ i - 1 \in 0 .. n /\ i - 1 # n
        BY <2>2, <3>2
      <4>2. h[i] = g[i] /\ h[i - 1] = g[i - 1]
        BY <4>1, <3>2
      <4>3. g[i] = Step(g[i - 1], i)
        BY <2>4, <3>2, <4>1
      <4> QED BY <3>2, <4>2, <4>3
    <3>3. CASE i = n
      <4>1. n - 1 \in 0 .. n /\ n - 1 # n /\ n \in 0 .. n
        BY <2>2, <2>3
      <4>2. h[n] = Step(g[n - 1], n) /\ h[n - 1] = g[n - 1]
        BY <4>1
      <4> QED BY <2>3, <3>3, <4>2
    <3> QED BY <3>1, <3>2, <3>3
  <2>6. h = [i \in 0 .. n |-> h[i]]
    OBVIOUS
  <2> HIDE DEF h
  <2>7. Follows(h, n)
    BY <2>5, <2>6
  <2> QED BY <2>1, <2>7
<1>3. \E g : Follows(g, Len(Paths))
  BY <1>1, <1>2
<1> DEFINE after == CHOOSE g : Follows(g, Len(Paths))
<1>4. Follows(after, Len(Paths))
  <2> HIDE DEF Follows
  <2> QED BY <1>3
<1>5. Browse!Showing(a, entries) = after[Len(Paths)]
  BY DEF Browse!Showing
<1> HIDE DEF after, Step
<1>6. /\ after[0] = a
      /\ \A i \in 1 .. Len(Paths) : after[i] = Step(after[i - 1], i)
  BY <1>1, <1>4
<1>7. ShowingSteps(after, a, entries)
  BY <1>5, <1>6 DEF Step, ShowingSteps
<1> QED BY <1>7, Zenon

(* What has come is shown, and the rest is as it was. *)
LEMMA ShowingMeans ==
  ASSUME Browse!BrowsingAssumption, NEW a, Placed(a), NEW entries,
         DOMAIN entries \subseteq AllPaths, \A p \in DOMAIN entries : entries[p] \in Entry
  PROVE  LET b == Browse!Showing(a, entries)
         IN  /\ Placed(b) /\ SameBut(a, b)
             /\ DOMAIN b.index = DOMAIN a.index \cup DOMAIN entries
             /\ \A p \in DOMAIN entries : EntryAt(b, p) = entries[p]
             /\ \A p \in DOMAIN a.index \ DOMAIN entries : EntryAt(b, p) = EntryAt(a, p)
<1>0. PICK after : ShowingSteps(after, a, entries)
  BY ShowingUnfolds, Zenon
<1>1. /\ after[0] = a
      /\ \A i \in 1 .. Len(Paths) :
           after[i] = IF Paths[i] \in DOMAIN entries
                      THEN Browse!ShownAt(after[i - 1], Paths[i], entries[Paths[i]])
                      ELSE after[i - 1]
      /\ Browse!Showing(a, entries) = after[Len(Paths)]
  BY <1>0 DEF ShowingSteps
<1> DEFINE new(i) == Covered(i) \cap DOMAIN entries
           Passed(i) ==
             /\ Placed(after[i]) /\ SameBut(a, after[i])
             /\ DOMAIN after[i].index = DOMAIN a.index \cup new(i)
             /\ \A p \in new(i) : EntryAt(after[i], p) = entries[p]
             /\ \A p \in DOMAIN a.index \ new(i) : EntryAt(after[i], p) = EntryAt(a, p)
           Bad == { i \in Nat : i <= Len(Paths) /\ ~ Passed(i) }
<1>2. Len(Paths) \in Nat
  BY CoveredStep
<1>3. Passed(0)
  <2>1. new(0) = {}
    BY CoveredStep
  <2> QED BY <1>1, <2>1 DEF SameBut
<1>4. ASSUME NEW i \in Nat, i # 0, i <= Len(Paths), Passed(i - 1)
      PROVE  Passed(i)
  <2> DEFINE before == after[i - 1]
             now == after[i]
             p == Paths[i]
  <2>1. /\ i \in 1 .. Len(Paths) /\ p \in AllPaths
        /\ new(i) = IF p \in DOMAIN entries THEN new(i - 1) \cup {p} ELSE new(i - 1)
        /\ now = IF p \in DOMAIN entries
                 THEN Browse!ShownAt(before, p, entries[p]) ELSE before
    BY <1>1, <1>2, <1>4, CoveredStep
  <2>2. /\ Placed(before) /\ SameBut(a, before)
        /\ DOMAIN before.index = DOMAIN a.index \cup new(i - 1)
        /\ \A q \in new(i - 1) : EntryAt(before, q) = entries[q]
        /\ \A q \in DOMAIN a.index \ new(i - 1) : EntryAt(before, q) = EntryAt(a, q)
    BY <1>4
  <2> HIDE DEF before, now, p, new
  <2>3. CASE p \notin DOMAIN entries
    <3>1. new(i) = new(i - 1) /\ now = before
      BY <2>1, <2>3
    <3> QED BY <2>2, <3>1 DEF now
  <2>4. CASE p \in DOMAIN entries
    <3>1. /\ Placed(now) /\ SameBut(before, now)
          /\ DOMAIN now.index = DOMAIN before.index \cup {p}
          /\ EntryAt(now, p) = entries[p]
          /\ \A q \in DOMAIN before.index : q # p => EntryAt(now, q) = EntryAt(before, q)
      BY <2>1, <2>2, <2>4, ShownAtMeans
    <3>2. SameBut(a, now)
      BY <2>2, <3>1 DEF SameBut
    <3>3. DOMAIN now.index = DOMAIN a.index \cup new(i)
      BY <2>1, <2>2, <2>4, <3>1
    <3>4. /\ \A q \in new(i) : EntryAt(now, q) = entries[q]
          /\ \A q \in DOMAIN a.index \ new(i) : EntryAt(now, q) = EntryAt(a, q)
      BY <2>1, <2>2, <2>4, <3>1
    <3> QED BY <3>1, <3>2, <3>3, <3>4 DEF now
  <2> QED BY <2>3, <2>4
<1>5. Bad = {}
  <2> HIDE DEF Passed
  <2> SUFFICES ASSUME Bad # {} PROVE FALSE
    OBVIOUS
  <2>1. PICK i \in Bad : \A m \in Bad : ~ (<<m, i>> \in OpToRel(<, Nat))
    BY NatLessThanWellFounded, WFMin, Zenon
  <2>2. i \in Nat /\ i <= Len(Paths) /\ ~ Passed(i)
    BY <2>1
  <2>3. i # 0
    BY <1>3, <2>2
  <2>4. i - 1 \in Nat /\ i - 1 < i /\ i - 1 <= Len(Paths)
    BY <1>2, <2>2, <2>3
  <2>5. i - 1 \notin Bad
    BY <2>1, <2>2, <2>4 DEF OpToRel
  <2>6. Passed(i - 1)
    BY <2>4, <2>5
  <2> QED BY <1>4, <2>2, <2>3, <2>6
<1>6. Passed(Len(Paths))
  <2> HIDE DEF Passed
  <2> QED BY <1>2, <1>5
<1>7. new(Len(Paths)) = DOMAIN entries
  BY CoveredStep
<1> HIDE DEF new
<1> QED BY <1>1, <1>6, <1>7

-----------------------------------------------------------------------------
(* The lists of what is shown. *)

FactsAt(roots, a) == [p \in DOMAIN a.index |-> Browse!FactOf(roots, p, EntryAt(a, p))]

Right(lists, a) ==
  Consistent(lists) /\ lists.at = a.index /\ lists.facts = FactsAt(lists.roots, a)

(* What is shown is found where it is. *)
PlaceAmong(items, p) == CHOOSE i \in DOMAIN items : items[i].path = p

LEMMA MatchedInPlace ==
  ASSUME NEW items, NEW index, Matched(items, index)
  PROVE  /\ { items[i].path : i \in DOMAIN items } = DOMAIN index
         /\ DOMAIN index \subseteq AllPaths
         /\ \A p \in DOMAIN index :
              /\ items[index[p]].entry \in Entry /\ items[index[p]].path = p
              /\ PlaceAmong(items, p) = index[p]
<1>1. /\ items \in Seq(Item) /\ DOMAIN items = 1 .. Len(items)
      /\ \A p \in DOMAIN index : index[p] \in DOMAIN items /\ items[index[p]].path = p
      /\ \A i \in DOMAIN items : items[i].path \in DOMAIN index /\ index[items[i].path] = i
  BY DEF Matched
<1>2. ASSUME NEW i \in DOMAIN items PROVE items[i].path \in AllPaths /\ items[i].entry \in Entry
  <2>1. items[i] \in Item
    BY <1>1
  <2> QED BY <2>1 DEF Item
<1>3. { items[i].path : i \in DOMAIN items } = DOMAIN index
  BY <1>1
<1>4. ASSUME NEW p \in DOMAIN index
      PROVE  PlaceAmong(items, p) = index[p]
  BY <1>1 DEF PlaceAmong
<1>5. DOMAIN index \subseteq AllPaths
  BY <1>1, <1>2
<1> QED BY <1>1, <1>2, <1>3, <1>4, <1>5

LEMMA FoundInPlace ==
  ASSUME NEW a, Placed(a)
  PROVE  /\ { a.shown[i].path : i \in DOMAIN a.shown } = DOMAIN a.index
         /\ DOMAIN a.index \subseteq AllPaths
         /\ \A p \in DOMAIN a.index :
              /\ EntryAt(a, p) \in Entry /\ a.shown[a.index[p]].path = p
              /\ PlaceAmong(a.shown, p) = a.index[p]
<1> DEFINE items == a.shown
           index == a.index
<1>1. Matched(items, index)
  BY DEF Placed
<1> HIDE DEF items, index
<1>2. /\ { items[i].path : i \in DOMAIN items } = DOMAIN index
      /\ DOMAIN index \subseteq AllPaths
      /\ \A p \in DOMAIN index :
           /\ items[index[p]].entry \in Entry /\ items[index[p]].path = p
           /\ PlaceAmong(items, p) = index[p]
  BY <1>1, MatchedInPlace
<1> QED BY <1>2 DEF EntryAt, items, index

LEMMA FactsAtOK ==
  ASSUME Browse!BrowsingAssumption, NEW a, Placed(a), NEW roots
  PROVE  FactsOK(FactsAt(roots, a))
<1>1. DOMAIN a.index \subseteq AllPaths /\ \A p \in DOMAIN a.index : EntryAt(a, p) \in Entry
  BY FoundInPlace
<1>2. IsFiniteSet(DOMAIN a.index)
  BY <1>1, PathsFinite, FS_Subset
<1>3. ASSUME NEW p \in DOMAIN a.index PROVE FactOK(Browse!FactOf(roots, p, EntryAt(a, p)))
  <2>1. EntryAt(a, p).doc \in Bodies
    BY <1>1 DEF Entry
  <2>2. EntryAt(a, p).doc.work \in BOOLEAN
    BY <2>1 DEF Bodies, AllPaths, Browse!BrowsingAssumption
  <2>3. Browse!ScopeIn(roots, p) \in ScopeOrNone
    BY <1>1, ScopeType
  <2> QED BY <2>2, <2>3 DEF FactOK, Browse!FactOf
<1> QED BY <1>2, <1>3 DEF FactsOK, FactsAt

(* The lists that are built anew. *)
LEMMA RebuiltMeans ==
  ASSUME NEW a, Placed(a), NEW roots
  PROVE  Browse!Rebuilt(roots, a.shown) =
           [roots |-> roots, at |-> a.index, facts |-> FactsAt(roots, a),
            members |-> Browse!MembersOf(FactsAt(roots, a)),
            tally |-> Browse!TallyOf(FactsAt(roots, a)), hits |-> None]
<1> DEFINE paths == { a.shown[i].path : i \in DOMAIN a.shown }
           at == [p \in paths |-> CHOOSE i \in DOMAIN a.shown : a.shown[i].path = p]
           facts == [p \in paths |-> Browse!FactOf(roots, p, a.shown[at[p]].entry)]
<1>1. Browse!Rebuilt(roots, a.shown) =
        [roots |-> roots, at |-> at, facts |-> facts, members |-> Browse!MembersOf(facts),
         tally |-> Browse!TallyOf(facts), hits |-> None]
  BY DEF Browse!Rebuilt
<1>2. paths = DOMAIN a.index
  BY FoundInPlace
<1>3. /\ \A p \in DOMAIN a.index : at[p] = a.index[p]
      /\ at = [p \in DOMAIN a.index |-> at[p]]
  <2>1. \A p \in DOMAIN a.index :
          PlaceAmong(a.shown, p) = a.index[p]
    BY FoundInPlace
  <2> HIDE DEF paths
  <2>2. \A p \in DOMAIN a.index : at[p] = PlaceAmong(a.shown, p)
    BY <1>2 DEF PlaceAmong
  <2>3. at = [p \in DOMAIN a.index |-> at[p]]
    BY <1>2
  <2> HIDE DEF at
  <2> QED BY <2>1, <2>2, <2>3
<1> HIDE DEF paths
<1> HIDE DEF at
<1>4. at = a.index
  BY <1>3 DEF Placed
<1>5. facts = FactsAt(roots, a)
  BY <1>2, <1>4 DEF FactsAt, EntryAt
<1> HIDE DEF facts
<1> QED BY <1>1, <1>4, <1>5

LEMMA RebuiltIsRight ==
  ASSUME Browse!BrowsingAssumption, NEW a, Placed(a), NEW roots
  PROVE  LET lists == Browse!Rebuilt(roots, a.shown)
         IN  Right(lists, a) /\ lists.roots = roots /\ lists.hits = None
<1> DEFINE lists == Browse!Rebuilt(roots, a.shown)
           facts == FactsAt(roots, a)
<1>1. lists = [roots |-> roots, at |-> a.index, facts |-> facts,
               members |-> Browse!MembersOf(facts), tally |-> Browse!TallyOf(facts),
               hits |-> None]
  BY RebuiltMeans
<1> HIDE DEF lists
<1>2. FactsOK(facts)
  BY FactsAtOK
<1>3. DOMAIN facts = DOMAIN a.index
  BY DEF FactsAt
<1> HIDE DEF facts
<1>4. lists = [k \in Fields |-> lists[k]]
  BY <1>1 DEF Fields
<1>5. /\ lists.roots = roots /\ lists.at = a.index /\ lists.facts = facts
      /\ lists.members = Browse!MembersOf(facts) /\ lists.tally = Browse!TallyOf(facts)
      /\ lists.hits = None
  BY <1>1
<1>6. lists.at = [p \in DOMAIN facts |-> lists.at[p]]
  BY <1>3, <1>5 DEF Placed
<1>7. Consistent(lists)
  BY <1>2, <1>4, <1>5, <1>6 DEF Consistent
<1> QED BY <1>5, <1>7 DEF Right, facts, lists

LEMMA RightIsRebuilt ==
  ASSUME NEW a, Placed(a), NEW lists, Right(lists, a)
  PROVE  /\ [lists EXCEPT !.hits = None] = Browse!Rebuilt(lists.roots, a.shown)
         /\ lists.hits # None => lists.hits = Browse!HitsOf(lists.facts, lists.hits.needle)
<1>1. /\ lists = [k \in Fields |-> lists[k]] /\ lists.at = a.index
      /\ lists.facts = FactsAt(lists.roots, a)
      /\ lists.members = Browse!MembersOf(lists.facts)
      /\ lists.tally = Browse!TallyOf(lists.facts)
  BY DEF Right, Consistent
<1>2. [lists EXCEPT !.hits = None] =
        [roots |-> lists.roots, at |-> lists.at, facts |-> lists.facts,
         members |-> lists.members, tally |-> lists.tally, hits |-> None]
  BY <1>1 DEF Fields
<1>3. Browse!Rebuilt(lists.roots, a.shown) =
        [roots |-> lists.roots, at |-> a.index, facts |-> FactsAt(lists.roots, a),
         members |-> Browse!MembersOf(FactsAt(lists.roots, a)),
         tally |-> Browse!TallyOf(FactsAt(lists.roots, a)), hits |-> None]
  BY RebuiltMeans
<1>4. [lists EXCEPT !.hits = None] = Browse!Rebuilt(lists.roots, a.shown)
  BY <1>1, <1>2, <1>3, Zenon
<1> QED BY <1>4 DEF Right, Consistent

(* Looking up another needle. *)
LEMMA LookedIsRight ==
  ASSUME NEW a, NEW lists, Right(lists, a), NEW needle, needle # None
  PROVE  Right(Browse!Looked(lists, needle), a)
<1> DEFINE hits == Browse!HitsOf(lists.facts, needle)
           later == [lists EXCEPT !.hits = hits]
<1>1. hits.needle = needle
  BY DEF Browse!HitsOf
<1> HIDE DEF hits
<1>2. /\ DOMAIN lists = Fields /\ lists = [k \in Fields |-> lists[k]]
  BY DEF Right, Consistent
<1>3. /\ later = [k \in Fields |-> later[k]]
      /\ later.roots = lists.roots /\ later.at = lists.at /\ later.facts = lists.facts
      /\ later.members = lists.members /\ later.tally = lists.tally /\ later.hits = hits
  BY <1>2 DEF Fields
<1> HIDE DEF later
<1>4. Consistent(later)
  BY <1>1, <1>3 DEF Right, Consistent, hits
<1>5. Right(later, a)
  BY <1>3, <1>4 DEF Right
<1> QED BY <1>5 DEF Browse!Looked, later, hits

(* The cards of what is shown. *)
CardedAt(roots, a, paths) ==
  { p \in DOMAIN a.index \cap paths :
      Browse!ScopeIn(roots, p) # None /\ EntryAt(a, p).doc.identity # None }

CardsAt(roots, a, paths) ==
  [p \in CardedAt(roots, a, paths) |->
     <<Browse!ScopeIn(roots, p), EntryAt(a, p).doc.identity>>]

LEMMA CardsMeans ==
  ASSUME NEW a, Placed(a), NEW roots, NEW paths
  PROVE  Browse!CardsOf(roots, a.shown, paths) = CardsAt(roots, a, paths)
<1> DEFINE CardAt(p) == CHOOSE i \in DOMAIN a.shown : a.shown[i].path = p
           carded == { p \in { a.shown[i].path : i \in DOMAIN a.shown } :
                         /\ p \in paths /\ Browse!ScopeIn(roots, p) # None
                         /\ a.shown[CardAt(p)].entry.doc.identity # None }
<1>1. Browse!CardsOf(roots, a.shown, paths) =
        [p \in carded |-> <<Browse!ScopeIn(roots, p), a.shown[CardAt(p)].entry.doc.identity>>]
  BY DEF Browse!CardsOf
<1>2. \A p : CardAt(p) = PlaceAmong(a.shown, p)
  BY DEF PlaceAmong
<1> HIDE DEF CardAt
<1>3. \A p \in DOMAIN a.index : a.shown[CardAt(p)].entry = EntryAt(a, p)
  BY <1>2, FoundInPlace DEF EntryAt
<1>4. carded = CardedAt(roots, a, paths)
  <2>1. { a.shown[i].path : i \in DOMAIN a.shown } = DOMAIN a.index
    BY FoundInPlace
  <2>2. carded = { p \in DOMAIN a.index :
                     /\ p \in paths /\ Browse!ScopeIn(roots, p) # None
                     /\ a.shown[CardAt(p)].entry.doc.identity # None }
    BY <2>1
  <2> HIDE DEF carded
  <2> QED BY <1>3, <2>2 DEF CardedAt
<1> HIDE DEF carded
<1>5. \A p \in carded : a.shown[CardAt(p)].entry = EntryAt(a, p)
  BY <1>3, <1>4 DEF CardedAt
<1>6. [p \in carded |-> <<Browse!ScopeIn(roots, p), a.shown[CardAt(p)].entry.doc.identity>>]
        = [p \in carded |-> <<Browse!ScopeIn(roots, p), EntryAt(a, p).doc.identity>>]
  BY <1>5
<1> QED BY <1>1, <1>4, <1>6 DEF CardsAt

(* Cards of what has not changed are kept. *)
LEMMA CardsMerge ==
  ASSUME NEW a, NEW b, NEW roots, NEW changed,
         DOMAIN b.index \ changed = DOMAIN a.index \ changed,
         \A p \in DOMAIN b.index \ changed : EntryAt(b, p) = EntryAt(a, p)
  PROVE  Browse!Over(CardsAt(roots, b, changed),
                     Browse!Drop(CardsAt(roots, a, DOMAIN a.index), changed))
           = CardsAt(roots, b, DOMAIN b.index)
<1> DEFINE new == CardsAt(roots, b, changed)
           kept == Browse!Drop(CardsAt(roots, a, DOMAIN a.index), changed)
           all == CardsAt(roots, b, DOMAIN b.index)
<1>1. /\ DOMAIN new = CardedAt(roots, b, changed)
      /\ DOMAIN kept = CardedAt(roots, a, DOMAIN a.index) \ changed
      /\ DOMAIN all = CardedAt(roots, b, DOMAIN b.index)
  BY DEF CardsAt, Browse!Drop, Browse!Restrict
<1> HIDE DEF new, kept, all
<1>2. DOMAIN all = DOMAIN new \cup DOMAIN kept
  <2> SUFFICES ASSUME NEW p PROVE p \in DOMAIN all <=> p \in DOMAIN new \cup DOMAIN kept
    OBVIOUS
  <2>1. CASE p \in changed
    BY <1>1, <2>1 DEF CardedAt
  <2>2. CASE p \notin changed
    <3>1. p \in DOMAIN b.index <=> p \in DOMAIN a.index
      BY <2>2
    <3>2. p \in DOMAIN b.index => EntryAt(b, p) = EntryAt(a, p)
      BY <2>2
    <3> QED BY <1>1, <2>2, <3>1, <3>2 DEF CardedAt
  <2> QED BY <2>1, <2>2
<1>3. \A p \in DOMAIN new : new[p] = all[p]
  BY <1>1, <1>2 DEF CardsAt, new, all
<1>4. ASSUME NEW p \in DOMAIN kept, p \notin DOMAIN new PROVE kept[p] = all[p]
  <2>1. p \in DOMAIN b.index \ changed
    BY <1>1 DEF CardedAt
  <2>2. EntryAt(b, p) = EntryAt(a, p)
    BY <2>1
  <2>3. kept[p] = CardsAt(roots, a, DOMAIN a.index)[p]
    BY DEF Browse!Drop, Browse!Restrict, kept
  <2>4. p \in CardedAt(roots, a, DOMAIN a.index) /\ p \in CardedAt(roots, b, DOMAIN b.index)
    BY <1>1, <1>2
  <2> QED BY <2>2, <2>3, <2>4 DEF CardsAt, all
<1>5. all = [p \in DOMAIN all |-> all[p]]
  BY DEF CardsAt, all
<1>6. Browse!Over(new, kept) = all
  BY <1>2, <1>3, <1>4, <1>5 DEF Browse!Over
<1> QED BY <1>6 DEF new, kept, all

(* An update of what changed and what was moved makes the lists right. *)
LEMMA UpdatedIsRight ==
  ASSUME Browse!BrowsingAssumption, NEW a, Placed(a), NEW b, Placed(b), Right(a.lists, a),
         NEW changed,
         DOMAIN b.index \ changed = DOMAIN a.index \ changed,
         \A p \in DOMAIN b.index \ changed : EntryAt(b, p) = EntryAt(a, p)
  PROVE  LET later == Browse!Updated(a.lists, b.shown, b.index,
                                     Browse!IndexChanges(a, b, changed))
         IN  Right(later, b) /\ later.roots = a.lists.roots
<1> DEFINE paths == Browse!IndexChanges(a, b, changed)
           later == Browse!Updated(a.lists, b.shown, b.index, paths)
           lists == a.lists
           roots == a.lists.roots
<1>1. /\ Consistent(lists) /\ lists.at = a.index /\ lists.facts = FactsAt(roots, a)
      /\ DOMAIN lists.facts = DOMAIN a.index
      /\ \A p \in DOMAIN a.index : lists.facts[p] = Browse!FactOf(roots, p, EntryAt(a, p))
  BY DEF Right, FactsAt
<1>2. ASSUME NEW p \in DOMAIN b.index PROVE b.shown[b.index[p]].entry.doc.work \in BOOLEAN
  <2>1. EntryAt(b, p).doc \in Bodies
    BY FoundInPlace DEF Entry
  <2> QED BY <2>1 DEF Bodies, AllPaths, Browse!BrowsingAssumption, EntryAt
<1> HIDE DEF lists
<1>3. /\ Consistent(later) /\ later.roots = lists.roots
      /\ \A p \in AllPaths \cap paths : ListedRight(later, b.shown, b.index, p)
      /\ \A p : p \notin AllPaths \cap paths => ListedAsBefore(lists, later, p)
  <2> HIDE DEF paths
  <2> QED BY <1>1, <1>2, UpdatedMeans DEF lists
<1>4. DOMAIN a.index \subseteq AllPaths /\ DOMAIN b.index \subseteq AllPaths
  BY FoundInPlace
<1>5. \A p : p \notin paths => /\ p \in DOMAIN b.index <=> p \in DOMAIN a.index
                               /\ p \in DOMAIN b.index => /\ b.index[p] = a.index[p]
                                                          /\ EntryAt(b, p) = EntryAt(a, p)
  BY DEF Browse!IndexChanges
<1> HIDE DEF paths, later
<1>6. ASSUME NEW p
      PROVE  /\ p \in DOMAIN later.facts <=> p \in DOMAIN b.index
             /\ p \in DOMAIN b.index => /\ later.at[p] = b.index[p]
                                        /\ later.facts[p] = Browse!FactOf(roots, p, EntryAt(b, p))
  <2>1. CASE p \in AllPaths \cap paths
    BY <1>3, <2>1 DEF ListedRight, EntryAt, lists
  <2>2. CASE p \notin AllPaths \cap paths
    <3>1. ListedAsBefore(lists, later, p)
      BY <1>3, <2>2
    <3>2. p \in DOMAIN a.index <=> p \in DOMAIN b.index
      BY <1>4, <1>5, <2>2
    <3>3. p \in DOMAIN b.index => b.index[p] = a.index[p] /\ EntryAt(b, p) = EntryAt(a, p)
      BY <1>4, <1>5, <2>2
    <3> QED BY <1>1, <3>1, <3>2, <3>3 DEF ListedAsBefore
  <2> QED BY <2>1, <2>2
<1>7. DOMAIN later.facts = DOMAIN b.index
  BY <1>6
<1>8. later.at = b.index
  <2>1. later.at = [p \in DOMAIN b.index |-> later.at[p]]
    BY <1>3, <1>7 DEF Consistent
  <2>2. b.index = [p \in DOMAIN b.index |-> b.index[p]]
    BY DEF Placed
  <2> QED BY <1>6, <2>1, <2>2
<1>9. later.facts = FactsAt(later.roots, b)
  <2>1. later.facts = [p \in DOMAIN b.index |-> later.facts[p]]
    BY <1>3, <1>7 DEF Consistent, FactsOK
  <2> QED BY <1>3, <1>6, <2>1 DEF FactsAt, lists
<1> QED BY <1>3, <1>8, <1>9 DEF Right, later, paths, lists

(* What is merged. *)
LEMMA MergedMeans ==
  ASSUME Browse!BrowsingAssumption, NEW a, Placed(a), Right(a.lists, a),
         a.cards = CardsAt(a.lists.roots, a, DOMAIN a.index),
         NEW taken, DOMAIN taken.entries \subseteq AllPaths, taken.removed \subseteq AllPaths,
         \A p \in DOMAIN taken.entries : taken.entries[p] \in Entry
  PROVE  LET b == Browse!Merged(a, taken)
         IN  /\ Placed(b) /\ Right(b.lists, b)
             /\ b.cards = CardsAt(b.lists.roots, b, DOMAIN b.index)
             /\ b.browser = a.browser /\ b.resumed = a.resumed /\ b.feedback = a.feedback
             /\ b.lists.roots = IF taken.roots # None THEN taken.roots ELSE a.lists.roots
             /\ DOMAIN b.index = (DOMAIN a.index \ taken.removed) \cup DOMAIN taken.entries
             /\ \A p \in DOMAIN taken.entries : EntryAt(b, p) = taken.entries[p]
             /\ \A p \in DOMAIN b.index \ DOMAIN taken.entries : EntryAt(b, p) = EntryAt(a, p)
<1> DEFINE b == Browse!Merged(a, taken)
           changed == DOMAIN taken.entries \cup taken.removed
           rest == Browse!Without(a, taken.removed)
           m == Browse!Showing(rest, taken.entries)
           lists == IF taken.roots # None THEN Browse!Rebuilt(taken.roots, m.shown)
                    ELSE Browse!Updated(m.lists, m.shown, m.index,
                                        Browse!IndexChanges(a, m, changed))
           cards == IF taken.roots # None
                    THEN Browse!CardsOf(taken.roots, m.shown, DOMAIN m.index)
                    ELSE Browse!Over(Browse!CardsOf(a.lists.roots, m.shown, changed),
                                     Browse!Drop(m.cards, changed))
<1>1. b = [m EXCEPT !.lists = lists, !.cards = cards]
  BY DEF Browse!Merged
<1>2. /\ Placed(rest) /\ SameBut(a, rest)
      /\ DOMAIN rest.index = DOMAIN a.index \ (AllPaths \cap taken.removed)
      /\ \A p \in DOMAIN rest.index : EntryAt(rest, p) = EntryAt(a, p)
  BY WithoutMeans
<1> HIDE DEF rest
<1>3. /\ Placed(m) /\ SameBut(rest, m)
      /\ DOMAIN m.index = DOMAIN rest.index \cup DOMAIN taken.entries
      /\ \A p \in DOMAIN taken.entries : EntryAt(m, p) = taken.entries[p]
      /\ \A p \in DOMAIN rest.index \ DOMAIN taken.entries : EntryAt(m, p) = EntryAt(rest, p)
  BY <1>2, ShowingMeans
<1> HIDE DEF m, b, lists, cards, changed
<1>4. SameBut(a, m)
  BY <1>2, <1>3 DEF SameBut
<1>5. /\ DOMAIN m.index = (DOMAIN a.index \ taken.removed) \cup DOMAIN taken.entries
      /\ \A p \in DOMAIN m.index \ DOMAIN taken.entries : EntryAt(m, p) = EntryAt(a, p)
  BY <1>2, <1>3
<1>6. /\ b = [k \in AppFields |-> b[k]]
      /\ b.shown = m.shown /\ b.index = m.index /\ b.lists = lists /\ b.cards = cards
      /\ b.browser = m.browser /\ b.resumed = m.resumed /\ b.feedback = m.feedback
  <2>1. DOMAIN m = AppFields
    BY <1>3 DEF Placed
  <2> QED BY <1>1, <2>1 DEF AppFields
<1>7. Placed(b)
  <2>1. Matched(m.shown, m.index) /\ m.index = [p \in DOMAIN m.index |-> m.index[p]]
    BY <1>3 DEF Placed
  <2> QED BY <1>6, <2>1 DEF Placed
<1>8. /\ DOMAIN m.index \ changed = DOMAIN a.index \ changed
      /\ \A p \in DOMAIN m.index \ changed : EntryAt(m, p) = EntryAt(a, p)
  BY <1>5 DEF changed
<1>9. /\ Right(lists, m)
      /\ lists.roots = IF taken.roots # None THEN taken.roots ELSE a.lists.roots
      /\ cards = CardsAt(lists.roots, m, DOMAIN m.index)
  <2>1. CASE taken.roots # None
    <3>1. lists = Browse!Rebuilt(taken.roots, m.shown)
      BY <2>1 DEF lists
    <3>2. cards = Browse!CardsOf(taken.roots, m.shown, DOMAIN m.index)
      BY <2>1 DEF cards
    <3>3. Right(lists, m) /\ lists.roots = taken.roots
      BY <1>3, <3>1, RebuiltIsRight
    <3>4. cards = CardsAt(taken.roots, m, DOMAIN m.index)
      BY <1>3, <3>2, CardsMeans
    <3> QED BY <2>1, <3>3, <3>4
  <2>2. CASE taken.roots = None
    <3>1. lists = Browse!Updated(a.lists, m.shown, m.index, Browse!IndexChanges(a, m, changed))
      BY <1>4, <2>2 DEF lists, SameBut
    <3>2. Right(lists, m) /\ lists.roots = a.lists.roots
      BY <1>3, <1>8, <3>1, UpdatedIsRight
    <3>3. cards = Browse!Over(CardsAt(a.lists.roots, m, changed),
                              Browse!Drop(CardsAt(a.lists.roots, a, DOMAIN a.index), changed))
      <4>1. Browse!CardsOf(a.lists.roots, m.shown, changed) = CardsAt(a.lists.roots, m, changed)
        BY <1>3, CardsMeans
      <4> QED BY <1>4, <2>2, <4>1 DEF cards, SameBut
    <3>4. cards = CardsAt(a.lists.roots, m, DOMAIN m.index)
      <4> DEFINE roots == a.lists.roots
      <4>1. cards = Browse!Over(CardsAt(roots, m, changed),
                                Browse!Drop(CardsAt(roots, a, DOMAIN a.index), changed))
        BY <3>3
      <4> HIDE DEF roots
      <4>2. Browse!Over(CardsAt(roots, m, changed),
                        Browse!Drop(CardsAt(roots, a, DOMAIN a.index), changed))
              = CardsAt(roots, m, DOMAIN m.index)
        BY <1>8, CardsMerge
      <4> QED BY <4>1, <4>2 DEF roots
    <3> QED BY <2>2, <3>2, <3>4
  <2> QED BY <2>1, <2>2
<1>10. /\ \A p : EntryAt(b, p) = EntryAt(m, p)
       /\ \A roots : FactsAt(roots, b) = FactsAt(roots, m)
       /\ \A roots, paths : CardsAt(roots, b, paths) = CardsAt(roots, m, paths)
  <2>1. \A p : EntryAt(b, p) = EntryAt(m, p)
    BY <1>6 DEF EntryAt
  <2> QED BY <1>6, <2>1 DEF FactsAt, CardsAt, CardedAt
<1>11. Right(b.lists, b) /\ b.cards = CardsAt(b.lists.roots, b, DOMAIN b.index)
  BY <1>6, <1>9, <1>10 DEF Right
<1>12. b.browser = a.browser /\ b.resumed = a.resumed /\ b.feedback = a.feedback
  BY <1>4, <1>6 DEF SameBut
<1>13. /\ DOMAIN b.index = (DOMAIN a.index \ taken.removed) \cup DOMAIN taken.entries
       /\ \A p \in DOMAIN taken.entries : EntryAt(b, p) = taken.entries[p]
       /\ \A p \in DOMAIN b.index \ DOMAIN taken.entries : EntryAt(b, p) = EntryAt(a, p)
  BY <1>3, <1>5, <1>6, <1>10
<1> QED BY <1>6, <1>7, <1>9, <1>11, <1>12, <1>13 DEF b

-----------------------------------------------------------------------------
(* The application between two draws. *)

BrowserFields == {"view", "project", "investigation", "path", "filter"}

AppOK(a) ==
  /\ Placed(a) /\ Right(a.lists, a)
  /\ a.cards = CardsAt(a.lists.roots, a, DOMAIN a.index)
  /\ DOMAIN a.browser = BrowserFields

(* What is shown is all that lists and cards depend on. *)
SameItems(a, b) == b.shown = a.shown /\ b.index = a.index

LEMMA SameItemsSame ==
  ASSUME NEW a, NEW b, SameItems(a, b)
  PROVE  /\ \A p : EntryAt(b, p) = EntryAt(a, p)
         /\ \A roots : FactsAt(roots, b) = FactsAt(roots, a)
         /\ \A roots, paths : CardsAt(roots, b, paths) = CardsAt(roots, a, paths)
         /\ \A lists : Right(lists, b) <=> Right(lists, a)
         /\ Matched(b.shown, b.index) <=> Matched(a.shown, a.index)
<1>1. \A p : EntryAt(b, p) = EntryAt(a, p)
  BY DEF EntryAt, SameItems
<1>2. \A roots : FactsAt(roots, b) = FactsAt(roots, a)
  BY <1>1 DEF FactsAt, SameItems
<1>3. \A roots, paths : CardedAt(roots, b, paths) = CardedAt(roots, a, paths)
  BY <1>1 DEF CardedAt, SameItems
<1>4. \A roots, paths : CardsAt(roots, b, paths) = CardsAt(roots, a, paths)
  BY <1>1, <1>3 DEF CardsAt
<1> QED BY <1>1, <1>2, <1>4 DEF Right, SameItems

LEMMA AppBut ==
  ASSUME NEW a, AppOK(a), NEW b, SameItems(a, b), b = [k \in AppFields |-> b[k]],
         Right(b.lists, a), b.lists.roots = a.lists.roots, b.cards = a.cards,
         DOMAIN b.browser = BrowserFields
  PROVE  AppOK(b)
<1>1. Matched(a.shown, a.index) /\ a.index = [p \in DOMAIN a.index |-> a.index[p]]
  BY DEF AppOK, Placed
<1>2. Placed(b)
  BY <1>1 DEF SameItems, Placed
<1>3. Right(b.lists, b)
  BY SameItemsSame
<1>4. b.cards = CardsAt(b.lists.roots, b, DOMAIN b.index)
  <2>1. a.cards = CardsAt(a.lists.roots, a, DOMAIN a.index)
    BY DEF AppOK
  <2>2. DOMAIN b.index = DOMAIN a.index
    BY DEF SameItems
  <2>3. CardsAt(a.lists.roots, b, DOMAIN a.index) = CardsAt(a.lists.roots, a, DOMAIN a.index)
    BY SameItemsSame
  <2> QED BY <2>1, <2>2, <2>3
<1> QED BY <1>2, <1>3, <1>4 DEF AppOK

(* Nothing is shown at first. *)
LEMMA NoAppOK ==
  ASSUME Browse!BrowsingAssumption, NEW browser, DOMAIN browser = BrowserFields, NEW resumed
  PROVE  LET a == Browse!NoApp(browser, resumed)
         IN  /\ AppOK(a) /\ DOMAIN a.index = {} /\ a.lists.roots = <<>>
<1> DEFINE a == Browse!NoApp(browser, resumed)
<1>1. a = [shown |-> <<>>, index |-> <<>>, lists |-> Browse!Rebuilt(<<>>, <<>>), cards |-> <<>>,
           browser |-> browser, resumed |-> resumed, feedback |-> None]
  BY DEF Browse!NoApp
<1> HIDE DEF a
<1>2. /\ a.shown = <<>> /\ a.index = <<>> /\ a.cards = <<>> /\ a.browser = browser
      /\ a.lists = Browse!Rebuilt(<<>>, <<>>)
  BY <1>1
<1>3. a = [k \in AppFields |-> a[k]]
  BY <1>1 DEF AppFields
<1>4. DOMAIN a.index = {} /\ a.index = [p \in DOMAIN a.index |-> a.index[p]]
  BY <1>2
<1>5. Matched(a.shown, a.index)
  BY <1>2 DEF Matched
<1>6. Placed(a)
  BY <1>3, <1>4, <1>5 DEF Placed
<1>7. Right(a.lists, a) /\ a.lists.roots = <<>>
  <2> DEFINE roots == <<>>
  <2>1. a.lists = Browse!Rebuilt(roots, a.shown)
    BY <1>2
  <2> HIDE DEF roots
  <2>2. LET lists == Browse!Rebuilt(roots, a.shown)
        IN  Right(lists, a) /\ lists.roots = roots /\ lists.hits = None
    BY <1>6, RebuiltIsRight
  <2> QED BY <2>1, <2>2 DEF roots
<1>8. a.cards = CardsAt(a.lists.roots, a, DOMAIN a.index)
  BY <1>2, <1>4 DEF CardsAt, CardedAt
<1> QED BY <1>2, <1>4, <1>6, <1>7, <1>8 DEF AppOK, a

(* A filter is looked up before the lists are. *)
LEMMA LookedMeans ==
  ASSUME NEW a, NEW lists, Right(lists, a), NEW needle
  PROVE  /\ Right(Browse!Looked(lists, needle), a)
         /\ Browse!Looked(lists, needle).roots = lists.roots
<1>1. CASE needle = None
  <2>1. Browse!Looked(lists, needle) = lists
    BY <1>1 DEF Browse!Looked
  <2> QED BY <2>1
<1>2. CASE needle # None
  <2>1. DOMAIN lists = Fields
    BY DEF Right, Consistent
  <2>2. Browse!Looked(lists, needle).roots = lists.roots
    BY <2>1 DEF Browse!Looked, Fields
  <2> QED BY <1>2, <2>2, LookedIsRight
<1> QED BY <1>1, <1>2

LEMMA BrowsersKept ==
  ASSUME NEW lists, NEW browser
  PROVE  /\ DOMAIN Browse!Normal(lists, browser) = DOMAIN browser
         /\ DOMAIN Browse!Filled(lists, browser) = DOMAIN browser
  BY DEF Browse!Normal, Browse!Filled

(* What is found again, level by level. *)
ProjectFound(a, anchor) ==
  Browse!Resolved(anchor.project, anchor.projectAt, DOMAIN a.lists.roots,
                  Browse!VisibleProjects(a.lists, a.browser))

ProjectMoved(a, anchor) == ProjectFound(a, anchor).value # anchor.project

ProjectOpened(a, anchor) ==
  [a.browser EXCEPT !.project = ProjectFound(a, anchor).value,
                    !.investigation = IF ProjectMoved(a, anchor) THEN None
                                      ELSE a.browser.investigation]

InvestigationFound(a, anchor) ==
  LET project == ProjectFound(a, anchor).value
      roots == a.lists.roots
  IN  Browse!Resolved(IF ProjectMoved(a, anchor) THEN None ELSE anchor.investigation,
                      IF ProjectMoved(a, anchor) THEN 1 ELSE anchor.investigationAt,
                      IF project \in DOMAIN roots THEN roots[project] ELSE {},
                      Browse!VisibleInvestigations(a.lists, ProjectOpened(a, anchor)))

ScopeOpened(a, anchor) ==
  [ProjectOpened(a, anchor) EXCEPT !.investigation = InvestigationFound(a, anchor).value]

RecordFound(a, anchor) ==
  IF a.browser.view \notin {"tickets", "files"} THEN [value |-> None, notice |-> None]
  ELSE Browse!ResolvedRecord(a, ScopeOpened(a, anchor),
         IF \/ ProjectMoved(a, anchor)
            \/ InvestigationFound(a, anchor).value # anchor.investigation
         THEN None ELSE anchor.record)

NoticeFound(a, anchor) ==
  IF RecordFound(a, anchor).notice # None THEN RecordFound(a, anchor).notice
  ELSE IF InvestigationFound(a, anchor).notice # None THEN InvestigationFound(a, anchor).notice
  ELSE ProjectFound(a, anchor).notice

LEMMA PromotedUnfolds ==
  ASSUME NEW a, NEW anchor
  PROVE  Browse!Promoted(a, anchor) =
           [a EXCEPT
              !.browser = [ScopeOpened(a, anchor) EXCEPT !.path = RecordFound(a, anchor).value],
              !.resumed = None, !.feedback = NoticeFound(a, anchor)]
  BY DEF Browse!Promoted, ProjectFound, ProjectMoved, ProjectOpened, InvestigationFound,
         ScopeOpened, RecordFound, NoticeFound

LEMMA BrowserPromoted ==
  ASSUME NEW a, a = [k \in AppFields |-> a[k]], NEW anchor
  PROVE  LET b == Browse!Promoted(a, anchor)
         IN  /\ b = [k \in AppFields |-> b[k]] /\ SameItems(a, b)
             /\ b.lists = a.lists /\ b.cards = a.cards
             /\ DOMAIN b.browser = DOMAIN a.browser
<1> DEFINE browser == [ScopeOpened(a, anchor) EXCEPT !.path = RecordFound(a, anchor).value]
<1>1. Browse!Promoted(a, anchor) =
        [a EXCEPT !.browser = browser, !.resumed = None, !.feedback = NoticeFound(a, anchor)]
  BY PromotedUnfolds
<1>2. DOMAIN a = AppFields /\ DOMAIN browser = DOMAIN a.browser
  BY DEF ScopeOpened, ProjectOpened
<1> HIDE DEF browser
<1> QED BY <1>1, <1>2 DEF AppFields, SameItems

(* What is applied is right. *)
LEMMA AppliedMeans ==
  ASSUME Browse!BrowsingAssumption, NEW a, AppOK(a),
         NEW taken, DOMAIN taken.entries \subseteq AllPaths, taken.removed \subseteq AllPaths,
         \A p \in DOMAIN taken.entries : taken.entries[p] \in Entry
  PROVE  LET b == Browse!Applied(a, taken)
         IN  /\ AppOK(b)
             /\ b.lists.roots = IF taken.roots # None THEN taken.roots ELSE a.lists.roots
             /\ DOMAIN b.index = (DOMAIN a.index \ taken.removed) \cup DOMAIN taken.entries
             /\ \A p \in DOMAIN taken.entries : EntryAt(b, p) = taken.entries[p]
             /\ \A p \in DOMAIN b.index \ DOMAIN taken.entries : EntryAt(b, p) = EntryAt(a, p)
<1> DEFINE b == Browse!Applied(a, taken)
           anchor == IF a.resumed # None THEN a.resumed ELSE Browse!Anchor(a)
           m == Browse!Merged(a, taken)
           lists == Browse!Looked(m.lists, a.browser.filter)
           looked == [m EXCEPT !.lists = lists]
           filled == [looked EXCEPT !.browser = Browse!Filled(looked.lists, looked.browser)]
<1>1. b = CASE update = "complete" -> Browse!Promoted(looked, anchor)
            [] update = "partial" -> filled
            [] OTHER -> looked
  BY DEF Browse!Applied
<1>2. /\ Placed(m) /\ Right(m.lists, m)
      /\ m.cards = CardsAt(m.lists.roots, m, DOMAIN m.index)
      /\ m.browser = a.browser
      /\ m.lists.roots = IF taken.roots # None THEN taken.roots ELSE a.lists.roots
      /\ DOMAIN m.index = (DOMAIN a.index \ taken.removed) \cup DOMAIN taken.entries
      /\ \A p \in DOMAIN taken.entries : EntryAt(m, p) = taken.entries[p]
      /\ \A p \in DOMAIN m.index \ DOMAIN taken.entries : EntryAt(m, p) = EntryAt(a, p)
  BY MergedMeans DEF AppOK
<1> HIDE DEF m, b, anchor
<1>3. Right(lists, m) /\ lists.roots = m.lists.roots
  BY <1>2, LookedMeans
<1> HIDE DEF lists
<1>4. /\ looked = [k \in AppFields |-> looked[k]] /\ SameItems(m, looked)
      /\ looked.lists = lists /\ looked.cards = m.cards /\ looked.browser = m.browser
  <2>1. DOMAIN m = AppFields
    BY <1>2 DEF Placed
  <2> QED BY <2>1 DEF AppFields, SameItems
<1> HIDE DEF looked
<1>5. /\ b = [k \in AppFields |-> b[k]] /\ SameItems(looked, b)
      /\ b.lists = looked.lists /\ b.cards = looked.cards
      /\ DOMAIN b.browser = DOMAIN looked.browser
  <2>1. CASE update = "complete"
    <3>1. b = Browse!Promoted(looked, anchor)
      BY <1>1, <2>1
    <3> QED BY <1>4, <3>1, BrowserPromoted
  <2>2. CASE update = "partial"
    <3>1. b = filled
      BY <1>1, <2>2
    <3>2. DOMAIN looked = AppFields
      BY <1>4
    <3>3. DOMAIN Browse!Filled(looked.lists, looked.browser) = DOMAIN looked.browser
      BY BrowsersKept
    <3> QED BY <3>1, <3>2, <3>3 DEF AppFields, SameItems
  <2>3. CASE update \notin {"complete", "partial"}
    <3>1. b = looked
      BY <1>1, <2>3
    <3> QED BY <1>4, <3>1 DEF SameItems
  <2> QED BY <2>1, <2>2, <2>3
<1>6. AppOK(m)
  BY <1>2 DEF AppOK
<1>7. SameItems(m, b) /\ b.lists = lists /\ b.cards = m.cards /\ DOMAIN b.browser = BrowserFields
  BY <1>2, <1>4, <1>5 DEF SameItems, AppOK
<1>8. AppOK(b)
  BY <1>3, <1>5, <1>6, <1>7, AppBut
<1>9. DOMAIN b.index = DOMAIN m.index /\ \A p : EntryAt(b, p) = EntryAt(m, p)
  BY <1>7, SameItemsSame DEF SameItems
<1>10. b.lists.roots = IF taken.roots # None THEN taken.roots ELSE a.lists.roots
  BY <1>2, <1>3, <1>7
<1> QED BY <1>2, <1>8, <1>9, <1>10 DEF b

-----------------------------------------------------------------------------
(* The invariant of the browser. *)

CoordFields ==
  {"entries", "owner", "known", "complete", "pending", "changed", "removed", "active", "content",
   "attempted"}

LoadFields == {"target", "roots", "todo", "entries"}

ContentFields == {"path", "scope", "pended", "got"}

\* Only what is fetched on demand is not parsed.
EntriesOK(entries) ==
  /\ DOMAIN entries \subseteq AllPaths
  /\ \A p \in DOMAIN entries : entries[p] \in Entry /\ (~ entries[p].parsed => p \in Lazy)

LoadOK(active) ==
  active # None =>
    /\ DOMAIN active = LoadFields /\ EntriesOK(active.entries) /\ active.todo \subseteq AllPaths

ContentOK(asked) ==
  asked # None =>
    /\ DOMAIN asked = ContentFields /\ asked.path \in AllPaths \cap Lazy
    /\ asked.scope \in ScopeOrNone
    /\ asked.got # None => asked.got.doc \in DocsOf[asked.path]

CoordOK(c) ==
  /\ DOMAIN c = CoordFields
  /\ EntriesOK(c.entries) /\ LoadOK(c.active) /\ ContentOK(c.content)
  /\ c.changed \subseteq AllPaths /\ c.removed \subseteq AllPaths
  /\ c.known # None /\ c.complete \in BOOLEAN /\ c.pending \in BOOLEAN

\* What has been removed and is there again has changed, after a completed load only what it has
\* changes while the next one runs, no load has the body of a file the coordinator does not have,
\* and a first load and the coordinator know the same projects.
Ordered(c) ==
  /\ c.removed \cap DOMAIN c.entries \subseteq c.changed
  /\ c.active # None =>
       /\ c.complete => c.changed \subseteq DOMAIN c.entries
       /\ \A p \in DOMAIN c.active.entries \cap Lazy :
            p \in DOMAIN c.entries \/ ~ c.active.entries[p].parsed
       /\ ~ c.complete /\ c.active.roots # None => c.known = c.active.roots

\* What has not changed is shown as it is, what is shown is there or is about to go, and the lists
\* are of the projects the coordinator knows unless it is about to say otherwise.
Coherent(c, a, gone) ==
  /\ \A p \in DOMAIN c.entries :
       p \in c.changed \/ (p \in DOMAIN a.index /\ EntryAt(a, p) = c.entries[p])
  /\ c.complete => DOMAIN a.index \subseteq DOMAIN c.entries \cup c.removed \cup gone
  /\ ~ c.complete /\ c.active # None =>
       DOMAIN a.index \subseteq DOMAIN c.entries \cup DOMAIN c.active.entries \cup gone
  /\ c.pending \/ a.lists.roots = c.known

Updates == {"none", "partial", "content", "complete"}

\* Changes are told, and when the workbench has drawn all of them have been.
TurnOK(c, told, turn) ==
  /\ told \in Updates
  /\ told = "none" => c.changed = {} /\ c.removed = {} /\ ~ c.pending
  /\ turn = "key" => told = "none"

WorldOK(there, roots) ==
  /\ DOMAIN there = AllPaths /\ \A p \in AllPaths : there[p] \in DocsOf[p]
  /\ roots \in Catalogues

BrowseInv ==
  /\ WorldOK(files, tree)
  /\ AppOK(app)
  /\ CoordOK(coordinator) /\ Ordered(coordinator)
  /\ Coherent(coordinator, app, abandoned)
  /\ TurnOK(coordinator, update, step)

(* A change that is told is told. *)
LEMMA MoreMeans ==
  ASSUME update \in Updates, NEW change \in {"partial", "content"}
  PROVE  Browse!More(change) \in Updates /\ Browse!More(change) # "none"
<1> DEFINE ranks == <<"none", "partial", "content", "complete">>
<1>1. Browse!PlaceIn(ranks, "none") = 1 /\ Browse!PlaceIn(ranks, "partial") = 2
  BY DEF Browse!PlaceIn, Browse!Range
<1>2. Browse!PlaceIn(ranks, "content") = 3
  BY DEF Browse!PlaceIn, Browse!Range
<1>3. Browse!More(change) =
        IF Browse!PlaceIn(ranks, change) > Browse!PlaceIn(ranks, update) THEN change ELSE update
  BY DEF Browse!More
<1> HIDE DEF ranks
<1> QED BY <1>1, <1>2, <1>3 DEF Updates

(* The body of a file is asked for only where it is not there. *)
LEMMA AskedMeans ==
  ASSUME NEW c, CoordOK(c), NEW p
  PROVE  LET d == Browse!Asked(c, p)
         IN  /\ CoordOK(d)
             /\ d.entries = c.entries /\ d.known = c.known /\ d.complete = c.complete
             /\ d.pending = c.pending /\ d.changed = c.changed /\ d.removed = c.removed
             /\ d.active = c.active
<1> DEFINE d == Browse!Asked(c, p)
           entry == Browse!EntryOf(c, p)
<1>1. \E content0, attempted :
        /\ d = [c EXCEPT !.content = content0, !.attempted = attempted]
        /\ \/ content0 \in {None, c.content}
           \/ /\ p \in Browse!Loaded(c) /\ ~ entry.parsed
              /\ content0 = [path |-> p, scope |-> entry.scope, pended |-> FALSE, got |-> None]
  <2> DEFINE stays == IF c.content = None THEN c.content
                      ELSE IF c.content.path = p THEN c.content ELSE None
             tried == IF c.attempted = None THEN c.attempted
                      ELSE IF c.attempted.path = p THEN c.attempted ELSE None
             stayed == [c EXCEPT !.content = stays, !.attempted = tried]
             handle == [target |-> Browse!TargetOf(c, p), path |-> p, doc |-> entry.doc]
             new == [path |-> p, scope |-> entry.scope, pended |-> FALSE, got |-> None]
  <2>1. d = IF p \notin Browse!Loaded(c) THEN stayed
            ELSE IF entry.parsed \/ handle.target = None \/ stayed.attempted = handle THEN stayed
            ELSE [stayed EXCEPT !.attempted = handle, !.content = new]
    BY DEF Browse!Asked
  <2>2. stays \in {None, c.content}
    OBVIOUS
  <2>3. DOMAIN c = CoordFields
    BY DEF CoordOK
  <2> HIDE DEF d, stays, tried, handle, new
  <2>4. [stayed EXCEPT !.attempted = handle, !.content = new] =
          [c EXCEPT !.content = new, !.attempted = handle]
    BY <2>3 DEF CoordFields
  <2>5. CASE d = stayed
    BY <2>2, <2>5
  <2>6. CASE d # stayed
    <3>1. d = [c EXCEPT !.content = new, !.attempted = handle]
      BY <2>1, <2>4, <2>6
    <3>2. p \in Browse!Loaded(c) /\ ~ entry.parsed
      BY <2>1, <2>6
    <3> QED BY <3>1, <3>2 DEF new
  <2> QED BY <2>5, <2>6
<1>2. PICK content0, attempted :
        /\ d = [c EXCEPT !.content = content0, !.attempted = attempted]
        /\ \/ content0 \in {None, c.content}
           \/ /\ p \in Browse!Loaded(c) /\ ~ entry.parsed
              /\ content0 = [path |-> p, scope |-> entry.scope, pended |-> FALSE, got |-> None]
  BY <1>1
<1> HIDE DEF d
<1>3. /\ DOMAIN d = CoordFields
      /\ d.entries = c.entries /\ d.known = c.known /\ d.complete = c.complete
      /\ d.pending = c.pending /\ d.changed = c.changed /\ d.removed = c.removed
      /\ d.active = c.active /\ d.content = content0
  BY <1>2 DEF CoordOK, CoordFields
<1>4. ContentOK(content0)
  <2>1. CASE content0 \in {None, c.content}
    BY <2>1 DEF CoordOK, ContentOK
  <2>2. CASE p \in Browse!Loaded(c) /\ ~ entry.parsed
             /\ content0 = [path |-> p, scope |-> entry.scope, pended |-> FALSE, got |-> None]
    <3>1. p \in AllPaths \cap Lazy /\ entry \in Entry
      BY <2>2 DEF Browse!Loaded, Browse!EntryOf, CoordOK, EntriesOK, LoadOK
    <3> HIDE DEF entry
    <3>2. entry.scope \in ScopeOrNone
      BY <3>1 DEF Entry
    <3>3. /\ content0.path = p /\ content0.scope = entry.scope /\ content0.got = None
          /\ DOMAIN content0 = ContentFields
      BY <2>2 DEF ContentFields
    <3> QED BY <3>1, <3>2, <3>3 DEF ContentOK
  <2> QED BY <1>2, <2>1, <2>2
<1> QED BY <1>3, <1>4 DEF CoordOK, d

(* What a batch takes is still to be read. *)
LEMMA BatchIsTodo ==
  ASSUME NEW load0 PROVE Browse!NextBatch(load0) \subseteq load0.todo
  BY DEF Browse!NextBatch

(* A catalogue names the projects. *)
LEMMA CatalogueKeeps ==
  ASSUME Browse!BrowsingAssumption, BrowseInv, Browse!CatalogueArrives
  PROVE  BrowseInv'
<1> DEFINE c == coordinator
           d == coordinator'
           listed == Browse!Listed(c.active.target, tree) /\ DOMAIN tree # {}
           todo == { p \in AllPaths : listed /\ Browse!Below(c.active.target, p) }
<1>1. /\ c.active # None /\ c.active.roots = None /\ step = "load"
      /\ d = [c EXCEPT !.active.roots = tree, !.active.todo = todo,
                       !.known = IF c.complete THEN c.known ELSE tree,
                       !.pending = c.pending \/ ~ c.complete]
      /\ update' = IF c.complete THEN update ELSE Browse!More("partial")
      /\ UNCHANGED <<files, tree, app, step, abandoned>>
  BY DEF Browse!CatalogueArrives, Browse!Loading, AllPaths
<1>2. todo \subseteq AllPaths
  OBVIOUS
<1>3. /\ DOMAIN c = CoordFields /\ EntriesOK(c.entries) /\ LoadOK(c.active) /\ ContentOK(c.content)
      /\ c.changed \subseteq AllPaths /\ c.removed \subseteq AllPaths
      /\ c.known # None /\ c.complete \in BOOLEAN /\ c.pending \in BOOLEAN
      /\ DOMAIN c.active = LoadFields /\ EntriesOK(c.active.entries)
  BY <1>1 DEF BrowseInv, CoordOK, LoadOK
<1> HIDE DEF todo
<1>4. /\ DOMAIN d = CoordFields /\ d.entries = c.entries /\ d.content = c.content
      /\ d.changed = c.changed /\ d.removed = c.removed /\ d.complete = c.complete
      /\ d.known = (IF c.complete THEN c.known ELSE tree)
      /\ d.pending = (c.pending \/ ~ c.complete)
      /\ DOMAIN d.active = LoadFields /\ d.active.entries = c.active.entries
      /\ d.active.roots = tree /\ d.active.todo = todo
  BY <1>1, <1>3 DEF CoordFields, LoadFields
<1>5. tree # None
  BY DEF BrowseInv, WorldOK, Browse!BrowsingAssumption
<1>6. CoordOK(d)
  BY <1>2, <1>3, <1>4, <1>5 DEF CoordOK, LoadOK
<1>7. Ordered(d)
  BY <1>1, <1>3, <1>4 DEF BrowseInv, Ordered
<1>8. Coherent(d, app, abandoned)
  BY <1>1, <1>3, <1>4 DEF BrowseInv, Coherent
<1>9. TurnOK(d, update', step)
  <2>1. CASE c.complete
    BY <1>1, <1>4, <2>1 DEF BrowseInv, TurnOK
  <2>2. CASE ~ c.complete
    <3>1. update' \in Updates /\ update' # "none"
      BY <1>1, <2>2, MoreMeans DEF BrowseInv, TurnOK
    <3> QED BY <1>1, <3>1 DEF TurnOK
  <2> QED BY <2>1, <2>2
<1> QED BY <1>1, <1>6, <1>7, <1>8, <1>9 DEF BrowseInv

(* Entries are read of one scope. *)
LEMMA EntriesKeep ==
  ASSUME Browse!BrowsingAssumption, BrowseInv, Browse!EntriesArrive
  PROVE  BrowseInv'
<1> DEFINE c == coordinator
           d == coordinator'
           active == c.active
           batch == Browse!NextBatch(active)
           present == { p \in batch : files[p] # None }
           taken == { p \in present :
                        ~ Browse!Outside(active.target, active.roots,
                                         Browse!ScopeIn(active.roots, p)) }
           Read(p) == [doc |-> files[p], scope |-> Browse!ScopeIn(active.roots, p),
                       parsed |-> p \notin Lazy]
           got == [p \in taken |-> Read(p)]
           entries == Browse!Over(got, active.entries)
<1>1. /\ active # None /\ step = "load"
      /\ d = [c EXCEPT !.active.todo = active.todo \ batch, !.active.entries = entries,
                       !.changed = IF c.complete THEN c.changed ELSE c.changed \cup taken]
      /\ update' = IF c.complete \/ present = {} THEN update ELSE Browse!More("partial")
      /\ UNCHANGED <<files, tree, app, step, abandoned>>
  BY DEF Browse!EntriesArrive, Browse!Loading
<1>2. /\ DOMAIN c = CoordFields /\ EntriesOK(c.entries) /\ ContentOK(c.content)
      /\ c.changed \subseteq AllPaths /\ c.removed \subseteq AllPaths
      /\ c.known # None /\ c.complete \in BOOLEAN /\ c.pending \in BOOLEAN
      /\ DOMAIN active = LoadFields /\ EntriesOK(active.entries) /\ active.todo \subseteq AllPaths
  BY <1>1 DEF BrowseInv, CoordOK, LoadOK
<1>3. taken \subseteq present /\ present \subseteq AllPaths /\ \A p \in present : files[p] # None
  BY <1>2, BatchIsTodo
<1> HIDE DEF batch, present, taken
<1>4. \A p \in taken : Read(p) \in Entry /\ (~ Read(p).parsed <=> p \in Lazy)
  <2> SUFFICES ASSUME NEW p \in taken
               PROVE  Read(p) \in Entry /\ (~ Read(p).parsed <=> p \in Lazy)
    OBVIOUS
  <2>1. files[p] \in Bodies
    BY <1>3 DEF BrowseInv, WorldOK, Bodies
  <2>2. Browse!ScopeIn(active.roots, p) \in ScopeOrNone
    BY <1>3, ScopeType
  <2> QED BY <2>1, <2>2 DEF Entry
<1>5. /\ DOMAIN entries = taken \cup DOMAIN active.entries
      /\ \A p \in taken : entries[p] = Read(p)
      /\ \A p \in DOMAIN active.entries \ taken : entries[p] = active.entries[p]
  BY DEF Browse!Over
<1> HIDE DEF Read, entries
<1>6. EntriesOK(entries)
  BY <1>2, <1>3, <1>4, <1>5 DEF EntriesOK
<1>7. /\ DOMAIN d = CoordFields /\ d.entries = c.entries /\ d.content = c.content
      /\ d.changed = (IF c.complete THEN c.changed ELSE c.changed \cup taken)
      /\ d.removed = c.removed /\ d.complete = c.complete
      /\ d.known = c.known /\ d.pending = c.pending
      /\ DOMAIN d.active = LoadFields /\ d.active.entries = entries
      /\ d.active.roots = active.roots /\ d.active.todo = active.todo \ batch
  BY <1>1, <1>2 DEF CoordFields, LoadFields
<1> HIDE DEF d
<1>8. CoordOK(d)
  BY <1>2, <1>3, <1>6, <1>7 DEF CoordOK, LoadOK
<1>9. Ordered(d)
  <2>1. /\ c.removed \cap DOMAIN c.entries \subseteq c.changed
        /\ c.complete => c.changed \subseteq DOMAIN c.entries
        /\ \A p \in DOMAIN active.entries \cap Lazy :
             p \in DOMAIN c.entries \/ ~ active.entries[p].parsed
        /\ ~ c.complete /\ active.roots # None => c.known = active.roots
    BY <1>1 DEF BrowseInv, Ordered
  <2>2. \A p \in DOMAIN entries \cap Lazy : p \in DOMAIN c.entries \/ ~ entries[p].parsed
    BY <1>4, <1>5, <2>1
  <2> HIDE DEF active
  <2> QED BY <1>7, <2>1, <2>2 DEF Ordered
<1>10. Coherent(d, app, abandoned)
  <2> HIDE DEF active
  <2> QED BY <1>1, <1>5, <1>7 DEF BrowseInv, Coherent, active
<1>11. TurnOK(d, update', step)
  <2>1. CASE c.complete
    BY <1>1, <1>7, <2>1 DEF BrowseInv, TurnOK
  <2>2. CASE present = {}
    BY <1>1, <1>3, <1>7, <2>2 DEF BrowseInv, TurnOK
  <2>3. CASE ~ c.complete /\ present # {}
    <3>1. update' \in Updates /\ update' # "none"
      BY <1>1, <2>3, MoreMeans DEF BrowseInv, TurnOK
    <3> QED BY <1>1, <3>1 DEF TurnOK
  <2> QED BY <2>1, <2>2, <2>3
<1> QED BY <1>1, <1>8, <1>9, <1>10, <1>11 DEF BrowseInv, d

(* A load is complete: what it did not find of its target is gone. *)
LEMMA CompletionKeeps ==
  ASSUME Browse!BrowsingAssumption, BrowseInv, Browse!LoadCompletes
  PROVE  BrowseInv'
<1> DEFINE c == coordinator
           d == coordinator'
           active == c.active
           gone == { p \in DOMAIN c.entries \ DOMAIN active.entries :
                       /\ Browse!Below(active.target, p)
                       /\ ~ Browse!Outside(active.target, active.roots, c.entries[p].scope) }
           fresh == { p \in DOMAIN active.entries :
                        p \in DOMAIN c.entries => c.entries[p] # active.entries[p] }
           owner == Browse!Over([p \in DOMAIN active.entries |-> active.target],
                                Browse!Drop(c.owner, gone))
           entries == Browse!Over(active.entries, Browse!Drop(c.entries, gone))
<1>1. /\ active # None /\ step = "load" /\ active.roots # None
      /\ d = [c EXCEPT !.entries = entries, !.owner = owner, !.known = active.roots,
                       !.pending = c.pending \/ (c.complete /\ c.known # active.roots),
                       !.changed = c.changed \cup fresh, !.removed = c.removed \cup gone,
                       !.complete = TRUE, !.active = None]
      /\ update' = "complete"
      /\ UNCHANGED <<files, tree, app, step, abandoned>>
  BY DEF Browse!LoadCompletes, Browse!Loading, Browse!AllRead
<1>2. /\ DOMAIN c = CoordFields /\ EntriesOK(c.entries) /\ ContentOK(c.content)
      /\ c.changed \subseteq AllPaths /\ c.removed \subseteq AllPaths
      /\ c.known # None /\ c.complete \in BOOLEAN /\ c.pending \in BOOLEAN
      /\ EntriesOK(active.entries)
  BY <1>1 DEF BrowseInv, CoordOK, LoadOK
<1>3. /\ gone \subseteq DOMAIN c.entries \ DOMAIN active.entries
      /\ fresh \subseteq DOMAIN active.entries
      /\ \A p \in DOMAIN active.entries \ fresh :
           p \in DOMAIN c.entries /\ c.entries[p] = active.entries[p]
  OBVIOUS
<1> HIDE DEF gone, fresh, owner
<1>4. /\ DOMAIN entries = DOMAIN active.entries \cup (DOMAIN c.entries \ gone)
      /\ \A p \in DOMAIN active.entries : entries[p] = active.entries[p]
      /\ \A p \in DOMAIN c.entries \ (gone \cup DOMAIN active.entries) : entries[p] = c.entries[p]
  BY DEF Browse!Over, Browse!Drop, Browse!Restrict
<1> HIDE DEF entries
<1>5. EntriesOK(entries)
  BY <1>2, <1>4 DEF EntriesOK
<1>6. /\ DOMAIN d = CoordFields /\ d.entries = entries /\ d.content = c.content
      /\ d.changed = c.changed \cup fresh /\ d.removed = c.removed \cup gone
      /\ d.complete = TRUE /\ d.known = active.roots /\ d.active = None
      /\ d.pending = (c.pending \/ (c.complete /\ c.known # active.roots))
  BY <1>1, <1>2 DEF CoordFields
<1> HIDE DEF d, active
<1>7. gone \subseteq AllPaths /\ fresh \subseteq AllPaths
  BY <1>2, <1>3 DEF EntriesOK
<1>8. CoordOK(d)
  BY <1>1, <1>2, <1>5, <1>6, <1>7 DEF CoordOK, LoadOK
<1>9. Ordered(d)
  <2>1. c.removed \cap DOMAIN c.entries \subseteq c.changed
    BY DEF BrowseInv, Ordered
  <2>2. d.removed \cap DOMAIN d.entries \subseteq d.changed
    BY <1>3, <1>4, <1>6, <2>1
  <2> QED BY <1>6, <2>2 DEF Ordered
<1>10. Coherent(d, app, abandoned)
  <2>1. ASSUME NEW p \in DOMAIN d.entries
        PROVE  p \in d.changed \/ (p \in DOMAIN app.index /\ EntryAt(app, p) = d.entries[p])
    <3>1. \A q \in DOMAIN c.entries :
            q \in c.changed \/ (q \in DOMAIN app.index /\ EntryAt(app, q) = c.entries[q])
      BY DEF BrowseInv, Coherent
    <3>2. CASE p \in DOMAIN active.entries
      BY <1>3, <1>4, <1>6, <3>1, <3>2
    <3>3. CASE p \notin DOMAIN active.entries
      BY <1>4, <1>6, <2>1, <3>1, <3>3
    <3> QED BY <3>2, <3>3
  <2>2. DOMAIN app.index \subseteq DOMAIN d.entries \cup d.removed \cup abandoned
    <3>1. CASE c.complete
      BY <1>4, <1>6, <3>1 DEF BrowseInv, Coherent
    <3>2. CASE ~ c.complete
      <4>1. DOMAIN app.index \subseteq DOMAIN c.entries \cup DOMAIN active.entries \cup abandoned
        BY <1>1, <3>2 DEF BrowseInv, Coherent, active
      <4> QED BY <1>4, <1>6, <4>1
    <3> QED BY <3>1, <3>2
  <2>3. d.pending \/ app.lists.roots = d.known
    <3>1. c.pending \/ app.lists.roots = c.known
      BY DEF BrowseInv, Coherent
    <3>2. ~ c.complete => c.known = active.roots
      BY <1>1 DEF BrowseInv, Ordered, active
    <3> QED BY <1>6, <3>1, <3>2
  <2> QED BY <1>6, <2>1, <2>2, <2>3 DEF Coherent
<1>11. TurnOK(d, update', step)
  BY <1>1 DEF TurnOK, Updates
<1> QED BY <1>1, <1>8, <1>9, <1>10, <1>11 DEF BrowseInv, d

(* Files change. *)
LEMMA ChangesKeep ==
  ASSUME BrowseInv, Browse!Changes PROVE BrowseInv'
<1>1. /\ UNCHANGED <<coordinator, app, update, step, abandoned>>
      /\ \/ /\ \E p \in AllPaths : \E doc \in DocsOf[p] : files' = [files EXCEPT ![p] = doc]
            /\ tree' = tree
         \/ tree' \in Catalogues /\ files' = files
  BY DEF Browse!Changes, AllPaths
<1>2. WorldOK(files', tree')
  BY <1>1 DEF BrowseInv, WorldOK
<1> QED BY <1>1, <1>2 DEF BrowseInv

(* A load that fails is given up, and a content request that is answered is over. *)
LEMMA LeftKeeps ==
  ASSUME BrowseInv, NEW field \in {"active", "content"},
         coordinator' = [coordinator EXCEPT ![field] = None],
         update' \in Updates, update' = "none" => update = "none", step' = step, step # "key",
         UNCHANGED <<files, tree, app, abandoned>>
  PROVE  BrowseInv'
<1> DEFINE c == coordinator
           d == coordinator'
<1>1. CoordOK(c) /\ DOMAIN c = CoordFields
  BY DEF BrowseInv, CoordOK
<1>2. /\ DOMAIN d = CoordFields
      /\ \A k \in CoordFields \ {field} : d[k] = c[k]
      /\ d[field] = None
  BY <1>1 DEF CoordFields
<1>3. /\ d.entries = c.entries /\ d.known = c.known /\ d.complete = c.complete
      /\ d.pending = c.pending /\ d.changed = c.changed /\ d.removed = c.removed
      /\ d.active \in {c.active, None} /\ d.content \in {c.content, None}
  BY <1>2 DEF CoordFields
<1> HIDE DEF d
<1>4. CoordOK(d)
  BY <1>1, <1>2, <1>3 DEF CoordOK, LoadOK, ContentOK
<1>5. Ordered(d) /\ Coherent(d, app, abandoned)
  BY <1>3 DEF BrowseInv, Ordered, Coherent
<1>6. TurnOK(d, update', step)
  BY <1>3 DEF BrowseInv, TurnOK
<1> QED BY <1>4, <1>5, <1>6 DEF BrowseInv, d

LEMMA FailureKeeps ==
  ASSUME BrowseInv, Browse!LoadFails PROVE BrowseInv'
<1>1. /\ step = "load" /\ coordinator' = [coordinator EXCEPT !["active"] = None]
      /\ UNCHANGED <<files, tree, app, update, step, abandoned>>
  BY DEF Browse!LoadFails, Browse!Loading
<1>2. update \in Updates
  BY DEF BrowseInv, TurnOK
<1> QED BY <1>1, <1>2, LeftKeeps

LEMMA ContentFailureKeeps ==
  ASSUME BrowseInv, Browse!ContentFails PROVE BrowseInv'
<1>1. /\ step = "content" /\ coordinator' = [coordinator EXCEPT !["content"] = None]
      /\ update' = Browse!More("content")
      /\ UNCHANGED <<files, tree, app, step, abandoned>>
  BY DEF Browse!ContentFails, Browse!Answering
<1>2. update' \in Updates /\ update' # "none"
  BY <1>1, MoreMeans DEF BrowseInv, TurnOK
<1> QED BY <1>1, <1>2, LeftKeeps

(* What a request has come to changes nothing else. *)
LEMMA RequestKeeps ==
  ASSUME BrowseInv, NEW asked, ContentOK(asked),
         coordinator' = [coordinator EXCEPT !.content = asked],
         update' \in Updates, update' = "none" => update = "none", step' = step, step # "key",
         UNCHANGED <<files, tree, app, abandoned>>
  PROVE  BrowseInv'
<1> DEFINE c == coordinator
           d == coordinator'
<1>1. CoordOK(c) /\ DOMAIN c = CoordFields
  BY DEF BrowseInv, CoordOK
<1>2. /\ DOMAIN d = CoordFields
      /\ d.entries = c.entries /\ d.known = c.known /\ d.complete = c.complete
      /\ d.pending = c.pending /\ d.changed = c.changed /\ d.removed = c.removed
      /\ d.active = c.active /\ d.content = asked
  BY <1>1 DEF CoordFields
<1> HIDE DEF d
<1>3. CoordOK(d)
  BY <1>1, <1>2 DEF CoordOK
<1>4. Ordered(d) /\ Coherent(d, app, abandoned)
  BY <1>2 DEF BrowseInv, Ordered, Coherent
<1>5. TurnOK(d, update', step)
  BY <1>2 DEF BrowseInv, TurnOK
<1> QED BY <1>3, <1>4, <1>5 DEF BrowseInv, d

LEMMA ReadingKeeps ==
  ASSUME BrowseInv, Browse!ContentIsRead PROVE BrowseInv'
<1> DEFINE asked == coordinator.content
           got == [doc |-> files[asked.path]]
           later == [asked EXCEPT !.got = got]
<1>1. /\ step = "load" /\ asked # None
      /\ coordinator' = [coordinator EXCEPT !.content = later]
      /\ UNCHANGED <<files, tree, app, update, step, abandoned>>
  BY DEF Browse!ContentIsRead
<1>2. /\ DOMAIN asked = ContentFields /\ asked.path \in AllPaths \cap Lazy
      /\ asked.scope \in ScopeOrNone
  BY <1>1 DEF BrowseInv, CoordOK, ContentOK
<1>3. got.doc \in DocsOf[asked.path]
  BY <1>2 DEF BrowseInv, WorldOK
<1> HIDE DEF got
<1>4. /\ DOMAIN later = ContentFields /\ later.path = asked.path /\ later.scope = asked.scope
      /\ later.got = got
  BY <1>2 DEF ContentFields
<1> HIDE DEF later
<1>5. ContentOK(later)
  BY <1>2, <1>3, <1>4 DEF ContentOK
<1>6. update \in Updates
  BY DEF BrowseInv, TurnOK
<1> QED BY <1>1, <1>5, <1>6, RequestKeeps

LEMMA PendingKeeps ==
  ASSUME BrowseInv, Browse!ContentPends PROVE BrowseInv'
<1> DEFINE asked == coordinator.content
           later == [asked EXCEPT !.pended = TRUE]
<1>1. /\ step = "content" /\ asked # None
      /\ coordinator' = [coordinator EXCEPT !.content = later]
      /\ update' = Browse!More("content")
      /\ UNCHANGED <<files, tree, app, step, abandoned>>
  BY DEF Browse!ContentPends, Browse!Answering
<1>2. DOMAIN asked = ContentFields /\ ContentOK(asked)
  BY <1>1 DEF BrowseInv, CoordOK, ContentOK
<1>3. /\ DOMAIN later = ContentFields /\ later.path = asked.path /\ later.scope = asked.scope
      /\ later.got = asked.got
  BY <1>2 DEF ContentFields
<1> HIDE DEF later
<1>4. ContentOK(later)
  BY <1>1, <1>2, <1>3 DEF ContentOK
<1>5. update' \in Updates /\ update' # "none"
  BY <1>1, MoreMeans DEF BrowseInv, TurnOK
<1> QED BY <1>1, <1>4, <1>5, RequestKeeps

(* The content of an entry takes its place. *)
LEMMA ContentKeeps ==
  ASSUME Browse!BrowsingAssumption, BrowseInv, Browse!ContentArrives
  PROVE  BrowseInv'
<1> DEFINE c == coordinator
           d == coordinator'
           asked == c.content
           p == asked.path
           entry == [doc |-> asked.got.doc, scope |-> asked.scope, parsed |-> TRUE]
           active == c.active
           entries == Browse!Put(c.entries, p, entry)
           same == p \in Browse!Loaded(c) /\ Browse!EntryOf(c, p) = entry
           later == IF active = None \/ p \notin DOMAIN active.entries THEN active
                    ELSE [active EXCEPT !.entries = Browse!Put(active.entries, p, entry)]
<1>1. /\ step = "content" /\ asked # None /\ asked.got # None /\ asked.got.doc # None
      /\ d = [c EXCEPT !.entries = entries,
                       !.changed = IF same THEN c.changed ELSE c.changed \cup {p},
                       !.active = later, !.content = None]
      /\ update' = Browse!More("content")
      /\ UNCHANGED <<files, tree, app, step, abandoned>>
  BY DEF Browse!ContentArrives, Browse!Answering
<1>2. /\ CoordOK(c) /\ DOMAIN c = CoordFields /\ EntriesOK(c.entries) /\ LoadOK(active)
      /\ c.changed \subseteq AllPaths /\ c.removed \subseteq AllPaths
      /\ c.known # None /\ c.complete \in BOOLEAN /\ c.pending \in BOOLEAN
  BY DEF BrowseInv, CoordOK
<1>3. /\ p \in AllPaths /\ p \in Lazy /\ asked.scope \in ScopeOrNone
      /\ asked.got.doc \in DocsOf[p]
  BY <1>1 DEF BrowseInv, CoordOK, ContentOK
<1>4. entry \in Entry /\ entry.parsed
  <2>1. asked.got.doc \in Bodies
    BY <1>1, <1>3 DEF Bodies
  <2> QED BY <1>3, <2>1 DEF Entry
<1>5. same <=> \/ p \in DOMAIN c.entries /\ c.entries[p] = entry
               \/ /\ p \notin DOMAIN c.entries /\ active # None
                  /\ p \in DOMAIN active.entries /\ active.entries[p] = entry
  BY DEF Browse!Loaded, Browse!EntryOf
<1> HIDE DEF d, p, entry, same, active, asked
<1>6. /\ DOMAIN entries = DOMAIN c.entries \cup {p} /\ entries[p] = entry
      /\ \A q \in DOMAIN c.entries : q # p => entries[q] = c.entries[q]
  BY DEF Browse!Put
<1>7. /\ later # None => active # None
      /\ active # None =>
           /\ DOMAIN later = LoadFields /\ later.roots = active.roots /\ later.todo = active.todo
           /\ DOMAIN later.entries = DOMAIN active.entries
           /\ \A q \in DOMAIN active.entries :
                later.entries[q] = IF q = p THEN entry ELSE active.entries[q]
  <2>1. active # None => DOMAIN active = LoadFields
    BY <1>2 DEF LoadOK
  <2>2. CASE active = None \/ p \notin DOMAIN active.entries
    BY <2>1, <2>2
  <2>3. CASE active # None /\ p \in DOMAIN active.entries
    <3> DEFINE put == Browse!Put(active.entries, p, entry)
    <3>1. /\ DOMAIN put = DOMAIN active.entries
          /\ \A q \in DOMAIN active.entries : put[q] = IF q = p THEN entry ELSE active.entries[q]
      BY <2>3 DEF Browse!Put
    <3> HIDE DEF put
    <3>2. later = [active EXCEPT !.entries = put]
      BY <2>3 DEF put
    <3> HIDE DEF later
    <3> QED BY <2>1, <2>3, <3>1, <3>2 DEF LoadFields
  <2> QED BY <2>2, <2>3
<1> HIDE DEF entries, later
<1>8. same => p \in DOMAIN c.entries /\ c.entries[p] = entry
  <2>1. active # None => \A q \in DOMAIN active.entries \cap Lazy :
                           q \in DOMAIN c.entries \/ ~ active.entries[q].parsed
    BY DEF BrowseInv, Ordered, active
  <2> QED BY <1>3, <1>4, <1>5, <2>1
<1>9. /\ DOMAIN d = CoordFields /\ d.entries = entries /\ d.content = None
      /\ d.changed = (IF same THEN c.changed ELSE c.changed \cup {p})
      /\ d.removed = c.removed /\ d.complete = c.complete /\ d.known = c.known
      /\ d.pending = c.pending /\ d.active = later
  <2> DEFINE changed == IF same THEN c.changed ELSE c.changed \cup {p}
  <2>1. d = [c EXCEPT !.entries = entries, !.changed = changed, !.active = later,
                      !.content = None]
    BY <1>1 DEF d, p, entry, entries, same, active, later, asked
  <2> HIDE DEF changed
  <2>2. /\ DOMAIN d = CoordFields /\ d.entries = entries /\ d.content = None
        /\ d.changed = changed
        /\ d.removed = c.removed /\ d.complete = c.complete /\ d.known = c.known
        /\ d.pending = c.pending /\ d.active = later
    BY <1>2, <2>1 DEF CoordFields
  <2> QED BY <2>2 DEF changed
<1>10. CoordOK(d)
  <2>1. EntriesOK(entries)
    BY <1>2, <1>3, <1>4, <1>6 DEF EntriesOK
  <2>2. LoadOK(later)
    BY <1>2, <1>3, <1>4, <1>7 DEF LoadOK, EntriesOK
  <2> QED BY <1>2, <1>3, <1>9, <2>1, <2>2 DEF CoordOK, ContentOK
<1>11. Ordered(d)
  <2>1. /\ c.removed \cap DOMAIN c.entries \subseteq c.changed
        /\ active # None =>
             /\ c.complete => c.changed \subseteq DOMAIN c.entries
             /\ \A q \in DOMAIN active.entries \cap Lazy :
                  q \in DOMAIN c.entries \/ ~ active.entries[q].parsed
             /\ ~ c.complete /\ active.roots # None => c.known = active.roots
    BY DEF BrowseInv, Ordered, active
  <2>2. d.removed \cap DOMAIN d.entries \subseteq d.changed
    BY <1>6, <1>8, <1>9, <2>1
  <2>3. ASSUME d.active # None
        PROVE  /\ d.complete => d.changed \subseteq DOMAIN d.entries
               /\ \A q \in DOMAIN d.active.entries \cap Lazy :
                    q \in DOMAIN d.entries \/ ~ d.active.entries[q].parsed
               /\ ~ d.complete /\ d.active.roots # None => d.known = d.active.roots
    <3>1. active # None
      BY <1>7, <1>9, <2>3
    <3>2. d.complete => d.changed \subseteq DOMAIN d.entries
      BY <1>6, <1>9, <2>1, <3>1
    <3>3. \A q \in DOMAIN d.active.entries \cap Lazy :
            q \in DOMAIN d.entries \/ ~ d.active.entries[q].parsed
      BY <1>6, <1>7, <1>9, <2>1, <3>1
    <3>4. ~ d.complete /\ d.active.roots # None => d.known = d.active.roots
      BY <1>7, <1>9, <2>1, <3>1
    <3> QED BY <3>2, <3>3, <3>4
  <2> QED BY <2>2, <2>3 DEF Ordered
<1>12. Coherent(d, app, abandoned)
  <2>1. /\ \A q \in DOMAIN c.entries :
             q \in c.changed \/ (q \in DOMAIN app.index /\ EntryAt(app, q) = c.entries[q])
        /\ c.complete => DOMAIN app.index \subseteq DOMAIN c.entries \cup c.removed \cup abandoned
        /\ ~ c.complete /\ active # None =>
             DOMAIN app.index \subseteq DOMAIN c.entries \cup DOMAIN active.entries \cup abandoned
        /\ c.pending \/ app.lists.roots = c.known
    BY DEF BrowseInv, Coherent, active
  <2>2. \A q \in DOMAIN d.entries :
          q \in d.changed \/ (q \in DOMAIN app.index /\ EntryAt(app, q) = d.entries[q])
    BY <1>6, <1>8, <1>9, <2>1
  <2>3. ~ d.complete /\ d.active # None =>
          DOMAIN app.index \subseteq DOMAIN d.entries \cup DOMAIN d.active.entries \cup abandoned
    BY <1>6, <1>7, <1>9, <2>1
  <2>4. d.complete => DOMAIN app.index \subseteq DOMAIN d.entries \cup d.removed \cup abandoned
    BY <1>6, <1>9, <2>1
  <2> QED BY <1>9, <2>1, <2>2, <2>3, <2>4 DEF Coherent
<1>13. TurnOK(d, update', step)
  <2>1. update' \in Updates /\ update' # "none"
    BY <1>1, MoreMeans DEF BrowseInv, TurnOK
  <2> QED BY <1>1, <2>1 DEF TurnOK
<1> QED BY <1>1, <1>10, <1>11, <1>12, <1>13 DEF BrowseInv, d

(* The events of a load have been drained. *)
LEMMA DrainedKeeps ==
  ASSUME BrowseInv, Browse!Drained PROVE BrowseInv'
<1>1. step' = "content" /\ UNCHANGED <<files, tree, coordinator, app, update, abandoned>>
  BY DEF Browse!Drained
<1>2. TurnOK(coordinator, update, step')
  BY <1>1 DEF BrowseInv, TurnOK
<1> QED BY <1>1, <1>2 DEF BrowseInv

(* What was changed is shown. *)
LEMMA ShowsKeep ==
  ASSUME Browse!BrowsingAssumption, BrowseInv, Browse!Shows
  PROVE  BrowseInv'
<1> DEFINE c == coordinator
           d == coordinator'
           taken == Browse!Taken(c)
           drained == IF update = "none" THEN c
                      ELSE [c EXCEPT !.changed = {}, !.removed = {}, !.pending = FALSE]
<1>1. /\ app' = IF update = "none" THEN app ELSE Browse!Applied(app, taken)
      /\ d = Browse!Asked(drained, app'.browser.path)
      /\ update' = "none" /\ step' = "key"
      /\ UNCHANGED <<files, tree, abandoned>>
  BY DEF Browse!Shows
<1>2. /\ CoordOK(c) /\ DOMAIN c = CoordFields /\ Ordered(c) /\ Coherent(c, app, abandoned)
      /\ AppOK(app) /\ TurnOK(c, update, step)
  BY DEF BrowseInv, CoordOK
<1> HIDE DEF taken
<1>3. /\ CoordOK(drained)
      /\ drained.entries = c.entries /\ drained.known = c.known
      /\ drained.complete = c.complete /\ drained.active = c.active
      /\ drained.changed = {} /\ drained.removed = {} /\ drained.pending = FALSE
  <2>1. CASE update = "none"
    <3>1. c.pending = FALSE
      BY <1>2, <2>1 DEF TurnOK, CoordOK
    <3> QED BY <1>2, <2>1, <3>1 DEF TurnOK
  <2>2. CASE update # "none"
    <3>1. drained = [c EXCEPT !.changed = {}, !.removed = {}, !.pending = FALSE]
      BY <2>2
    <3> HIDE DEF drained
    <3>2. /\ DOMAIN drained = CoordFields
          /\ drained.entries = c.entries /\ drained.known = c.known
          /\ drained.complete = c.complete /\ drained.active = c.active
          /\ drained.content = c.content
          /\ drained.changed = {} /\ drained.removed = {} /\ drained.pending = FALSE
      BY <1>2, <3>1 DEF CoordFields
    <3> QED BY <1>2, <3>2 DEF CoordOK
  <2> QED BY <2>1, <2>2
<1> HIDE DEF d, drained
<1>4. /\ CoordOK(d)
      /\ d.entries = c.entries /\ d.known = c.known /\ d.complete = c.complete
      /\ d.active = c.active /\ d.changed = {} /\ d.removed = {} /\ d.pending = FALSE
  BY <1>1, <1>3, AskedMeans
<1>5. Ordered(d)
  BY <1>2, <1>4 DEF Ordered
<1>6. TurnOK(d, update', step')
  BY <1>1, <1>4 DEF TurnOK, Updates
<1>7. AppOK(app') /\ Coherent(d, app', abandoned)
  <2>0. /\ \A p \in DOMAIN c.entries :
             p \in c.changed \/ (p \in DOMAIN app.index /\ EntryAt(app, p) = c.entries[p])
        /\ c.complete => DOMAIN app.index \subseteq DOMAIN c.entries \cup c.removed \cup abandoned
        /\ ~ c.complete /\ c.active # None =>
             DOMAIN app.index \subseteq DOMAIN c.entries \cup DOMAIN c.active.entries
                                        \cup abandoned
        /\ c.pending \/ app.lists.roots = c.known
        /\ c.removed \cap DOMAIN c.entries \subseteq c.changed
        /\ c.complete /\ c.active # None => c.changed \subseteq DOMAIN c.entries
    BY <1>2 DEF Coherent, Ordered
  <2>1. CASE update = "none"
    <3>1. app' = app /\ c.changed = {} /\ c.removed = {} /\ ~ c.pending
      BY <1>1, <1>2, <2>1 DEF TurnOK
    <3> QED BY <1>2, <1>4, <2>0, <3>1 DEF Coherent
  <2>2. CASE update # "none"
    <3> DEFINE loaded == Browse!Loaded(c)
    <3>1. /\ DOMAIN taken.entries = c.changed \cap loaded
          /\ \A p \in c.changed \cap loaded : taken.entries[p] = Browse!EntryOf(c, p)
          /\ taken.removed = c.removed
          /\ taken.roots = IF c.pending THEN c.known ELSE None
      BY DEF Browse!Taken, taken
    <3>2. /\ loaded = DOMAIN c.entries \cup (IF c.active = None THEN {}
                                             ELSE DOMAIN c.active.entries)
          /\ \A p \in DOMAIN c.entries : Browse!EntryOf(c, p) = c.entries[p]
      BY DEF Browse!Loaded, Browse!EntryOf
    <3>3. \A p \in loaded : p \in AllPaths /\ Browse!EntryOf(c, p) \in Entry
      BY <1>2 DEF Browse!Loaded, Browse!EntryOf, CoordOK, EntriesOK, LoadOK
    <3> HIDE DEF loaded
    <3>4. DOMAIN taken.entries \subseteq AllPaths /\ taken.removed \subseteq AllPaths
      BY <1>2, <3>1, <3>3 DEF CoordOK
    <3>5. \A p \in DOMAIN taken.entries : taken.entries[p] \in Entry
      BY <3>1, <3>3
    <3>6. app' = Browse!Applied(app, taken)
      BY <1>1, <2>2
    <3>7. /\ AppOK(app')
          /\ app'.lists.roots = IF taken.roots # None THEN taken.roots ELSE app.lists.roots
          /\ DOMAIN app'.index = (DOMAIN app.index \ taken.removed) \cup DOMAIN taken.entries
          /\ \A p \in DOMAIN taken.entries : EntryAt(app', p) = taken.entries[p]
          /\ \A p \in DOMAIN app'.index \ DOMAIN taken.entries :
               EntryAt(app', p) = EntryAt(app, p)
      BY <1>2, <3>4, <3>5, <3>6, AppliedMeans
    <3>8. app'.lists.roots = d.known
      BY <1>2, <1>4, <2>0, <3>1, <3>7 DEF CoordOK
    <3>9. ASSUME NEW p \in DOMAIN d.entries
          PROVE  p \in DOMAIN app'.index /\ EntryAt(app', p) = d.entries[p]
      <4>1. CASE p \in c.changed
        BY <1>4, <3>1, <3>2, <3>7, <4>1
      <4>2. CASE p \notin c.changed
        <5>1. p \notin c.removed /\ p \notin DOMAIN taken.entries
          BY <1>4, <2>0, <3>1, <4>2
        <5>2. p \in DOMAIN app.index /\ EntryAt(app, p) = c.entries[p]
          BY <1>4, <2>0, <4>2
        <5> QED BY <1>4, <3>1, <3>7, <5>1, <5>2
      <4> QED BY <4>1, <4>2
    <3>10. d.complete => DOMAIN app'.index \subseteq DOMAIN d.entries \cup abandoned
      <4> SUFFICES ASSUME c.complete
                   PROVE  DOMAIN app'.index \subseteq DOMAIN d.entries \cup abandoned
        BY <1>4
      <4>1. DOMAIN taken.entries \subseteq DOMAIN c.entries
        BY <2>0, <3>1, <3>2
      <4> QED BY <1>4, <2>0, <3>1, <3>7, <4>1
    <3>11. ~ d.complete /\ d.active # None =>
             DOMAIN app'.index \subseteq DOMAIN d.entries \cup DOMAIN d.active.entries
                                         \cup abandoned
      BY <1>4, <2>0, <3>1, <3>2, <3>7
    <3> QED BY <1>4, <3>7, <3>8, <3>9, <3>10, <3>11 DEF Coherent
  <2> QED BY <2>1, <2>2
<1> QED BY <1>1, <1>4, <1>5, <1>6, <1>7 DEF BrowseInv, d

(* A key that takes the browser elsewhere. *)
LEMMA GoesKeeps ==
  ASSUME BrowseInv, NEW browser, DOMAIN browser = BrowserFields,
         NEW lists, Right(lists, app), lists.roots = app.lists.roots, Browse!Goes(browser, lists)
  PROVE  BrowseInv'
<1>1. /\ step = "key" /\ step' = "load"
      /\ app' = [app EXCEPT !.browser = browser, !.feedback = None, !.lists = lists]
      /\ UNCHANGED <<files, tree, coordinator, update, abandoned>>
  BY DEF Browse!Goes
<1>2. AppOK(app) /\ DOMAIN app = AppFields
  BY DEF BrowseInv, AppOK, Placed
<1>3. /\ app' = [k \in AppFields |-> app'[k]] /\ SameItems(app, app')
      /\ app'.lists = lists /\ app'.cards = app.cards /\ app'.browser = browser
  BY <1>1, <1>2 DEF AppFields, SameItems
<1>4. AppOK(app')
  BY <1>2, <1>3, AppBut
<1>5. Coherent(coordinator, app', abandoned)
  <2>1. DOMAIN app'.index = DOMAIN app.index /\ \A p : EntryAt(app', p) = EntryAt(app, p)
    BY <1>3, SameItemsSame DEF SameItems
  <2> QED BY <1>3, <2>1 DEF BrowseInv, Coherent
<1>6. TurnOK(coordinator, update, step')
  BY <1>1 DEF BrowseInv, TurnOK
<1> QED BY <1>1, <1>4, <1>5, <1>6 DEF BrowseInv

LEMMA SetsViewKeeps ==
  ASSUME BrowseInv, Browse!SetsView PROVE BrowseInv'
<1>1. PICK view \in Browse!Views :
        Browse!Goes(Browse!Normal(app.lists, [app.browser EXCEPT !.view = view]), app.lists)
  BY DEF Browse!SetsView
<1> DEFINE browser == Browse!Normal(app.lists, [app.browser EXCEPT !.view = view])
<1>2. DOMAIN browser = BrowserFields /\ Right(app.lists, app)
  BY BrowsersKept DEF BrowseInv, AppOK
<1> HIDE DEF browser
<1> QED BY <1>1, <1>2, GoesKeeps DEF browser

LEMMA MovesKeep ==
  ASSUME BrowseInv, Browse!Moves PROVE BrowseInv'
<1>1. PICK where \in {"first", "last", "next", "previous"} :
        Browse!Goes(Browse!Moved(app.browser, where), app.lists)
  BY DEF Browse!Moves
<1> DEFINE browser == Browse!Moved(app.browser, where)
<1>2. DOMAIN browser = DOMAIN app.browser
  <2> DEFINE b == app.browser
             project == Browse!Neighbour(b.project, Browse!VisibleProjects(app.lists, b), where)
             investigation ==
               Browse!Neighbour(b.investigation, Browse!VisibleInvestigations(app.lists, b), where)
             path == Browse!Neighbour(b.path, Browse!VisiblePaths(app.lists, b), where)
             one == [b EXCEPT !.project = project, !.investigation = None, !.path = None]
             two == [b EXCEPT !.investigation = investigation]
             three == [b EXCEPT !.path = path]
  <2>1. browser = CASE b.view = "projects" ->
                         IF project = b.project THEN b ELSE Browse!Normal(app.lists, one)
                    [] b.view = "investigations" ->
                         IF investigation = b.investigation THEN b
                         ELSE Browse!Normal(app.lists, two)
                    [] OTHER -> three
    BY DEF Browse!Moved
  <2>2. DOMAIN one = DOMAIN b /\ DOMAIN two = DOMAIN b /\ DOMAIN three = DOMAIN b
    OBVIOUS
  <2> HIDE DEF project, investigation, path, one, two, three, browser
  <2> QED BY <2>1, <2>2, BrowsersKept
<1>3. DOMAIN browser = BrowserFields /\ Right(app.lists, app)
  BY <1>2 DEF BrowseInv, AppOK
<1> HIDE DEF browser
<1> QED BY <1>1, <1>3, GoesKeeps DEF browser

LEMMA FiltersKeep ==
  ASSUME BrowseInv, Browse!Filters PROVE BrowseInv'
<1>1. PICK needle :
        LET looked == Browse!Looked(app.lists, needle)
        IN  Browse!Goes(Browse!Normal(looked, [app.browser EXCEPT !.filter = needle]), looked)
  BY DEF Browse!Filters
<1> DEFINE looked == Browse!Looked(app.lists, needle)
           browser == Browse!Normal(looked, [app.browser EXCEPT !.filter = needle])
<1>2. DOMAIN browser = BrowserFields
  BY BrowsersKept DEF BrowseInv, AppOK
<1>3. Right(looked, app) /\ looked.roots = app.lists.roots
  BY LookedMeans DEF BrowseInv, AppOK
<1>4. Browse!Goes(browser, looked)
  BY <1>1
<1> HIDE DEF browser, looked
<1> QED BY <1>2, <1>3, <1>4, GoesKeeps

(* A refresh gives up what is being loaded. *)
LEMMA RefreshKeeps ==
  ASSUME BrowseInv, Browse!Refreshes PROVE BrowseInv'
<1> DEFINE c == coordinator
           d == coordinator'
<1>1. PICK target :
        d = [c EXCEPT !.active = Browse!Load(target), !.content = None, !.attempted = None]
  BY DEF Browse!Refreshes
<1> DEFINE load0 == Browse!Load(target)
<1>2. /\ step = "key" /\ step' = "load"
      /\ abandoned' = IF c.complete THEN abandoned ELSE abandoned \cup Browse!ShownPaths(app)
      /\ app' = [app EXCEPT !.feedback = None]
      /\ UNCHANGED <<files, tree, update>>
  BY DEF Browse!Refreshes
<1>3. DOMAIN load0 = LoadFields /\ DOMAIN load0.entries = {} /\ load0.todo = {}
  BY DEF Browse!Load, LoadFields
<1>4. load0.roots = None
  BY DEF Browse!Load
<1>5. /\ CoordOK(c) /\ DOMAIN c = CoordFields /\ Ordered(c) /\ Coherent(c, app, abandoned)
      /\ AppOK(app) /\ TurnOK(c, update, step)
  BY DEF BrowseInv, CoordOK
<1> HIDE DEF load0
<1>6. /\ DOMAIN d = CoordFields
      /\ d.entries = c.entries /\ d.known = c.known /\ d.complete = c.complete
      /\ d.pending = c.pending /\ d.changed = c.changed /\ d.removed = c.removed
      /\ d.active = load0 /\ d.content = None
  BY <1>1, <1>5 DEF CoordFields, load0
<1> HIDE DEF d
<1>7. c.changed = {} /\ c.removed = {}
  BY <1>2, <1>5 DEF TurnOK
<1>8. CoordOK(d)
  BY <1>3, <1>5, <1>6 DEF CoordOK, LoadOK, ContentOK, EntriesOK
<1>9. Ordered(d)
  BY <1>3, <1>4, <1>6, <1>7 DEF Ordered
<1>10. TurnOK(d, update, step')
  BY <1>2, <1>5, <1>6 DEF TurnOK
<1>11. /\ app' = [k \in AppFields |-> app'[k]] /\ SameItems(app, app')
       /\ app'.lists = app.lists /\ app'.cards = app.cards /\ app'.browser = app.browser
  <2>1. DOMAIN app = AppFields
    BY <1>5 DEF AppOK, Placed
  <2> QED BY <1>2, <2>1 DEF AppFields, SameItems
<1>12. AppOK(app')
  BY <1>5, <1>11, AppBut DEF AppOK
<1>13. Coherent(d, app', abandoned')
  <2>1. DOMAIN app'.index = DOMAIN app.index /\ \A p : EntryAt(app', p) = EntryAt(app, p)
    BY <1>11, SameItemsSame DEF SameItems
  <2>2. Browse!ShownPaths(app) = DOMAIN app.index
    BY <1>5, FoundInPlace DEF Browse!ShownPaths, AppOK
  <2>3. abandoned \subseteq abandoned' /\ (~ c.complete => DOMAIN app.index \subseteq abandoned')
    BY <1>2, <2>2
  <2> QED BY <1>5, <1>6, <1>11, <2>1, <2>3 DEF Coherent
<1> QED BY <1>2, <1>8, <1>9, <1>10, <1>12, <1>13 DEF BrowseInv, d

(* The workbench starts anew. *)
LEMMA NewCoordinatorOK ==
  ASSUME Browse!BrowsingAssumption, NEW a, DOMAIN a.index = {}, a.lists.roots = <<>>, NEW gone
  PROVE  LET c == Browse!NewCoordinator
         IN  /\ CoordOK(c) /\ Ordered(c) /\ Coherent(c, a, gone)
             /\ c.changed = {} /\ c.removed = {} /\ ~ c.pending
<1> DEFINE c == Browse!NewCoordinator
           load0 == Browse!Load(Browse!Store)
<1>1. /\ DOMAIN load0 = LoadFields /\ DOMAIN load0.entries = {} /\ load0.todo = {}
      /\ load0.roots = None
  BY DEF Browse!Load, LoadFields
<1>2. /\ DOMAIN c = CoordFields /\ DOMAIN c.entries = {} /\ c.known = <<>>
      /\ c.complete = FALSE /\ c.pending = FALSE /\ c.changed = {} /\ c.removed = {}
      /\ c.active = load0 /\ c.content = None
  BY DEF Browse!NewCoordinator, CoordFields
<1>3. c.known # None
  BY <1>2 DEF Browse!BrowsingAssumption
<1> HIDE DEF c, load0
<1>4. CoordOK(c)
  BY <1>1, <1>2, <1>3 DEF CoordOK, LoadOK, ContentOK, EntriesOK
<1>5. Ordered(c) /\ Coherent(c, a, gone)
  BY <1>1, <1>2 DEF Ordered, Coherent
<1> QED BY <1>2, <1>4, <1>5 DEF c

LEMMA EditKeeps ==
  ASSUME Browse!BrowsingAssumption, BrowseInv, Browse!Edits PROVE BrowseInv'
<1>1. /\ step = "key" /\ step' = "load"
      /\ coordinator' = Browse!NewCoordinator
      /\ app' = Browse!NoApp(app.browser, Browse!Anchor(app))
      /\ UNCHANGED <<files, tree, update>>
  BY DEF Browse!Edits
<1>2. DOMAIN app.browser = BrowserFields /\ update \in Updates
  BY DEF BrowseInv, AppOK, TurnOK
<1>3. AppOK(app') /\ DOMAIN app'.index = {} /\ app'.lists.roots = <<>>
  BY <1>1, <1>2, NoAppOK
<1>4. /\ CoordOK(coordinator') /\ Ordered(coordinator')
      /\ Coherent(coordinator', app', abandoned')
      /\ coordinator'.changed = {} /\ coordinator'.removed = {} /\ ~ coordinator'.pending
  BY <1>1, <1>3, NewCoordinatorOK
<1>5. TurnOK(coordinator', update, step')
  BY <1>1, <1>2, <1>4 DEF TurnOK
<1> QED BY <1>1, <1>3, <1>4, <1>5 DEF BrowseInv

LEMMA IdlesKeep ==
  ASSUME BrowseInv, Browse!Idles PROVE BrowseInv'
<1>1. /\ step = "key" /\ step' = "load"
      /\ app' \in {app, [app EXCEPT !.feedback = None]}
      /\ UNCHANGED <<files, tree, coordinator, update, abandoned>>
  BY DEF Browse!Idles
<1>2. AppOK(app) /\ app = [k \in AppFields |-> app[k]]
  BY DEF BrowseInv, AppOK, Placed
<1>3. /\ app' = [k \in AppFields |-> app'[k]] /\ SameItems(app, app')
      /\ app'.lists = app.lists /\ app'.cards = app.cards /\ app'.browser = app.browser
  <2>1. CASE app' = app
    BY <1>2, <2>1 DEF SameItems
  <2>2. CASE app' = [app EXCEPT !.feedback = None]
    BY <1>2, <2>2 DEF AppFields, SameItems
  <2> QED BY <1>1, <2>1, <2>2
<1>4. AppOK(app')
  BY <1>2, <1>3, AppBut DEF AppOK
<1>5. Coherent(coordinator, app', abandoned)
  <2>1. DOMAIN app'.index = DOMAIN app.index /\ \A p : EntryAt(app', p) = EntryAt(app, p)
    BY <1>3, SameItemsSame DEF SameItems
  <2> QED BY <1>3, <2>1 DEF BrowseInv, Coherent
<1>6. TurnOK(coordinator, update, step')
  BY <1>1 DEF BrowseInv, TurnOK
<1> QED BY <1>1, <1>4, <1>5, <1>6 DEF BrowseInv

-----------------------------------------------------------------------------
(* The browser under the specification. *)

LEMMA BrowseInitHolds ==
  ASSUME Browse!BrowsingAssumption, Browse!Init PROVE BrowseInv
<1>1. /\ \E start \in Starts : files = start.disk /\ tree = start.tree
      /\ coordinator = Browse!NewCoordinator
      /\ app = Browse!NoApp([view |-> "projects", project |-> None, investigation |-> None,
                             path |-> None, filter |-> None], None)
      /\ update = "none" /\ step = "load"
  BY DEF Browse!Init
<1>2. WorldOK(files, tree)
  BY <1>1 DEF WorldOK, AllPaths, Browse!BrowsingAssumption
<1>3. AppOK(app) /\ DOMAIN app.index = {} /\ app.lists.roots = <<>>
  <2> DEFINE browser == [view |-> "projects", project |-> None, investigation |-> None,
                         path |-> None, filter |-> None]
  <2>1. DOMAIN browser = BrowserFields
    BY DEF BrowserFields
  <2>2. app = Browse!NoApp(browser, None)
    BY <1>1
  <2> HIDE DEF browser
  <2> QED BY <2>1, <2>2, NoAppOK
<1>4. /\ CoordOK(coordinator) /\ Ordered(coordinator) /\ Coherent(coordinator, app, abandoned)
      /\ coordinator.changed = {} /\ coordinator.removed = {} /\ ~ coordinator.pending
  BY <1>1, <1>3, NewCoordinatorOK
<1>5. TurnOK(coordinator, update, step)
  BY <1>1, <1>4 DEF TurnOK, Updates
<1> QED BY <1>2, <1>3, <1>4, <1>5 DEF BrowseInv

LEMMA BrowseNextKeeps ==
  ASSUME Browse!BrowsingAssumption, BrowseInv, Browse!Next PROVE BrowseInv'
  BY ChangesKeep, CatalogueKeeps, EntriesKeep, CompletionKeeps, FailureKeeps, ReadingKeeps,
     DrainedKeeps, PendingKeeps, ContentKeeps, ContentFailureKeeps, ShowsKeep, SetsViewKeeps,
     MovesKeep, FiltersKeep, RefreshKeeps, EditKeeps, IdlesKeep DEF Browse!Next

(* What the invariant says of what is drawn. *)
LEMMA BrowseInvShows == ASSUME BrowseInv PROVE Browse!ShownAsLoaded
<1> SUFFICES ASSUME step = "key" PROVE Browse!ShownAsLoaded
  BY DEF Browse!ShownAsLoaded
<1>1. /\ Placed(app) /\ Right(app.lists, app)
      /\ app.cards = CardsAt(app.lists.roots, app, DOMAIN app.index)
  BY DEF BrowseInv, AppOK
<1>2. Browse!ShownPaths(app) = DOMAIN app.index
  BY <1>1, FoundInPlace DEF Browse!ShownPaths
<1>3. \A p \in DOMAIN app.index : app.shown[app.index[p]].path = p
  BY <1>1, FoundInPlace
<1>4. /\ [app.lists EXCEPT !.hits = None] = Browse!Rebuilt(app.lists.roots, app.shown)
      /\ app.lists.hits # None =>
           app.lists.hits = Browse!HitsOf(app.lists.facts, app.lists.hits.needle)
  BY <1>1, RightIsRebuilt
<1>5. app.cards = Browse!CardsOf(app.lists.roots, app.shown, DOMAIN app.index)
  BY <1>1, CardsMeans
<1>6. coordinator.changed = {} /\ coordinator.removed = {} /\ ~ coordinator.pending
  BY DEF BrowseInv, TurnOK
<1>7. coordinator.complete =>
        /\ app.lists.roots = coordinator.known
        /\ DOMAIN coordinator.entries \subseteq DOMAIN app.index
        /\ \A p \in DOMAIN coordinator.entries :
             app.shown[app.index[p]].entry = coordinator.entries[p]
        /\ DOMAIN app.index \ DOMAIN coordinator.entries \subseteq abandoned
  BY <1>6 DEF BrowseInv, Coherent, EntryAt
<1> QED BY <1>2, <1>3, <1>4, <1>5, <1>7, Zenon DEF Browse!ShownAsLoaded

WorkbenchInv == program = "browse" => BrowseInv

LEMMA WorkbenchInvariant == WorkbenchSpec => []WorkbenchInv
<1>1. WorkbenchInit => WorkbenchInv
  BY BrowseHolds, BrowseInitHolds DEF WorkbenchInit, WorkbenchInv
<1>2. WorkbenchInv /\ [WorkbenchNext]_workbenchVars => WorkbenchInv'
  <2> SUFFICES ASSUME WorkbenchInv, [WorkbenchNext]_workbenchVars PROVE WorkbenchInv'
    OBVIOUS
  <2>1. CASE program # "browse"
    BY <2>1 DEF WorkbenchInv, WorkbenchNext, workbenchVars
  <2>2. CASE program = "browse" /\ UNCHANGED workbenchVars
    <3>1. UNCHANGED <<files, tree, coordinator, app, update, step, abandoned>>
      BY <2>2 DEF workbenchVars, browseVars
    <3> QED BY <2>2, <3>1 DEF WorkbenchInv, BrowseInv
  <2>3. CASE program = "browse" /\ WorkbenchNext
    <3>1. BrowseInv /\ Browse!Next
      BY <2>3 DEF WorkbenchInv, WorkbenchNext
    <3>2. BrowseInv'
      BY <3>1, BrowseHolds, BrowseNextKeeps
    <3> QED BY <3>2 DEF WorkbenchInv
  <2> QED BY <2>1, <2>2, <2>3
<1> QED BY <1>1, <1>2, PTL DEF WorkbenchSpec

(* What the workbench shows is what was loaded, and its lists are of what it shows. *)
THEOREM WhatIsLoadedIsShown == WorkbenchSpec => []ShownAsLoaded
<1>1. WorkbenchInv => ShownAsLoaded
  BY BrowseInvShows DEF WorkbenchInv, ShownAsLoaded
<1> QED BY <1>1, WorkbenchInvariant, PTL

-----------------------------------------------------------------------------
(* What is selected after a completed load. *)

\* The record the anchor names: at its path, or as the one with its scope and identity.
Named(a, record) ==
  IF record.path \in Browse!ShownPaths(a) THEN {record.path}
  ELSE { p \in Browse!ShownPaths(a) :
           record.governed # None /\ Browse!GovernedAt(a, p) = record.governed }

LEMMA ResolvedMeans ==
  ASSUME Browse!BrowsingAssumption, NEW a, NEW browser, NEW record, record # None,
         Named(a, record) # {}
  PROVE  LET found == Browse!ResolvedRecord(a, browser, record)
         IN  \/ Named(a, record) = {found.value} /\ found.notice = None
             \/ found.value = None /\ found.notice = "filtered"
             \/ /\ found.value = None /\ found.notice = "ambiguous"
                /\ \A p \in Named(a, record) : Named(a, record) # {p}
<1> DEFINE found == Browse!ResolvedRecord(a, browser, record)
           list == Browse!VisiblePaths(a.lists, browser)
           same == Browse!GovernedMatches(a, record.governed)
           Shows(p) == IF p \in Browse!Range(list) THEN [value |-> p, notice |-> None]
                       ELSE [value |-> None, notice |-> "filtered"]
           none == [value |-> None, notice |-> "ambiguous"]
           near == [value |-> Browse!Nearest(list, record.at), notice |-> None]
           other == IF same = {} THEN near
                    ELSE IF \A p \in same : same # {p} THEN none
                    ELSE Shows(CHOOSE p \in same : TRUE)
<1>1. /\ record.path \in Browse!ShownPaths(a) => found = Shows(record.path)
      /\ record.path \notin Browse!ShownPaths(a) => found = other
  BY DEF Browse!ResolvedRecord
<1>2. same = { p \in Browse!ShownPaths(a) :
                 record.governed # None /\ Browse!GovernedAt(a, p) = record.governed }
  BY DEF Browse!GovernedMatches
<1>3. \A p : /\ p \in Browse!Range(list) => Shows(p).value = p /\ Shows(p).notice = None
             /\ p \notin Browse!Range(list) =>
                  Shows(p).value = None /\ Shows(p).notice = "filtered"
  OBVIOUS
<1>4. none.value = None /\ none.notice = "ambiguous"
  OBVIOUS
<1> HIDE DEF found, same, Shows, none, near
<1>5. CASE record.path \in Browse!ShownPaths(a)
  <2>1. Named(a, record) = {record.path}
    BY <1>5 DEF Named
  <2> QED BY <1>1, <1>3, <1>5, <2>1 DEF found
<1>6. CASE record.path \notin Browse!ShownPaths(a)
  <2>1. Named(a, record) = same /\ same # {}
    BY <1>2, <1>6 DEF Named
  <2>2. CASE \A p \in same : same # {p}
    <3>1. found = none
      BY <1>1, <1>6, <2>1, <2>2
    <3> QED BY <1>4, <2>1, <2>2, <3>1 DEF found
  <2>3. CASE ~ \A p \in same : same # {p}
    <3>1. PICK p \in same : same = {p}
      BY <2>3
    <3>2. (CHOOSE q \in same : TRUE) = p
      BY <3>1
    <3>3. found = Shows(p)
      BY <1>1, <1>6, <2>1, <2>3, <3>2
    <3> QED BY <1>3, <2>1, <3>1, <3>3 DEF found
  <2> QED BY <2>2, <2>3
<1> QED BY <1>5, <1>6

LEMMA PromotedFollows ==
  ASSUME Browse!BrowsingAssumption, NEW a, DOMAIN a = AppFields,
         DOMAIN a.browser = BrowserFields, a.browser.view \in {"tickets", "files"},
         NEW anchor, anchor.record # None, NEW b, b = Browse!Promoted(a, anchor),
         anchor.project = b.browser.project, anchor.investigation = b.browser.investigation,
         Named(b, anchor.record) # {}
  PROVE  \/ Named(b, anchor.record) = {b.browser.path}
         \/ /\ b.browser.path = None /\ b.feedback = "ambiguous"
            /\ \A p \in Named(b, anchor.record) : Named(b, anchor.record) # {p}
         \/ b.browser.path = None /\ b.feedback = "filtered"
<1> DEFINE project == ProjectFound(a, anchor)
           opened == ProjectOpened(a, anchor)
           investigation == InvestigationFound(a, anchor)
           scope == ScopeOpened(a, anchor)
           record == RecordFound(a, anchor)
           notice == NoticeFound(a, anchor)
           browser == [scope EXCEPT !.path = record.value]
<1>1. b = [a EXCEPT !.browser = browser, !.resumed = None, !.feedback = notice]
  BY PromotedUnfolds
<1>2. DOMAIN opened = BrowserFields /\ opened.project = project.value
  BY DEF ProjectOpened, BrowserFields
<1> HIDE DEF project, opened, investigation
<1>3. scope = [opened EXCEPT !.investigation = investigation.value]
  BY DEF ScopeOpened, opened, investigation
<1> HIDE DEF scope
<1>4. DOMAIN scope = BrowserFields /\ scope.project = project.value
      /\ scope.investigation = investigation.value
  BY <1>2, <1>3 DEF BrowserFields
<1> HIDE DEF record, notice
<1>5. /\ browser.project = project.value /\ browser.investigation = investigation.value
      /\ browser.path = record.value
  BY <1>4 DEF BrowserFields
<1> HIDE DEF browser
<1>6. /\ b.browser = browser /\ b.feedback = notice /\ b.shown = a.shown /\ b.lists = a.lists
  BY <1>1 DEF AppFields
<1>7. ~ ProjectMoved(a, anchor) /\ investigation.value = anchor.investigation
  BY <1>5, <1>6 DEF ProjectMoved, project
<1>8. record = Browse!ResolvedRecord(a, scope, anchor.record)
  BY <1>7 DEF RecordFound, record, investigation, scope
<1>9. Named(b, anchor.record) = Named(a, anchor.record)
  <2>1. Browse!ShownPaths(b) = Browse!ShownPaths(a)
    BY <1>6 DEF Browse!ShownPaths
  <2>2. \A p : Browse!GovernedAt(b, p) = Browse!GovernedAt(a, p)
    BY <1>6, <2>1 DEF Browse!GovernedAt, Browse!EntryShown
  <2> QED BY <2>1, <2>2 DEF Named
<1>10. \/ Named(a, anchor.record) = {record.value} /\ record.notice = None
       \/ record.value = None /\ record.notice = "filtered"
       \/ /\ record.value = None /\ record.notice = "ambiguous"
          /\ \A p \in Named(a, anchor.record) : Named(a, anchor.record) # {p}
  BY <1>8, <1>9, ResolvedMeans
<1>11. record.notice # None => notice = record.notice
  BY DEF NoticeFound, notice, record
<1>12. None # "filtered" /\ None # "ambiguous"
  BY DEF Browse!BrowsingAssumption
<1> QED BY <1>5, <1>6, <1>9, <1>10, <1>11, <1>12

(* Only a draw takes up what has been told. *)
LEMMA DrawnByShows ==
  ASSUME BrowseInv, Browse!Next, update = "complete", update' = "none"
  PROVE  Browse!Shows
<1>1. \A change \in {"partial", "content"} : Browse!More(change) # "none"
  BY MoreMeans DEF BrowseInv, TurnOK
<1>2. CASE Browse!CatalogueArrives \/ Browse!EntriesArrive \/ Browse!LoadCompletes
  BY <1>1, <1>2 DEF Browse!CatalogueArrives, Browse!EntriesArrive, Browse!LoadCompletes
<1>3. CASE Browse!ContentPends \/ Browse!ContentArrives \/ Browse!ContentFails
  BY <1>1, <1>3 DEF Browse!ContentPends, Browse!ContentArrives, Browse!ContentFails
<1>4. CASE Browse!Changes \/ Browse!LoadFails \/ Browse!ContentIsRead \/ Browse!Drained
  BY <1>4 DEF Browse!Changes, Browse!LoadFails, Browse!ContentIsRead, Browse!Drained
<1>5. CASE Browse!SetsView \/ Browse!Moves \/ Browse!Filters
  BY <1>5 DEF Browse!SetsView, Browse!Moves, Browse!Filters, Browse!Goes
<1>6. CASE Browse!Refreshes \/ Browse!Edits \/ Browse!Idles
  BY <1>6 DEF Browse!Refreshes, Browse!Edits, Browse!Idles
<1> QED BY <1>2, <1>3, <1>4, <1>5, <1>6 DEF Browse!Next

LEMMA SelectionKept ==
  ASSUME Browse!BrowsingAssumption, BrowseInv, Browse!Next
  PROVE  Browse!SelectionFollowsRecord
<1> DEFINE anchor == IF app.resumed # None THEN app.resumed ELSE Browse!Anchor(app)
           record == anchor.record
           there == Named(app', record)
<1>1. SUFFICES ASSUME update = "complete", update' = "none",
                      app.browser.view \in {"tickets", "files"}, record # None,
                      anchor.project = app'.browser.project,
                      anchor.investigation = app'.browser.investigation, there # {}
               PROVE  \/ there = {app'.browser.path}
                      \/ /\ app'.browser.path = None /\ app'.feedback = "ambiguous"
                         /\ \A p \in there : there # {p}
                      \/ app'.browser.path = None /\ app'.feedback = "filtered"
  BY DEF Browse!SelectionFollowsRecord, Named
<1>2. Browse!Shows
  BY <1>1, DrawnByShows
<1> DEFINE taken == Browse!Taken(coordinator)
           m == Browse!Merged(app, taken)
           looked == [m EXCEPT !.lists = Browse!Looked(m.lists, app.browser.filter)]
<1>3. app' = Browse!Promoted(looked, anchor)
  BY <1>1, <1>2 DEF Browse!Shows, Browse!Applied
<1>4. DOMAIN m = AppFields /\ m.browser = app.browser
  <2>1. /\ DOMAIN taken.entries \subseteq AllPaths /\ taken.removed \subseteq AllPaths
        /\ \A p \in DOMAIN taken.entries : taken.entries[p] \in Entry
    BY DEF Browse!Taken, Browse!Loaded, Browse!EntryOf, BrowseInv, CoordOK, EntriesOK, LoadOK
  <2> HIDE DEF taken
  <2>2. Placed(m) /\ m.browser = app.browser
    BY <2>1, MergedMeans DEF BrowseInv, AppOK
  <2> QED BY <2>2 DEF Placed
<1> HIDE DEF m, anchor
<1>5. DOMAIN looked = AppFields /\ looked.browser = app.browser
  BY <1>4 DEF AppFields
<1> HIDE DEF looked
<1>6. DOMAIN looked.browser = BrowserFields
  BY <1>5 DEF BrowseInv, AppOK
<1> QED BY <1>1, <1>3, <1>5, <1>6, PromotedFollows, ZenonT(30)

(* A completed load does not take the user from the selected record to another one. *)
THEOREM SelectionIsKept == WorkbenchSpec => SelectionIsFollowed
<1>1. WorkbenchInv /\ [WorkbenchNext]_workbenchVars =>
        [program = "browse" => Browse!SelectionFollowsRecord]_workbenchVars
  <2> SUFFICES ASSUME WorkbenchInv, WorkbenchNext, program = "browse"
               PROVE  Browse!SelectionFollowsRecord
    OBVIOUS
  <2>1. BrowseInv /\ Browse!Next
    BY DEF WorkbenchInv, WorkbenchNext
  <2> QED BY <2>1, BrowseHolds, SelectionKept
<1> QED BY <1>1, WorkbenchInvariant, PTL DEF WorkbenchSpec, SelectionIsFollowed
=============================================================================
