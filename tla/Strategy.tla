------------------------------- MODULE Strategy -------------------------------
(***************************************************************************)
(* What a strategy matrix, a writer binding and a transition record must   *)
(* satisfy (casefile-core's strategy.rs and strategy_transition.rs).  A    *)
(* matrix is a record of its phase, strategy, adapter, limits, workers and *)
(* required capabilities; one that is not complete has only the first      *)
(* three.  Text, field names and single strings are left out.              *)
(***************************************************************************)
EXTENDS Integers, Sequences, SequencesExt, TLC

CONSTANTS
  Absent,   \* the content of a file that does not exist
  WordMax   \* bound: the largest unsigned word (u64 in the code)

\* The number of agents of a worker is an unsigned word.
StrategyWorker == [role : STRING, minimum : Nat, maximum : Nat, spawns : BOOLEAN]

\* Mutant: the minima are added without looking for overflow.
WrappingTotal(workers) ==
  LET total[i \in 0..Len(workers)] ==
        IF i = 0 THEN 0 ELSE (total[i - 1] + workers[i].minimum) % (WordMax + 1)
  IN  total[Len(workers)]

\* A total of unsigned words and one more word; -1 when there is none or it does not fit.
CheckedAdd(total, word) == IF total = -1 \/ total + word > WordMax THEN -1 ELSE total + word

\* The sum of the minima in unsigned words; -1 when it does not fit.
CheckedTotal(workers) ==
  LET total[i \in 0..Len(workers)] ==
        IF i = 0 THEN 0 ELSE CheckedAdd(total[i - 1], workers[i].minimum)
  IN  total[Len(workers)]

\* What it is for: the agents that workers demand at least, however many they are.
Demand(workers) ==
  LET total[i \in 0..Len(workers)] ==
        IF i = 0 THEN 0 ELSE total[i - 1] + workers[i].minimum
  IN  total[Len(workers)]

ValidWorker(worker, depth) ==
  /\ worker.minimum > 0
  /\ worker.minimum <= worker.maximum
  /\ worker.spawns => depth >= 2

\* A matrix that may be selected.
Selectable(m) ==
  /\ m.complete
  /\ m.capacity > 0
  /\ \A i \in DOMAIN m.workers : ValidWorker(m.workers[i], m.depth)
  /\ CheckedTotal(m.workers) \in 0..m.capacity

Writers(m) == SelectSeq(m.workers, LAMBDA worker : worker.role = "implementation-writer")

\* A matrix is graphable for a binding when it has exactly one writer.
OneWriter(m) == m.complete /\ Len(Writers(m)) = 1

\* The diagnostics of a binding against the selected implementation matrix.
BindingDiagnostics(implementation, binding) ==
  IF Absent \in {implementation, binding}
    THEN {}
    ELSE CASE binding.adapter # implementation.matrix.adapter -> {"binding_adapter"}
           [] binding.adapter = implementation.matrix.adapter
                /\ ~ OneWriter(implementation.matrix) -> {"binding_writer_match"}
           [] OTHER -> {}

-----------------------------------------------------------------------------
\* Paths are sequences of components, which are numbers in their order.
PathBefore(p, q) ==
  \/ IsStrictPrefix(p, q)
  \/ \E i \in DOMAIN p \cap DOMAIN q :
       /\ p[i] < q[i]
       /\ \A j \in 1..(i - 1) : p[j] = q[j]

Overlap(p, q) == IsPrefix(p, q) \/ IsPrefix(q, p)

\* A path that a writer claims.
Claim == [owner : STRING, path : Seq(Nat)]

Before(left, right) == PathBefore(left.path, right.path)

\* The claims in component order.  Claims of one path come in any order (sort_unstable_by).
Sorted(claims) ==
  { [i \in DOMAIN claims |-> claims[order[i]]] : order \in
      { o \in Bijection(DOMAIN claims, DOMAIN claims) :
          \A i, j \in DOMAIN claims : i < j => ~ Before(claims[o[j]], claims[o[i]]) } }

\* The claim each claim is compared with: the outermost one that may cover it.
Covering(sorted) ==
  LET cover[i \in 0..Len(sorted)] ==
        IF i = 0
          THEN 0
          ELSE LET outer == cover[i - 1]
               IN  IF outer # 0 /\ Overlap(sorted[outer].path, sorted[i].path) THEN outer ELSE i
  IN  cover

\* One sweep in component order looks for owners that claim overlapping paths.
Sweep(sorted) == \E i \in DOMAIN sorted : sorted[Covering(sorted)[i]].owner # sorted[i].owner

\* Mutant: the sweep compares each claim with the one just before it.
SweepNeighbours(claims) ==
  \A sorted \in Sorted(claims) :
    \E i \in 1..(Len(sorted) - 1) :
      /\ sorted[i].owner # sorted[i + 1].owner
      /\ Overlap(sorted[i].path, sorted[i + 1].path)

\* The sweep is counted on only for what it finds in whatever order the sort leaves.
SweepFindsOverlap(claims) == \A sorted \in Sorted(claims) : Sweep(sorted)

\* What the sweep is for: two owners whose paths overlap.
OwnersOverlap(claims) ==
  \E i, j \in DOMAIN claims :
    claims[i].owner # claims[j].owner /\ Overlap(claims[i].path, claims[j].path)
=============================================================================
