----------------------------- MODULE MCGovernance -----------------------------
(***************************************************************************)
(* Two phases, two operation ids and one ticket for TLC.  Words have four  *)
(* bits, so that three workers of seven each wrap round to five.           *)
(***************************************************************************)
EXTENDS Governance

CONSTANTS t1, c1, c2

MCTurns == [c \in Client |-> 2]

Symmetry == Permutations(Client)

NewWorker(role, minimum) ==
  [role |-> role, minimum |-> minimum, maximum |-> 7, spawns |-> FALSE]

NewMatrix(phase, strategy, adapter, workers) ==
  [phase |-> phase, strategy |-> strategy, adapter |-> adapter, complete |-> TRUE,
   capacity |-> 7, depth |-> 1, needs |-> {"subagents"}, workers |-> workers]

Writer == NewWorker("implementation-writer", 1)

Old == NewMatrix(Implementation, "old", "codex", <<Writer>>)
Batch == NewMatrix(Implementation, "batch", "codex", <<NewWorker("reviewer", 2), Writer>>)
Claude == NewMatrix(Implementation, "claude", "claude", <<Writer>>)
Wide == NewMatrix(Implementation, "wide", "codex",
                  <<NewWorker("implementation-writer", 7), NewWorker("reviewer", 7),
                    NewWorker("verifier", 7)>>)
Review == NewMatrix("review", "review", "codex", <<>>)
Legacy == [Old EXCEPT !.complete = FALSE, !.workers = <<>>]

NewClaim(owner, path) == [owner |-> owner, path |-> path]

\* The covering claim is not the neighbour of the one it conflicts with.
Nested == <<NewClaim("b", <<1, 3>>), NewClaim("a", <<1>>), NewClaim("a", <<1, 2>>)>>
Apart == <<NewClaim("a", <<1, 2>>), NewClaim("b", <<1, 3>>), NewClaim("b", <<2>>)>>

Select(id, matrix, claims) ==
  [op |-> "select", id |-> id, matrix |-> matrix, available |-> {"subagents"}, claims |-> claims]

Bind(adapter, model) == [op |-> "bind", binding |-> [adapter |-> adapter, model |-> model]]

MCRequest ==
  { Select("op1", Batch, Apart), Select("op2", Claude, <<>>), Select("op2", Wide, <<>>),
    Select("op1", Claude, Nested), Select("op1", Review, <<>>),
    Bind("codex", "model2"), Bind("claude", "model1") }

InPlace(matrix) == Matrix(Implementation) :> [matrix |-> matrix, eol |-> "lf"]

MCStart ==
  { <<>>, InPlace(Legacy), InPlace(Old),
    InPlace(Old) @@ Binding :> [adapter |-> "codex", model |-> "model1"]
                 @@ Log :> [t \in Ticket |-> "in_progress"] }
=============================================================================
