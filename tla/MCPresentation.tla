---------------------------- MODULE MCPresentation ----------------------------
(***************************************************************************)
(* A store of one investigation A for TLC, with a file of every kind that  *)
(* is derived from or from which something is.  A file that cannot be      *)
(* parsed says nothing.                                                    *)
(***************************************************************************)
EXTENDS Presentation, TLC

MCKindOf ==
  "casefile.toml" :> "activation" @@ "projects.toml" :> "map"
    @@ "ticket" :> "ticket" @@ "log" :> "log" @@ "board" :> "board" @@ "evidence" :> "evidence"

MCPath == DOMAIN MCKindOf

MCScopeOf == [p \in MCPath |-> IF MCKindOf[p] \in {"activation", "map"} THEN "root" ELSE "A"]

MCScopes == <<"root", "A">>

MCCovers == "store" :> MCPath @@ "A" :> {p \in MCPath : MCScopeOf[p] = "A"}

Says(what) == [ok |-> TRUE, says |-> what]
Broken == [ok |-> FALSE, says |-> {}]
Ticket(status) == Says([status |-> status, title |-> "work"])

MCStart ==
  { "casefile.toml" :> Says({"p"}) @@ "projects.toml" :> Says({"p"})
      @@ "ticket" :> Ticket("accepted") @@ "log" :> Says("ticket" :> "doing")
      @@ "board" :> Says("progress") @@ "evidence" :> Says("one") }

Save(path, content) == [path |-> path, content |-> content]

MCSaves ==
  { Save("casefile.toml", Says({"p", "q"})), Save("casefile.toml", Broken),
    Save("ticket", Ticket("refined")),
    Save("ticket", None), Save("evidence", Says("two")) }
=============================================================================
