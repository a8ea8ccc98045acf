------------------------------ MODULE MCWorkbench -----------------------------
(***************************************************************************)
(* The terminal workbench for TLC.  The lists are of one project with an   *)
(* investigation inside another, three tickets and a note that is fetched  *)
(* on demand: a ticket can be renamed over another one and a third one has *)
(* its identity as long as the inner investigation is not listed.          *)
(***************************************************************************)
EXTENDS Workbench, MCTerminal

Ticket(identity, title) ==
  [work |-> TRUE, identity |-> identity, title |-> title, version |-> 1]

Note(version) == [work |-> FALSE, identity |-> None, title |-> "note", version |-> version]

\* What is there, but for the ticket at b.md.
Files(second) ==
  "a.md" :> Ticket("A", "ready") @@ "b.md" :> second @@ "inner.md" :> Ticket("A", "ready")
  @@ "note.md" :> Note(1)

Deep == "alpha" :> {"deep"}
Nested == "alpha" :> {"deep", "nested"}

Start(disk0, roots, changes, keys, refreshes, edits, failures) ==
  [disk |-> disk0, tree |-> roots,
   bounds |-> [changes |-> changes, keys |-> keys, refreshes |-> refreshes, edits |-> edits,
               failures |-> failures]]

MCProjects == <<"alpha">>
MCPaths == <<"a.md", "b.md", "inner.md", "note.md">>
MCInvestigations == <<"deep", "nested">>
MCPlaceOf == [p \in {"a.md", "b.md", "inner.md", "note.md"} |-> "alpha"]
MCFoldersOf ==
  "a.md" :> <<"deep">> @@ "b.md" :> <<"deep">> @@ "inner.md" :> <<"nested", "deep">>
  @@ "note.md" :> <<>>
MCDocsOf ==
  "a.md" :> {None, Ticket("A", "ready")}
  @@ "b.md" :> {Ticket("B", "ready"), Ticket("A", "done")}
  @@ "inner.md" :> {None, Ticket("A", "ready")}
  @@ "note.md" :> {Note(1), Note(2)}
MCCatalogues == {Deep, Nested}
MCStarts ==
  LET two == Files(Ticket("B", "ready"))
      one == Files(Ticket("A", "done"))
  IN  { Start(two, Nested, 1, 2, 1, 0, 0), Start(two, Deep, 2, 1, 1, 0, 0),
        Start(one, Deep, 1, 1, 1, 0, 0), Start(two, Deep, 1, 0, 2, 0, 0),
        Start(two, Deep, 1, 1, 0, 1, 0), Start(two, Nested, 0, 1, 1, 0, 1) }
=============================================================================
