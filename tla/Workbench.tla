------------------------------ MODULE Workbench -------------------------------
(***************************************************************************)
(* Two sides of the terminal workbench: the freshness reducer with its     *)
(* watcher (Terminal), and the lists with the user who browses them        *)
(* (Browsing).  A behaviour is one of a single side, and the variables of  *)
(* the other one keep the value None.                                      *)
(***************************************************************************)
EXTENDS Terminal

CONSTANTS
  Projects, Investigations, Paths, PlaceOf, FoldersOf, Lazy, DocsOf, Catalogues, Needles, Starts

VARIABLES
  program,  \* which one it is
  files, tree, coordinator, app, update, step, abandoned, budget

Browse == INSTANCE Browsing WITH ProjectOf <- PlaceOf, disk <- files, phase <- step

ASSUME BrowseHolds == Browse!BrowsingAssumption

browseVars == <<files, tree, coordinator, app, update, step, abandoned, budget>>

workbenchVars == <<program, vars, browseVars>>

NoBrowse ==
  /\ files = None /\ tree = None /\ coordinator = None /\ app = None
  /\ update = None /\ step = None /\ abandoned = None /\ budget = None

NoTerminal ==
  /\ disk = None /\ watch = None /\ retry = None /\ channel = None /\ phase = None
  /\ reducer = None /\ reports = None /\ observed = None /\ known = None /\ load = None
  /\ content = None /\ loads = None /\ shown = None /\ blind = None
  /\ mishaps = None /\ contents = None

WorkbenchInit ==
  \/ program = "freshness" /\ Init /\ NoBrowse
  \/ program = "browse" /\ Browse!Init /\ NoTerminal

WorkbenchNext ==
  /\ UNCHANGED program
  /\ \/ program = "freshness" /\ Next /\ UNCHANGED browseVars
     \/ program = "browse" /\ Browse!Next /\ UNCHANGED vars

WorkbenchSpec == WorkbenchInit /\ [][WorkbenchNext]_workbenchVars

-----------------------------------------------------------------------------
(* What the workbench shows is what was loaded                             *)
(* (browsing/projection.rs:41-81, workbench/projection.rs:102-207).        *)
ShownAsLoaded == program = "browse" => Browse!ShownAsLoaded

(* A reload does not take the user from the selected record to another one *)
(* (browsing.rs:230-352).                                                  *)
SelectionIsFollowed ==
  [][program = "browse" => Browse!SelectionFollowsRecord]_workbenchVars
=============================================================================
