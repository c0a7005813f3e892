----------------------------- MODULE Persistence -----------------------------
(***************************************************************************)
(* The layout that outlives the process: save-and-exit writes the numbered  *)
(* workspaces to layout.ron, and the next start restores them               *)
(* (runtime/persistence.rs, core/state.rs, events/command.rs).              *)
(*                                                                         *)
(* A workspace is its id and its number; which display it is on is kept     *)
(* with it and decides nothing here.  The process may crash between any two *)
(* steps, and writing may fail; one process runs at a time.  The machine    *)
(* itself does not crash.                                                   *)
(***************************************************************************)
EXTENDS Naturals, FiniteSets, FiniteSetsExt

CONSTANTS
  Found,        \* what may be in the file at first
  Numbers,      \* WorkspaceNumber, without the hidden one
  MaxId,        \* bound on the ids
  MaxLives, MaxChanges

VARIABLES
  layoutFile, temporary,   \* layout.ron and layout.ron.tmp
  process,      \* "none", or what it does: "up", "open", "write", "rename", "exit"
  catalog, nextId,   \* its workspaces and the last id it gave
  encoded,      \* what it is about to write
  lives, changes,
  foreign,      \* history: the file is the one that was found
  committed     \* history: the workspaces whose saving the user was told of last

files == <<layoutFile, temporary>>
vars == <<files, process, catalog, nextId, encoded, lives, changes, foreign, committed>>

Missing == [kind |-> "missing"]
Torn == [kind |-> "torn"]
Whole(schema, workspaces) == [kind |-> "whole", schema |-> schema, workspaces |-> workspaces]
HiddenNumber == 99

\* What is found is no file, one that does not parse, or finitely many workspaces.
PersistenceAssumption ==
  /\ Numbers \subseteq Nat
  /\ \A f \in Found :
       \/ f \in {Missing, Torn}
       \/ /\ f \in [kind : {"whole"}, schema : Nat, workspaces : SUBSET [id : Nat, number : Nat]]
          /\ IsFiniteSet(f.workspaces)
-----------------------------------------------------------------------------
(* Starting. *)

\* load: the first schema counted to ten.
Migrated(f) ==
  {[w EXCEPT !.number = IF f.schema = 1 /\ @ = 10 THEN 0 ELSE @] : w \in f.workspaces}

Loads(f) ==
  /\ f.kind = "whole" /\ f.schema \in {1, 2}
  /\ \A w \in Migrated(f) : w.number \in Numbers

\* from_persisted
Accepted(workspaces) ==
  \A v, w \in workspaces : v.id # 0 /\ (v # w => v.id # w.id /\ v.number # w.number)

\* What cannot be restored is left out as a whole.
Restored(f) ==
  IF ~Loads(f) THEN {} ELSE IF Accepted(Migrated(f)) THEN Migrated(f) ELSE {}

Highest(workspaces) == Max({w.id : w \in workspaces} \union {0})

Start ==
  /\ process = "none" /\ lives < MaxLives /\ lives' = lives + 1
  /\ process' = "up"
  /\ catalog' = Restored(layoutFile) /\ nextId' = Highest(Restored(layoutFile))
  /\ UNCHANGED <<files, encoded, changes, foreign, committed>>
-----------------------------------------------------------------------------
(* Running. *)

\* A workspace with a free number, or the hidden one, comes or goes.
Change ==
  /\ process = "up" /\ changes < MaxChanges /\ changes' = changes + 1
  /\ \/ \E w \in catalog : catalog' = catalog \ {w} /\ UNCHANGED nextId
     \/ /\ nextId < MaxId /\ nextId' = nextId + 1
        /\ \E n \in (Numbers \union {HiddenNumber}) \ {w.number : w \in catalog} :
             catalog' = catalog \union {[id |-> nextId', number |-> n]}
  /\ UNCHANGED <<files, process, encoded, lives, foreign, committed>>

\* persisted_state
PersistedState == Whole(2, {w \in catalog : w.number # HiddenNumber})
-----------------------------------------------------------------------------
(* Saving and exiting. *)

SaveAndExit ==
  /\ process = "up" /\ process' = "open" /\ encoded' = PersistedState
  /\ UNCHANGED <<files, catalog, nextId, lives, changes, foreign, committed>>

\* Mutant of Target: the layout is written in place.
FaultyTarget == "layout"

Target == "temporary"

Written(content) ==
  IF Target = "temporary" THEN temporary' = content /\ UNCHANGED <<layoutFile, foreign>>
  ELSE layoutFile' = content /\ foreign' = FALSE /\ UNCHANGED temporary

\* fs::write makes the file or empties it, and fills it.
Open ==
  /\ process = "open" /\ process' = "write" /\ Written(Torn)
  /\ UNCHANGED <<catalog, nextId, encoded, lives, changes, committed>>

Write ==
  /\ process = "write" /\ process' = "rename" /\ Written(encoded)
  /\ UNCHANGED <<catalog, nextId, encoded, lives, changes, committed>>

Rename ==
  /\ process = "rename" /\ process' = "exit"
  /\ layoutFile' = (IF temporary = Missing THEN layoutFile ELSE temporary) /\ temporary' = Missing
  /\ foreign' = FALSE
  /\ UNCHANGED <<catalog, nextId, encoded, lives, changes, committed>>

\* The exit code tells whether the layout was saved.
Exit ==
  /\ process = "exit" /\ process' = "none"
  /\ committed' = <<encoded.workspaces>>
  /\ UNCHANGED <<files, catalog, nextId, encoded, lives, changes, foreign>>

SaveFails ==
  /\ process \in {"open", "write", "rename"} /\ process' = "none"
  /\ UNCHANGED <<files, catalog, nextId, encoded, lives, changes, foreign, committed>>

\* A crash; what was renamed before it stays.
Crash ==
  /\ process # "none" /\ process' = "none"
  /\ committed' = IF process = "exit" THEN <<encoded.workspaces>> ELSE committed
  /\ UNCHANGED <<files, catalog, nextId, encoded, lives, changes, foreign>>
-----------------------------------------------------------------------------
Init ==
  /\ layoutFile \in Found /\ temporary \in {Missing, Torn}
  /\ process = "none" /\ catalog = {} /\ nextId = 0 /\ encoded = Missing
  /\ lives = 0 /\ changes = 0 /\ foreign = TRUE /\ committed = <<>>

Next ==
  \/ Start \/ Change \/ SaveAndExit \/ Open \/ Write \/ Rename \/ Exit \/ SaveFails \/ Crash

Spec == Init /\ [][Next]_vars
-----------------------------------------------------------------------------
\* What was saved last is what a start restores, all of it, whichever saves were
\* interrupted or failed since, as long as the file was written by Lift.
SavedIsRestored ==
  /\ process # "exit" /\ committed # <<>> => Restored(layoutFile) = committed[1]
  /\ ~foreign => Loads(layoutFile) /\ Accepted(Migrated(layoutFile))

\* Ids and numbers stay distinct across restarts, though the ids of hidden workspaces are
\* given again.
RestoredIsSound == Accepted({w \in catalog : w.number # HiddenNumber})
=============================================================================
