----------------------------- MODULE WindowMoves -----------------------------
(***************************************************************************)
(* How a window gets to a workspace, and stays there: the reactor's commands *)
(* that move a window (events/command.rs), windows that appear and are seen  *)
(* again (events/window.rs, events/window_discovery.rs), and the three       *)
(* memories of reactor.rs that decide about a window later than they were    *)
(* made: the recent target of each window, the workspace in which the next   *)
(* new window is expected, and the workspace in which an auxiliary window    *)
(* was clicked.                                                              *)
(*                                                                           *)
(* Every handler runs to its end before the next one.  The core's part of a  *)
(* move is that of CoreState, reduced to which workspace a window is in, and *)
(* to the workspaces that are created when they are asked for and destroyed  *)
(* when they are empty and not shown.  A memory may run out at any moment.   *)
(***************************************************************************)
EXTENDS Integers, FiniteSets, SequencesExt

CONSTANTS
  Windows,
  App,         \* the application of each window
  Rule,        \* the workspace a rule wants for each window, None without a rule
  Displays,
  Numbered,    \* the workspaces with a number
  Tenth,       \* the one with the number 0, the tenth in order
  Hidden,      \* the hidden workspace of each display
  MaxSteps,    \* bound: commands and observations
  MaxMoves,    \* bound: of them, commands that move a window
  None

\* What the constants are.
MovesAssumption ==
  /\ Hidden \in [Displays -> Range(Hidden)]
  /\ Rule \in [Windows -> Numbered \cup Range(Hidden) \cup {None}]
  /\ None \notin Windows \cup Displays \cup Numbered \cup Range(Hidden)

VARIABLES
  owner,      \* CoreState: the display of each numbered workspace that exists
  shown,      \* CoreState: the workspace each display shows
  home,       \* CoreState: the workspace of each window the core knows
  focus,      \* CoreState: focused_window
  known,      \* WindowManager: the windows the reactor knows
  at,         \* the display a window's frame is on
  main,       \* MainWindowTracker: main_window
  cursor,     \* the display of the cursor
  recent,     \* RefocusManager: recent_workspace_targets, those that have not run out
  next,       \* RefocusManager: focus_next_window_target, while its deadline is ahead
  clicked,    \* RefocusManager: auxiliary_window_workspace_target
  meant,      \* ghost: the workspace a window was last put into by the user
  spoiled,    \* ghost: why a window may be elsewhere
  steps, moves

core == <<owner, shown, home, focus, recent, meant, spoiled>>
vars == <<core, known, at, main, cursor, next, clicked, steps, moves>>

Workspaces == Numbered \cup Range(Hidden)
Display(s) == IF s \in Numbered THEN owner[s]
              ELSE CHOOSE d \in Displays : Hidden[d] = s
-----------------------------------------------------------------------------
(* The core.  A state of it is passed along as a record, because one handler  *)
(* makes several transitions.                                                  *)

Core == [owner |-> owner, shown |-> shown, home |-> home, focus |-> focus,
         recent |-> recent, meant |-> meant, spoiled |-> spoiled]

Becomes(c) ==
  /\ owner' = c.owner /\ shown' = c.shown /\ home' = c.home /\ focus' = c.focus
  /\ recent' = c.recent /\ meant' = c.meant /\ spoiled' = c.spoiled

\* The user puts a window into a workspace, which may fail for the given reasons.
Meant(c, w, s, reasons) == [c EXCEPT !.meant[w] = s, !.spoiled[w] = reasons]

OwnerIn(c, s) == IF s \in Numbered THEN c.owner[s] ELSE Display(s)

\* destroy_if_ephemeral: an id is never used again, so that a target that names a
\* destroyed workspace names nothing.
Swept(c, s) ==
  IF s \notin Numbered \/ s \in Range(c.shown) \/ s \in Range(c.home) THEN c
  ELSE [c EXCEPT !.owner[s] = None,
                 !.recent = [w \in Windows |-> IF @[w] = s THEN None ELSE @[w]],
                 !.spoiled = [w \in Windows |->
                                IF c.recent[w] = s /\ c.home[w] = None
                                THEN @[w] \cup {"gone"} ELSE @[w]]]

\* WorkspaceCommand::MoveWindow: the workspace is created on the window's display.
Moved(c, w, s) ==
  LET source == c.home[w]
      made == IF OwnerIn(c, s) # None THEN c
              ELSE [c EXCEPT !.owner[s] = OwnerIn(c, source)]
  IN Swept([made EXCEPT !.home[w] = s], source)

\* Windows the core does not know yet are placed: by a rule, else into the workspace
\* their display shows.
Placed(c, ws) ==
  LET new == {w \in ws : c.home[w] = None}
      place(w) == IF Rule[w] # None THEN Rule[w] ELSE c.shown[at'[w]]
  IN [c EXCEPT !.home = [w \in Windows |-> IF w \in new THEN place(w) ELSE @[w]],
               !.owner = [s \in Numbered |->
                            IF @[s] = None /\ \E w \in new : place(w) = s
                            THEN at'[CHOOSE w \in new : place(w) = s] ELSE @[s]]]

-----------------------------------------------------------------------------
(* The memories. *)

\* recent_workspace_target_for: the workspace is still on a display.
Recent(c, w) ==
  IF c.recent[w] # None /\ w \in known' /\ OwnerIn(c, c.recent[w]) # None
  THEN c.recent[w] ELSE None

\* Mutant of Remembered: nothing is remembered.
FaultyRemembered(c, w) == c

Remembered(c, w) == [c EXCEPT !.recent[w] = c.home[w]]

\* remember_recent_workspace_target_for_slot: the slot is turned into a number by
\* adding one, so that the tenth is out of range; and it must exist.
RememberedForSlot(c, w, s) ==
  IF s # Tenth /\ c.owner[s] # None THEN [c EXCEPT !.recent[w] = s] ELSE c

\* A window goes to its recent target; a hidden workspace has no number to move to.
Pulled(c, w) ==
  IF Recent(c, w) \in Numbered /\ c.home[w] # None THEN Moved(c, w, c.recent[w]) ELSE c

\* process_windows_for_app_rules: placing, then the windows concerned one by one; the
\* target of each is looked up when it is its turn.
ProcessRules(c, ws) ==
  LET after[i \in 0..Len(ws)] ==
        IF i = 0 THEN Placed(c, known') ELSE Pulled(after[i - 1], ws[i])
  IN after[Len(ws)]

\* consume_focus_next_window_for: while the workspace in which a command was started
\* is still shown, a new window is moved to it and focused.
Expected(c, w) ==
  IF next # None /\ next \in Range(c.shown) /\ c.home[w] # next /\ next \in Numbered
  THEN Moved(c, w, next) ELSE c

Lands(c, w) == c.home[w] \in Range(c.shown)
-----------------------------------------------------------------------------
(* The window a command is about. *)

ShownWindows(d) == {w \in Windows : home[w] = shown[d]}

\* AXMainWindow may lag behind Lift's own focus within an application; a main window
\* that is not assigned yet goes first.
AppFocus ==
  IF main = None \/ focus = None THEN IF main = None THEN focus ELSE main
  ELSE IF App[main] = App[focus] /\ home[main] # None /\ home[focus] # None
       THEN focus ELSE main

\* Without a focus: the window under the cursor, a window the command's display
\* shows, or one that any display shows.
Resolved ==
  IF AppFocus # None THEN {AppFocus}
  ELSE IF ShownWindows(cursor) # {} THEN ShownWindows(cursor)
  ELSE {w \in Windows : home[w] \in Range(shown)}

\* With focus_follows_mouse the window under the cursor is preferred; otherwise it is
\* used only when nothing has the focus.
Candidates ==
  Resolved \cup {w \in known : at[w] = cursor /\ home[w] \in {None, shown[cursor]}}

\* resolve_window_index: a command may name the window by its number, which others may have
\* too; one of a workspace that is not shown is taken when no other has it.
Indexed == {w \in known : home[w] # None}

Counted(kind) ==
  /\ steps < MaxSteps /\ steps' = steps + 1
  /\ kind = "move" => moves < MaxMoves
  /\ moves' = IF kind = "move" THEN moves + 1 ELSE moves
-----------------------------------------------------------------------------
(* The commands. *)

\* MoveWindowToWorkspace: a window that no workspace has yet is moved when it has one.
MoveWindowToWorkspace ==
  /\ Counted("move")
  /\ UNCHANGED <<known, at, main, cursor, next, clicked>>
  /\ \E w \in Candidates, s \in Numbered :
       IF home[w] = None
       THEN LET c == RememberedForSlot(Core, w, s)
            IN Becomes(Meant(c, w, s, IF c.recent[w] = s THEN {} ELSE {"nowhere"}))
       ELSE LET c == Remembered(Moved(Core, w, s), w)
            IN Becomes([Meant(c, w, s, {}) EXCEPT !.focus = w])

\* The same of a window that is named by its number, which is not focused.
MoveIndexedWindow ==
  /\ Counted("move")
  /\ UNCHANGED <<known, at, main, cursor, next, clicked>>
  /\ \E w \in Indexed, s \in Numbered :
       Becomes(Meant(Remembered(Moved(Core, w, s), w), w, s, {}))

\* MoveWindowToHiddenWorkspace: no target is remembered.
MoveWindowToHidden ==
  /\ Counted("move")
  /\ UNCHANGED <<known, at, main, cursor, next, clicked>>
  /\ \E w \in Candidates \cup Indexed :
       /\ home[w] # None
       /\ Becomes(Meant(Moved(Core, w, Hidden[cursor]), w, Hidden[cursor], {"hidden"}))

\* MoveWindowToDisplay: the frame is moved at once, then the window.
MoveWindowToDisplay ==
  /\ Counted("move")
  /\ UNCHANGED <<known, main, cursor, next, clicked>>
  /\ \E w \in Candidates \cup Indexed, d \in Displays :
       /\ home[w] # None /\ Display(home[w]) # d
       /\ at' = [at EXCEPT ![w] = d]
       /\ Becomes(Meant(Remembered(Moved(Core, w, shown[d]), w), w, shown[d], {}))

\* A window is dragged to another display, or its application moves it there.
FrameChangesDisplay ==
  /\ Counted("move")
  /\ UNCHANGED <<known, main, cursor, next, clicked>>
  /\ \E w \in known, d \in Displays :
       /\ home[w] # None /\ home[w] \in Range(shown) /\ at[w] # d
       /\ at' = [at EXCEPT ![w] = d]
       /\ Becomes(Meant(Remembered(Moved(Core, w, shown[d]), w), w, shown[d], {}))

\* A workspace is shown by a command or because an application was activated.
SwitchWorkspace ==
  /\ Counted("other")
  /\ UNCHANGED <<known, at, main, cursor, next, clicked>>
  /\ \E s \in Workspaces :
       LET d == IF Display(s) = None THEN cursor ELSE Display(s)
           made == IF Display(s) = None THEN [Core EXCEPT !.owner[s] = d] ELSE Core
       IN Becomes(Swept([made EXCEPT !.shown[d] = s], shown[d]))

\* A command is started whose window is to be focused, or the wait is given up.
FocusNextWindow ==
  /\ Counted("other")
  /\ \/ next' = (IF main # None /\ home[main] # None THEN shown[Display(home[main])]
                 ELSE shown[cursor])
     \/ next' = None
  /\ UNCHANGED <<core, known, at, main, cursor, clicked>>

\* Focusing a display focuses a window there, or moves the cursor if there is none.
FocusDisplay ==
  /\ Counted("other")
  /\ \E d \in Displays :
       IF ShownWindows(d) # {}
       THEN (\E w \in ShownWindows(d) : focus' = w) /\ UNCHANGED cursor
       ELSE cursor' = d /\ UNCHANGED focus
  /\ UNCHANGED <<owner, shown, home, recent, meant, spoiled, known, at, main, next, clicked>>
-----------------------------------------------------------------------------
(* Windows come, are seen again and go. *)

\* The application makes a new window its main one before the reactor has seen it.
BecomesMain ==
  /\ Counted("other")
  /\ \E w \in Windows : main' = w /\ main # w
  /\ UNCHANGED <<core, known, at, cursor, next, clicked>>

\* handle_window_created and handle_discovery of a new window.
WindowAppears ==
  /\ Counted("other")
  /\ \E w \in Windows \ known, d \in Displays :
       /\ known' = known \cup {w}
       /\ at' = [at EXCEPT ![w] = d]
  /\ LET w == CHOOSE x \in known' : x \notin known
         placed == ProcessRules(Core, <<w>>)
         expected == Expected(placed, w)
         done == IF expected = placed THEN placed
                 ELSE [expected EXCEPT !.spoiled[w] = @ \cup {"expected"}]
     IN /\ Becomes([done EXCEPT !.focus = IF next # None /\ Lands(done, w) THEN w ELSE @])
        /\ next' = IF Lands(done, w) THEN None ELSE next
  /\ UNCHANGED <<main, cursor, clicked>>

\* The windows of an application are seen again, or its rules are applied again.
WindowsDiscovered ==
  /\ Counted("other")
  /\ UNCHANGED <<known, at, main, cursor, next, clicked>>
  /\ \E a \in Range(App) : \E ws \in SetToSeqs({w \in known : App[w] = a}) :
       Becomes(ProcessRules(Core, ws))

WindowDestroyed ==
  /\ Counted("other")
  /\ \E w \in known :
       /\ known' = known \ {w}
       /\ Becomes(Swept([Meant(Core, w, None, {}) EXCEPT
                            !.home[w] = None, !.recent[w] = None,
                            !.focus = IF @ = w THEN None ELSE @], home[w]))
       /\ main' = IF main = w THEN None ELSE main
  /\ UNCHANGED <<at, cursor, next, clicked>>

\* A click on a window that is not managed, such as a floating controller, tells where
\* its application's window is wanted.
ClickAuxiliary ==
  /\ Counted("other")
  /\ \E a \in Range(App), d \in Displays :
       clicked' = [app |-> a, workspace |-> shown[d]]
  /\ UNCHANGED <<core, known, at, main, cursor, next>>

\* The application comes to the front: its main window follows the click, if the
\* workspace is still shown.
FollowClick ==
  /\ clicked # None /\ main \in known /\ App[main] = clicked.app
  /\ Counted("other")
  /\ clicked' = None
  /\ LET s == clicked.workspace
         c == [Core EXCEPT !.recent[main] = s]
     IN IF s \notin Range(shown) THEN UNCHANGED core
        ELSE IF s \in Numbered /\ home[main] # None
        THEN Becomes(Meant(Moved(c, main, s), main, s, {}))
        ELSE Becomes(IF home[main] \in {None, s} THEN Meant(c, main, s, {}) ELSE c)
  /\ UNCHANGED <<known, at, main, cursor, next>>

\* A target runs out 30 s after it was made, an expected window after 8 s, a click
\* after 3 s.
RunsOut ==
  /\ \/ \E w \in Windows :
          /\ recent[w] # None
          /\ Becomes([Core EXCEPT !.recent[w] = None,
                                  !.spoiled[w] = IF home[w] = None THEN @ \cup {"late"} ELSE @])
          /\ UNCHANGED <<next, clicked>>
     \/ next # None /\ next' = None /\ UNCHANGED <<core, clicked>>
     \/ clicked # None /\ clicked' = None /\ UNCHANGED <<core, next>>
  /\ UNCHANGED <<known, at, main, cursor, steps, moves>>

Init ==
  /\ \E f \in [Displays -> Numbered \ {Tenth}] :
       /\ IsInjective(f) /\ shown = f
       /\ owner = [s \in Numbered |->
                     IF \E d \in Displays : f[d] = s THEN CHOOSE d \in Displays : f[d] = s
                     ELSE None]
  /\ home = [w \in Windows |-> None] /\ focus = None /\ known = {}
  /\ at = [w \in Windows |-> CHOOSE d \in Displays : TRUE]
  /\ main = None /\ cursor \in Displays
  /\ recent = [w \in Windows |-> None] /\ next = None /\ clicked = None
  /\ meant = [w \in Windows |-> None] /\ spoiled = [w \in Windows |-> {}]
  /\ steps = 0 /\ moves = 0

Next ==
  \/ MoveWindowToWorkspace \/ MoveIndexedWindow \/ MoveWindowToHidden \/ MoveWindowToDisplay
  \/ FrameChangesDisplay \/ SwitchWorkspace \/ FocusNextWindow \/ FocusDisplay
  \/ BecomesMain \/ WindowAppears \/ WindowsDiscovered \/ WindowDestroyed
  \/ ClickAuxiliary \/ FollowClick \/ RunsOut

Spec == Init /\ [][Next]_vars
-----------------------------------------------------------------------------
Elsewhere(w) == home[w] # None /\ meant[w] \notin {None, home[w]}

\* A window stays where the user last put it, and one that was moved before it had a
\* workspace gets there, however it is seen again, placed by rules or moved before;
\* unless it was moved to the hidden workspace, was expected by a command, was sent
\* where no target can be remembered, or to a workspace that went away, or was seen
\* too late.
MovesAreExplained == \A w \in Windows : Elsewhere(w) => spoiled[w] # {}

\* No exception for a workspace there is none of yet, or for the tenth.
DeferredMovesArrive == \A w \in Windows : Elsewhere(w) => spoiled[w] # {"nowhere"}

\* No exception for the hidden workspace.
HiddenStaysHidden == \A w \in Windows : Elsewhere(w) => spoiled[w] # {"hidden"}

\* No exception for a window that a command expected.
LastCommandWins == \A w \in Windows : Elsewhere(w) => spoiled[w] # {"expected"}
=============================================================================
