--------------------------- MODULE MissionControl ---------------------------
(***************************************************************************)
(* Lift's own overview of the workspaces: the actor that shows and hides     *)
(* the overlay (actor/mission_control.rs), the overlay with its tiles and    *)
(* the highlighted one (ui/mission_control.rs), and the reactor that is      *)
(* sent what was picked (events/command.rs).                                 *)
(*                                                                           *)
(* The overlay's keys are heard by an event tap; what they pick is posted    *)
(* to the main queue, from there to the actor, and from there to the         *)
(* reactor.  A picked workspace travels as its position in the list the      *)
(* overlay was drawn from, and the reactor looks that position up in a list  *)
(* of its own, which may have changed.  Geometry is left out: a click hits   *)
(* a tile or none.                                                           *)
(***************************************************************************)
EXTENDS Integers, FiniteSets, SequencesExt

CONSTANTS
  Displays,
  Order,        \* the workspaces, in the order of their numbers
  WindowOrder,  \* the windows, in the order of their layout
  Enabled,      \* settings.ui.mission_control.enabled when Lift was started
  MaxShows,     \* bound: how often the overlay is asked for
  MaxKeys,      \* bound: keys and clicks
  MaxChanges,   \* bound: changes of windows, workspaces, cursor and focus, and how often
                \*   the system's Mission Control opens or closes
  None

\* What the constants are.
OverviewAssumption ==
  /\ Order \in Seq(Range(Order)) /\ WindowOrder \in Seq(Range(WindowOrder))
  /\ None \notin Displays \cup {"all", "current"}

VARIABLES
  owner,     \* CoreState: the display of each workspace, None if it does not exist
  shown,     \* CoreState: the workspace each display shows
  home,      \* CoreState: the workspace of each window
  focus,     \* CoreState: focused_window
  context,   \* CoreState: the display with is_active_context
  phase,     \* CoreState: MissionControlPhase
  cursor,    \* the display the cursor is on
  native,    \* the system's Mission Control is open
  overlay,   \* MissionControlActor: overlay, with its state
  view,      \* MissionControlActor: current_view_mode, None unless it is active
  posted,    \* the main queue: actions on their way to the actor
  rx,        \* the actor's channel
  events,    \* the reactor's channel
  picked,    \* the last pick the reactor carried out, against what was meant
  shows, keys, changes

core == <<owner, shown, home, focus, context>>
vars == <<core, phase, cursor, native, overlay, view, posted, rx, events, picked,
          shows, keys, changes>>

Workspaces == Range(Order)
Windows == Range(WindowOrder)
Action(kind, of, meant, drawn) ==
  [kind |-> kind, of |-> of, meant |-> meant, drawn |-> drawn]
Message(kind) == Action(kind, None, None, None)
-----------------------------------------------------------------------------
(* What the overlay is given to show. *)

\* The elements of a sequence at some positions, in their order.
At(seq, positions) ==
  [k \in 1..Cardinality(positions) |->
     seq[CHOOSE i \in positions : Cardinality({j \in positions : j <= i}) = k]]

\* The numbered workspaces of a display, in the order of the number keys.
ListOf(d) == At(Order, {i \in DOMAIN Order : owner[Order[i]] = d})

Drawn(d) == [display |-> d, list |-> ListOf(d)]

WorkspaceTiles ==
  [i \in DOMAIN ListOf(context) |->
     LET s == ListOf(context)[i]
     IN [id |-> s, full |-> \E w \in Windows : home[w] = s, active |-> shown[context] = s]]

WindowTiles ==
  LET ws == At(WindowOrder, {i \in DOMAIN WindowOrder : home[WindowOrder[i]] = shown[context]})
  IN [i \in DOMAIN ws |-> [id |-> ws[i], full |-> TRUE, active |-> focus = ws[i]]]

\* A workspace without windows is shown only while it is the active one.
Visible(o) == At(o.tiles, {i \in DOMAIN o.tiles : o.tiles[i].full \/ o.tiles[i].active})

\* ensure_selection: the active tile, else the first.
Chosen(o) ==
  LET vs == Visible(o)
  IN IF o.selected # None \/ vs = <<>> THEN o.selected
     ELSE IF \E i \in DOMAIN vs : vs[i].active
     THEN (CHOOSE i \in DOMAIN vs : /\ vs[i].active
                                    /\ \A j \in 1..(i - 1) : ~vs[j].active) - 1
     ELSE 0

Fresh(mode) ==
  LET o == [mode |-> mode, drawn |-> Drawn(context), selected |-> None,
            tiles |-> IF mode = "all" THEN WorkspaceTiles ELSE WindowTiles]
  IN [o EXCEPT !.selected = Chosen(o)]

\* highlight_active_workspace: only the highlight moves, the tiles stay as they were
\* drawn.
Highlighted(o) ==
  LET p == [o EXCEPT !.tiles =
              [i \in DOMAIN o.tiles |->
                 [o.tiles[i] EXCEPT !.active = o.tiles[i].id = shown[context]]]]
  IN IF \E t \in Range(p.tiles) : t.active
     THEN [p EXCEPT !.selected = Chosen([p EXCEPT !.selected = None])] ELSE p
-----------------------------------------------------------------------------
(* Moving the highlight.  Tiles are numbered from 0; those of workspaces are  *)
(* laid out in two rows, column by column.                                     *)

Columns(n) == (n + 1) \div 2
Rows(mode, n) == IF mode = "all" /\ n > Columns(n) THEN 2 ELSE 1

Apart(a, b) == IF a < b THEN b - a ELSE a - b

NearestBottom(n, column) ==
  CHOOSE i \in 0..(n - 1) :
    /\ i % 2 = 1
    /\ \A j \in 0..(n - 1) :
         j % 2 = 1 => \/ Apart(column, i \div 2) < Apart(column, j \div 2)
                      \/ Apart(column, i \div 2) = Apart(column, j \div 2) /\ i <= j

\* The next column, going round, that has a tile in this row.
Sideways(n, i, step) ==
  LET at(k) == ((i \div 2 + step * k) % Columns(n)) * 2 + (i % 2)
      k0 == CHOOSE k \in 1..Columns(n) : at(k) < n /\ \A l \in 1..(k - 1) : at(l) >= n
  IN at(k0)

Navigate(mode, n, i, direction) ==
  LET step == IF direction \in {"left", "up"} THEN -1 ELSE 1
      below == (i \div 2) * 2 + 1
  IN IF Rows(mode, n) = 1 THEN (i + step) % n
     ELSE IF direction \in {"left", "right"} THEN Sideways(n, i, step)
     ELSE IF i % 2 = 1 THEN i - 1
     ELSE IF below < n THEN below ELSE NearestBottom(n, i \div 2)

\* Tab goes through the first row and then through the second.
Cycle(mode, n, i, step) ==
  LET order == IF Rows(mode, n) = 1 THEN [k \in 1..n |-> k - 1]
               ELSE [k \in 1..n |-> IF k <= Columns(n) THEN 2 * (k - 1)
                                    ELSE 2 * (k - 1 - Columns(n)) + 1]
      at == CHOOSE k \in 1..n : order[k] = i
  IN order[((at - 1 + step) % n) + 1]

Clamped(o) == Min({o.selected, Len(Visible(o)) - 1})

Adjusted(o, direction) ==
  IF Visible(o) = <<>> THEN o
  ELSE LET n == Len(Visible(o))
       IN [o EXCEPT !.selected =
             CASE direction = "tab" -> Cycle(o.mode, n, Clamped(o), 1)
               [] direction = "back" -> Cycle(o.mode, n, Clamped(o), -1)
               [] OTHER -> Navigate(o.mode, n, Clamped(o), direction)]
-----------------------------------------------------------------------------
(* Picking. *)

\* Mutant of Pick: the position among the visible tiles is posted.
FaultyPick(o) ==
  LET id == Visible(o)[Clamped(o) + 1].id
  IN IF o.mode = "all" THEN Action("switch", Clamped(o), id, o.drawn)
     ELSE Action("focus", id, id, o.drawn)

\* What is posted for the highlighted tile: of a workspace its position among all
\* tiles, hidden ones included; of a window its identity.
Pick(o) ==
  LET id == Visible(o)[Clamped(o) + 1].id
      original == (CHOOSE i \in DOMAIN o.tiles : o.tiles[i].id = id) - 1
  IN IF o.mode = "all" THEN Action("switch", original, id, o.drawn)
     ELSE Action("focus", id, id, o.drawn)

Activate(o) == posted' = IF Visible(o) = <<>> THEN posted ELSE Append(posted, Pick(o))

Pressed ==
  /\ overlay # None /\ keys < MaxKeys
  /\ keys' = keys + 1
  /\ UNCHANGED <<core, phase, cursor, native, view, rx, events, picked,
                 shows, changes>>

ArrowOrTab ==
  /\ Pressed
  /\ \E direction \in {"left", "right", "up", "down", "tab", "back"} :
       overlay' = Adjusted(overlay, direction)
  /\ UNCHANGED posted

Return == Pressed /\ Activate(overlay) /\ UNCHANGED overlay

Escape ==
  Pressed /\ posted' = Append(posted, Message("dismiss")) /\ UNCHANGED overlay

\* A click on a tile picks it; one beside the tiles dismisses the overlay.
Click ==
  /\ Pressed
  /\ \/ \E i \in DOMAIN Visible(overlay) :
          /\ overlay' = [overlay EXCEPT !.selected = i - 1]
          /\ Activate([overlay EXCEPT !.selected = i - 1])
     \/ posted' = Append(posted, Message("dismiss")) /\ UNCHANGED overlay

MouseMoves ==
  /\ Pressed
  /\ \E i \in DOMAIN Visible(overlay) : overlay' = [overlay EXCEPT !.selected = i - 1]
  /\ UNCHANGED posted

ActionPosted ==
  /\ posted # <<>>
  /\ posted' = Tail(posted) /\ rx' = Append(rx, Head(posted))
  /\ UNCHANGED <<core, phase, cursor, native, overlay, view, events, picked,
                 shows, keys, changes>>
-----------------------------------------------------------------------------
(* The actor. *)

Dispose == overlay' = None /\ view' = None /\ UNCHANGED events

Show(mode) ==
  IF view # None THEN Dispose
  ELSE view' = mode /\ overlay' = Fresh(mode) /\ UNCHANGED events

RefreshCurrent ==
  /\ UNCHANGED <<view, events>>
  /\ overlay' = CASE view = "current" -> Fresh("current")
                  [] view = "all" -> Highlighted(overlay)
                  [] OTHER -> overlay

ActorStep ==
  /\ rx # <<>>
  /\ rx' = Tail(rx)
  /\ LET m == Head(rx)
     IN IF ~Enabled THEN UNCHANGED <<overlay, view, events>>
        ELSE CASE m.kind \in {"all", "current"} -> Show(m.kind)
               [] m.kind = "dismiss" -> Dispose
               [] m.kind = "refresh" -> RefreshCurrent
               [] OTHER -> overlay' = None /\ view' = None /\ events' = Append(events, m)
  /\ UNCHANGED <<core, phase, cursor, native, posted, picked, shows, keys, changes>>
-----------------------------------------------------------------------------
(* The reactor. *)

\* The position is looked up among the workspaces of the display commands are for.
Switch(m) ==
  LET list == ListOf(cursor)
  IN IF m.of < Len(list)
     THEN /\ shown' = [shown EXCEPT ![cursor] = list[m.of + 1]]
          /\ picked' = [meant |-> m.meant, got |-> list[m.of + 1],
                        asDrawn |-> m.drawn = Drawn(cursor)]
          /\ UNCHANGED <<owner, home, focus, context>>
     ELSE /\ picked' = [meant |-> m.meant, got |-> None, asDrawn |-> m.drawn = Drawn(cursor)]
          /\ UNCHANGED core

FocusWindow(m) ==
  /\ focus' = m.of
  /\ UNCHANGED <<owner, shown, home, context, picked>>

\* A hotkey's switch to a workspace by its number, which is created if there is none.
SwitchByNumber(m) ==
  /\ IF owner[m.of] = None
     THEN owner' = [owner EXCEPT ![m.of] = cursor] /\ shown' = [shown EXCEPT ![cursor] = m.of]
     ELSE shown' = [shown EXCEPT ![owner[m.of]] = m.of] /\ UNCHANGED owner
  /\ UNCHANGED <<home, focus, context, picked>>

\* Commands that come to the reactor are noted in the core and passed on to the actor;
\* the system's notifications are noted only when they change whether it is active.
NextPhase(m) ==
  CASE m.kind = "all" -> "ShowAllRequested"
    [] m.kind = "current" -> "ShowCurrentRequested"
    [] m.kind = "dismiss" -> "DismissRequested"
    [] m.kind = "entered" -> "Active"
    [] m.kind = "exited" /\ phase = "Active" -> "Inactive"
    [] OTHER -> phase

ReactorStep ==
  /\ events # <<>>
  /\ events' = Tail(events)
  /\ LET m == Head(events)
     IN /\ CASE m.kind = "switch" -> Switch(m)
             [] m.kind = "focus" -> FocusWindow(m)
             [] m.kind = "number" -> SwitchByNumber(m)
             [] OTHER -> UNCHANGED <<core, picked>>
        /\ phase' = NextPhase(m)
        /\ rx' = IF m.kind \in {"all", "current", "dismiss"} THEN Append(rx, m) ELSE rx
  /\ UNCHANGED <<cursor, native, overlay, view, posted, shows, keys, changes>>
-----------------------------------------------------------------------------
(* The user and the world around. *)

\* The overlay is asked for by a hotkey, which goes to the actor at once, or by a
\* command, which passes through the reactor.
AskForOverlay ==
  /\ shows < MaxShows /\ shows' = shows + 1
  /\ \E kind \in {"all", "current", "dismiss"} :
       \/ rx' = Append(rx, Message(kind)) /\ UNCHANGED events
       \/ events' = Append(events, Message(kind)) /\ UNCHANGED rx
  /\ UNCHANGED <<core, phase, cursor, native, overlay, view, posted, picked,
                 keys, changes>>

\* A hotkey's switch: the actor is told before the reactor carries it out.
SwitchHotkey ==
  /\ changes < MaxChanges /\ changes' = changes + 1
  /\ \E s \in Workspaces :
       /\ rx' = Append(rx, Message("refresh"))
       /\ events' = Append(events, Action("number", s, None, None))
  /\ UNCHANGED <<core, phase, cursor, native, overlay, view, posted, picked,
                 shows, keys>>

CoreChanges ==
  /\ changes < MaxChanges /\ changes' = changes + 1
  /\ \/ \E s \in Workspaces, d \in Displays :
          /\ owner[s] = None /\ owner' = [owner EXCEPT ![s] = d]
          /\ UNCHANGED <<shown, home, focus, context, cursor>>
     \/ \E s \in Workspaces :
          /\ owner[s] # None /\ s \notin Range(shown) /\ s \notin Range(home)
          /\ owner' = [owner EXCEPT ![s] = None]
          /\ UNCHANGED <<shown, home, focus, context, cursor>>
     \/ \E w \in Windows, s \in Workspaces :
          /\ owner[s] # None /\ home' = [home EXCEPT ![w] = s]
          /\ UNCHANGED <<owner, shown, focus, context, cursor>>
     \/ \E w \in Windows :
          focus' = w /\ context' = owner[home[w]] /\ UNCHANGED <<owner, shown, home, cursor>>
     \/ \E d \in Displays : cursor' = d /\ UNCHANGED core
  /\ UNCHANGED <<phase, native, overlay, view, posted, rx, events, picked,
                 shows, keys>>

NativeMissionControl ==
  /\ changes < MaxChanges /\ changes' = changes + 1
  /\ native' = ~native
  /\ events' = Append(events, Message(IF native THEN "exited" ELSE "entered"))
  /\ UNCHANGED <<core, phase, cursor, overlay, view, posted, rx, picked,
                 shows, keys>>

\* Every display shows a workspace of its own; the last one of Order does not exist.
Init ==
  /\ \E f \in [Displays -> Workspaces] :
       /\ IsInjective(f)
       /\ owner = [s \in Workspaces |->
                     IF s \in Range(f) THEN CHOOSE d \in Displays : f[d] = s
                     ELSE IF s = Last(Order) THEN None ELSE CHOOSE d \in Displays : TRUE]
       /\ shown = f
  /\ home \in [Windows -> {s \in Workspaces : owner[s] # None}]
  /\ focus = None /\ context \in Displays /\ cursor = context
  /\ phase = "Inactive" /\ native = FALSE
  /\ overlay = None /\ view = None
  /\ posted = <<>> /\ rx = <<>> /\ events = <<>>
  /\ picked = [meant |-> None, got |-> None, asDrawn |-> TRUE]
  /\ shows = 0 /\ keys = 0 /\ changes = 0

Next ==
  \/ ArrowOrTab \/ Return \/ Escape \/ Click \/ MouseMoves
  \/ ActionPosted \/ ActorStep \/ ReactorStep
  \/ AskForOverlay \/ SwitchHotkey \/ CoreChanges \/ NativeMissionControl

Spec == Init /\ [][Next]_vars
-----------------------------------------------------------------------------
(* Properties. *)

\* If the display commands are for still has the workspaces the overlay was drawn
\* from, the workspace that was highlighted is the one that is switched to: the
\* detour through a position loses nothing, whichever tiles are hidden.
PickIsHonoured == picked.asDrawn => picked.got = picked.meant

\* What does not hold: also if workspaces came or went while the overlay was open, it is
\* the workspace that was highlighted.
PickLeadsThere == picked.got = picked.meant

AtRest == posted = <<>> /\ rx = <<>> /\ events = <<>>

\* When nothing is under way, the overlay of all workspaces marks the one its display
\* shows.
HighlightFollows ==
  (AtRest /\ view = "all" /\ overlay.drawn = Drawn(context)) =>
    \A t \in Range(overlay.tiles) : t.active <=> t.id = shown[context]

\* When nothing is under way, the core knows whether the system's Mission Control is
\* open.
NativeIsKnown == AtRest => (native <=> phase = "Active")
=============================================================================
