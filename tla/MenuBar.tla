------------------------------- MODULE MenuBar -------------------------------
(***************************************************************************)
(* The menu bar item: the reactor's updates (actor/reactor/query.rs,        *)
(* interfaces/ui.rs), the debouncer and the signatures of the actor         *)
(* (actor/menu_bar.rs), and how the item chooses between its wide and its   *)
(* compact form (ui/menu_bar.rs).                                           *)
(*                                                                         *)
(* What an update says is the order of the displays, the one with the       *)
(* active context, and the windows of their workspaces, one workspace each, *)
(* with the number that the application gave them and the frame.  The       *)
(* display mode is Auto.  The right edge of the item does not move when its width changes,  *)
(* and the padding that the system adds to it is not above the margin for   *)
(* growing.                                                                 *)
(***************************************************************************)
EXTENDS Integers, SequencesExt

CONSTANTS
  Updates,       \* what an update may say: [order, active, windows], a sequence of
                 \* [pid, idx, frame] for every display
  Styles,        \* the settings that the item is drawn with
  Wide, Narrow,  \* the width of all workspaces, and of the active one
  Padding,       \* the width that the system adds
  Margin,        \* AUTO_EXPAND_MARGIN
  Rooms,         \* the widths from the safe area to the right edge
  MaxUpdates, MaxEdits, MaxRooms

VARIABLES
  sent,        \* the update that the reactor sent last, NoUpdate before the first
  config,      \* the reactor's settings: [enabled, style]
  rx,          \* the actor's channel
  pending,     \* the update that waits for a tick
  arms,        \* DebounceCommand::Arm on their way to the debouncer
  armed,       \* the debouncer waits for the end of the period, not of the second
  ticks,       \* on their way to the actor
  settings,    \* Menu::config
  lastUpdate, lastSignature,
  icon,        \* Menu::icon: "none", or "there"
  drawn,       \* what the item was drawn from: an update and a style
  compact, prevWidth, dirty, lastFrame, \* MenuIcon
  frame,       \* the width of the item that the window server tells, 0 before it has a window
  room,
  updates, edits, rooms,
  turns        \* history: changes of form since the room last changed or the item was made

channels == <<rx, arms, armed, ticks>>
actor == <<pending, settings, lastUpdate, lastSignature>>
item == <<icon, drawn, compact, prevWidth, dirty, lastFrame, turns>>
world == <<frame, room>>
bounds == <<updates, edits, rooms>>
vars == <<sent, config, channels, actor, item, world, bounds>>

NoUpdate == [order |-> <<>>, active |-> "none", windows |-> <<>>]
Blank == [update |-> NoUpdate, style |-> "none"]

\* Widths; the margin for growing covers what the system adds.
MenuBarAssumption ==
  /\ {Wide, Narrow, Padding, Margin} \subseteq Nat
  /\ Narrow <= Wide /\ Padding <= Margin
  /\ Rooms \subseteq Int

\* The reactor sends every update: it does not remember the last one.
MaybeSendMenuUpdate ==
  /\ updates < MaxUpdates /\ updates' = updates + 1
  /\ sent' \in Updates
  /\ rx' = Append(rx, [kind |-> "Update", update |-> sent'])
  /\ UNCHANGED <<config, arms, armed, ticks, actor, item, world, edits, rooms>>

Reconfigure ==
  /\ edits < MaxEdits /\ edits' = edits + 1
  /\ config' \in [enabled : BOOLEAN, style : Styles] \ {config}
  /\ rx' = Append(rx, [kind |-> "ConfigUpdated", config |-> config'])
  /\ UNCHANGED <<sent, arms, armed, ticks, actor, item, world, updates, rooms>>
-----------------------------------------------------------------------------
(* The item. *)

\* available_width and menu_width_budget: the room, less what the system is taken to add.
Available ==
  LET added == frame - prevWidth
  IN IF frame = 0 THEN -1 ELSE room - (IF added > 0 THEN added ELSE 0)

\* Mutant of AutoCompact: no more room is asked for to grow than to stay wide.
FaultyAutoCompact(wasCompact) == Available < 0 \/ Wide > Available

\* auto_compact: to grow, more room has to be there than to stay wide.
AutoCompact(wasCompact) ==
  Available < 0 \/ Wide + (IF wasCompact THEN Margin ELSE 0) > Available

\* refresh, for an item that has something to show.
Refresh(isDirty, content) ==
  LET form == AutoCompact(compact)
      changed == isDirty \/ form # compact \/ frame # lastFrame
  IN /\ compact' = form /\ dirty' = FALSE /\ lastFrame' = frame
     /\ prevWidth' = IF changed THEN (IF form THEN Narrow ELSE Wide) ELSE prevWidth
     /\ turns' = IF form # compact THEN turns + 1 ELSE turns
     /\ drawn' = content
     /\ UNCHANGED icon

\* Mutant of Trace: the frame is left out.
FaultyTrace(w) == [idx |-> w.idx, frame |-> "any"]

\* window_sig: without the process.
Trace(w) == [idx |-> w.idx, frame |-> w.frame]

\* workspace_sig: sums, which forget the order of the windows.
Traces(windows) ==
  [t \in {Trace(w) : w \in Range(windows)} |->
     Cardinality({i \in DOMAIN windows : Trace(windows[i]) = t})]

\* sig: sums again, which forget in which order the displays are, but for the place of the
\* active one.  That two sums are the same by chance is left out.
Signature(u) ==
  [active |-> u.active, place |-> SelectInSeq(u.order, LAMBDA d : d = u.active),
   workspaces |-> [d \in Range(u.order) |-> <<Len(u.windows[d]), Traces(u.windows[d])>>]]

\* apply_update
ApplyUpdate(u) ==
  IF icon = "none" \/ lastSignature = <<Signature(u)>>
  THEN UNCHANGED <<item, lastSignature>>
  ELSE /\ lastSignature' = <<Signature(u)>>
       /\ Refresh(TRUE, [update |-> u, style |-> settings.style])
-----------------------------------------------------------------------------
(* The actor. *)

\* An update waits; the one that waited before is forgotten.
ReceiveUpdate ==
  /\ rx # <<>> /\ Head(rx).kind = "Update"
  /\ rx' = Tail(rx)
  /\ pending' = <<Head(rx).update>>
  /\ arms' = arms + 1
  /\ UNCHANGED <<sent, config, armed, ticks, settings, lastUpdate, lastSignature, item, world, bounds>>

\* handle_config_updated: the last update is applied again, to a new item perhaps.
ReceiveConfig ==
  /\ rx # <<>> /\ Head(rx).kind = "ConfigUpdated"
  /\ rx' = Tail(rx)
  /\ LET new == Head(rx).config
         made == new.enabled /\ icon = "none"
         again == new.enabled /\ lastUpdate # <<>>
         content == [update |-> lastUpdate[1], style |-> new.style]
     IN /\ settings' = new
        /\ lastSignature' = IF again THEN <<Signature(lastUpdate[1])>> ELSE <<>>
        /\ frame' = IF new.enabled /\ ~made THEN frame ELSE 0
        /\ IF ~new.enabled
           THEN /\ icon' = "none" /\ drawn' = Blank /\ compact' = TRUE /\ prevWidth' = 0
                /\ dirty' = TRUE /\ lastFrame' = 0 /\ turns' = 0
           ELSE IF made
           THEN /\ icon' = "there" /\ compact' = TRUE /\ lastFrame' = 0 /\ turns' = 0
                /\ drawn' = IF again THEN content ELSE Blank
                /\ prevWidth' = IF again THEN Narrow ELSE 0
                /\ dirty' = ~again
           ELSE IF again THEN Refresh(TRUE, content) ELSE UNCHANGED item
  /\ UNCHANGED <<sent, config, arms, armed, ticks, pending, lastUpdate, room, bounds>>

\* A tick applies what waits, or measures the item again.
Tick ==
  /\ ticks > 0 /\ ticks' = ticks - 1
  /\ IF pending # <<>>
     THEN /\ pending' = <<>> /\ lastUpdate' = pending
          /\ ApplyUpdate(pending[1])
          /\ UNCHANGED settings
     ELSE /\ IF icon = "there" /\ drawn # Blank THEN Refresh(dirty, drawn) ELSE UNCHANGED item
          /\ UNCHANGED actor
  /\ UNCHANGED <<sent, config, rx, arms, armed, world, bounds>>
-----------------------------------------------------------------------------
(* The debouncer. *)

Arm ==
  /\ arms > 0 /\ arms' = arms - 1 /\ armed' = TRUE
  /\ UNCHANGED <<sent, config, rx, ticks, actor, item, world, bounds>>

\* The period ends 150 ms after the last update, the second without one; the second ends
\* again only when its tick was taken, which bounds the ticks.
PeriodEnds ==
  /\ armed /\ arms = 0
  /\ armed' = FALSE /\ ticks' = ticks + 1
  /\ UNCHANGED <<sent, config, rx, arms, actor, item, world, bounds>>

SecondEnds ==
  /\ ~armed /\ arms = 0 /\ ticks = 0
  /\ ticks' = 1
  /\ UNCHANGED <<sent, config, rx, arms, armed, actor, item, world, bounds>>
-----------------------------------------------------------------------------
(* The system. *)

WindowFollows ==
  /\ icon = "there" /\ frame # prevWidth + Padding
  /\ frame' = prevWidth + Padding
  /\ UNCHANGED <<sent, config, channels, actor, item, room, bounds>>

\* Another item comes or goes, or the item moves to another screen.
RoomChanges ==
  /\ rooms < MaxRooms /\ rooms' = rooms + 1
  /\ room' \in Rooms \ {room}
  /\ turns' = 0
  /\ UNCHANGED <<sent, config, channels, actor, icon, drawn, compact, prevWidth, dirty, lastFrame,
                 frame, updates, edits>>
-----------------------------------------------------------------------------
Init ==
  /\ sent = NoUpdate /\ config \in [enabled : BOOLEAN, style : Styles]
  /\ rx = <<>> /\ pending = <<>> /\ arms = 0 /\ armed = FALSE /\ ticks = 0
  /\ settings = config /\ lastUpdate = <<>> /\ lastSignature = <<>>
  /\ icon = (IF config.enabled THEN "there" ELSE "none")
  /\ drawn = Blank /\ compact = TRUE /\ prevWidth = 0 /\ dirty = TRUE /\ lastFrame = 0
  /\ frame = 0 /\ room \in Rooms
  /\ updates = 0 /\ edits = 0 /\ rooms = 0 /\ turns = 0

Next ==
  \/ MaybeSendMenuUpdate \/ Reconfigure
  \/ ReceiveUpdate \/ ReceiveConfig \/ Tick \/ Arm \/ PeriodEnds \/ SecondEnds
  \/ WindowFollows \/ RoomChanges

Spec == Init /\ [][Next]_vars
-----------------------------------------------------------------------------
AtRest == rx = <<>> /\ arms = 0 /\ ~armed /\ ticks = 0

\* What the layout style draws of a workspace: the frames of its windows.
Frames(windows) == {w.frame : w \in Range(windows)}

\* primary_app_icon, what the label style draws of it: the icon of the application that the
\* first window belongs to.
AppIcon(windows) == IF windows = <<>> THEN "none" ELSE Head(windows).pid

\* When nothing is under way, the item that is there is the one the settings ask for, and
\* is drawn with the current settings from what the reactor sent last: its displays, the
\* active one, and of every workspace how many windows it has and where they are.  What it
\* may still show from an earlier update is the order of the other displays, and the icon
\* of an application whose windows had the numbers and the frames of the present ones.
MenuIsCurrent ==
  AtRest =>
    /\ settings = config /\ (icon = "there") = config.enabled
    /\ pending = <<>>
    /\ icon = "there" /\ sent # NoUpdate =>
         /\ drawn.style = config.style
         /\ drawn.update.active = sent.active
         /\ Range(drawn.update.order) = Range(sent.order)
         /\ \A d \in Range(sent.order) :
              /\ Len(drawn.update.windows[d]) = Len(sent.windows[d])
              /\ Frames(drawn.update.windows[d]) = Frames(sent.windows[d])

\* As long as the room stays the same, the item changes its form at most once: it does not
\* measure its own width and change back.
FormIsStable == turns <= 1

\* What does not hold: another order of the displays is shown.
OrderIsShown == AtRest /\ icon = "there" /\ sent # NoUpdate => drawn.update.order = sent.order

\* What does not hold: a workspace has the icon of the application its first window belongs
\* to.
IconsAreShown ==
  AtRest /\ icon = "there" /\ sent # NoUpdate =>
    \A d \in Range(sent.order) : AppIcon(drawn.update.windows[d]) = AppIcon(sent.windows[d])
=============================================================================
