------------------------------ MODULE StackLine ------------------------------
(***************************************************************************)
(* The lines that mark stacked windows (actor/stack_line.rs and             *)
(* ui/stack_line.rs): which indicators are on the screen after which        *)
(* snapshots of the core and which changes of the configuration, and where  *)
(* the event tap (actor/event_tap.rs) takes a click for one of them.        *)
(*                                                                         *)
(* A picture is what a display shows: the groups of its active workspace    *)
(* that have more than one window, and whether one of its windows is in     *)
(* fullscreen.  A group's id is given by its own tree (core/bsp.rs 587), so *)
(* that groups on two displays may have the same.  The reactor publishes a  *)
(* snapshot after every event, once its state allows it.  No window of      *)
(* another application lies over a line.                                    *)
(*                                                                         *)
(* The frame of a line follows from the frame of its group and from the     *)
(* thickness and the spacing of the settings, which are its size here.  The *)
(* window server may refuse to make a line's window or to move it; that it  *)
(* refuses to order a window in or out is left out.                         *)
(***************************************************************************)
EXTENDS Naturals, SequencesExt

CONSTANTS
  Order,       \* the spaces of the displays, in the order of the snapshot
  Sights,      \* of a space, what may be shown: [groups, full]
  Sizes,       \* settings.ui.stack_line.thickness and spacing
  MaxNews,     \* bound: changes of what is shown and of the configuration, and refusals
  MaxClicks

VARIABLES
  shown,       \* the core: the picture of every active space
  setting,     \* the reactor's settings.ui.stack_line: [enabled, size]
  due,         \* the reactor has not published what is shown
  letters,     \* the actor's channel
  on, size,    \* StackLine::config, as is_enabled and indicator_config read it
  indicators,  \* StackLine::indicators, by the id of the group
  sigs,        \* group_sigs_by_space
  rects,       \* shared_hit_rects: where a click is taken
  happenings, clicks,
  collided,    \* history: a snapshot had two groups with the same id
  owed,        \* history: <<space, id>> of the groups for which the window server refused
               \* a frame when they were last drawn
  aged,        \* history: the spaces not drawn since the size changed
  lost         \* history: a click was taken with no news on its way, and did not
               \* lead to the window under it

\* A group of a display has an id of its own.
LinesAssumption ==
  /\ Order \in Seq(Range(Order))
  /\ \A s \in Range(Order) : \A p \in Sights[s] :
       /\ p.full \in BOOLEAN
       /\ \A g, h \in p.groups : g.id = h.id => g = h

screen == <<on, size, indicators, sigs, rects, owed, aged>>
vars == <<shown, setting, due, letters, screen, happenings, clicks, collided, lost>>

Without(f, keys) == [k \in DOMAIN f \ keys |-> f[k]]
With(f, g) == [k \in DOMAIN f \union DOMAIN g |-> IF k \in DOMAIN g THEN g[k] ELSE f[k]]

\* GroupIndicatorWindow: what it shows, and where (calculate_indicator_frame).
Indicator(space, g) ==
  [space |-> space, frame |-> [place |-> g.place, size |-> size], windows |-> g.windows,
   selected |-> g.selected, visible |-> TRUE]
-----------------------------------------------------------------------------
(* The actor. *)

Display == [indicators |-> indicators, sigs |-> sigs, owed |-> owed, aged |-> aged]

\* The indicators and the signatures of the spaces that are still shown.
Kept(display, active) ==
  LET gone == {i \in DOMAIN display.indicators : display.indicators[i].space \notin active}
  IN [indicators |-> Without(display.indicators, gone),
      sigs |-> Without(display.sigs, DOMAIN display.sigs \ active),
      owed |-> {p \in display.owed : p[1] \in active},
      aged |-> display.aged \intersect active]

\* update_or_create_indicator, for the groups of a space: a line that is refused its frame
\* keeps the one it has, and one that has none is not made.
Drawn(display, space, groups, refused) ==
  LET Refused(i) == <<space, i>> \in refused
  IN [i \in {g.id : g \in groups} \ {j \in {g.id : g \in groups} :
                                       Refused(j) /\ j \notin DOMAIN display.indicators} |->
        LET line == Indicator(space, CHOOSE g \in groups : g.id = i)
        IN IF Refused(i) THEN [line EXCEPT !.frame = display.indicators[i].frame] ELSE line]

\* handle_groups_updated: an indicator follows its id, whatever space it was on, and
\* nothing is drawn while the signatures stay the same, which are stored before the lines
\* are drawn and do not tell of the settings.
HandleGroupsUpdated(display, space, picture, refused) ==
  LET known == space \in DOMAIN display.sigs /\ display.sigs[space] = picture.groups
      ids == {g.id : g \in picture.groups}
      gone == {i \in DOMAIN display.indicators : display.indicators[i].space = space} \ ids
      next == IF known THEN display.indicators
              ELSE With(Without(display.indicators, gone),
                        Drawn(display, space, picture.groups, refused))
  IN [indicators |-> [i \in DOMAIN next |-> IF next[i].space = space
                                            THEN [next[i] EXCEPT !.visible = ~picture.full]
                                            ELSE next[i]],
      sigs |-> With(display.sigs, [s \in {space} |-> picture.groups]),
      owed |-> IF known THEN display.owed
               ELSE {p \in display.owed : p[1] # space} \union {p \in refused : p[1] = space},
      aged |-> IF known THEN display.aged ELSE display.aged \ {space}]

Nothing == [indicators |-> <<>>, sigs |-> <<>>, owed |-> {}, aged |-> {}]

\* handle_snapshot_updated, display by display; it does not ask whether the lines are
\* enabled.
HandleSnapshotUpdated(snapshot, refused) ==
  LET active == DOMAIN snapshot
      after[i \in 0..Len(Order)] ==
        IF i = 0 THEN Kept(Display, active)
        ELSE IF Order[i] \in active
        THEN HandleGroupsUpdated(after[i - 1], Order[i], snapshot[Order[i]], refused)
        ELSE after[i - 1]
  IN IF active = {} THEN Nothing ELSE after[Len(Order)]

\* Mutant of Cleared: the signatures outlive the indicators.
FaultyCleared(display) == [display EXCEPT !.indicators = <<>>]

Cleared(display) == Nothing

\* handle_config_updated: an enabled line is drawn again, and with that visible, in the
\* frame that it has.
HandleConfigUpdated(new) ==
  LET display == [Display EXCEPT !.aged = IF new.size = size THEN @ ELSE DOMAIN sigs]
  IN IF on /\ ~new.enabled THEN Cleared(display)
     ELSE IF new.enabled
     THEN [display EXCEPT !.indicators = [i \in DOMAIN @ |-> [@[i] EXCEPT !.visible = TRUE]]]
     ELSE display

\* sync_shared_hit_rects
HitRects(enabled, inds) ==
  IF enabled THEN {inds[i].frame : i \in {j \in DOMAIN inds : inds[j].visible}} ELSE {}

\* check_click: the windows that a click on a segment of the lines at a place may name.
Under(place, segment) ==
  {indicators[i].windows[segment] :
     i \in {j \in DOMAIN indicators : /\ indicators[j].visible /\ indicators[j].frame.place = place
                                      /\ segment \in DOMAIN indicators[j].windows}}

\* handle_mouse_down and handle_indicator_clicked, which send FocusWindow.
HandleMouseDown(e) ==
  LET named == IF on THEN Under(e.place, e.segment) ELSE {}
  IN lost' = (lost \/ (~e.news /\ named # e.seen))

Shows(display) ==
  /\ indicators' = display.indicators /\ sigs' = display.sigs
  /\ owed' = display.owed /\ aged' = display.aged

\* The groups of a snapshot, for any of which the window server may refuse the frame.
Groups(snapshot) == UNION {{<<s, g.id>> : g \in snapshot[s].groups} : s \in DOMAIN snapshot}

\* handle_event
HandleEvent ==
  /\ letters # <<>> /\ letters' = Tail(letters)
  /\ LET e == Head(letters)
     IN CASE e.kind = "SnapshotUpdated" ->
               /\ \E refused \in SUBSET Groups(e.shown) :
                    /\ refused # {} => happenings < MaxNews
                    /\ happenings' = IF refused = {} THEN happenings ELSE happenings + 1
                    /\ Shows(HandleSnapshotUpdated(e.shown, refused))
               /\ rects' = HitRects(on, indicators')
               /\ collided' = (collided \/
                    \E s, t \in DOMAIN e.shown : s # t /\
                      {g.id : g \in e.shown[s].groups} \intersect {g.id : g \in e.shown[t].groups} # {})
               /\ UNCHANGED <<on, size, lost>>
          [] e.kind = "ConfigUpdated" ->
               /\ Shows(HandleConfigUpdated(e.setting))
               /\ on' = e.setting.enabled /\ size' = e.setting.size
               /\ rects' = HitRects(on', indicators')
               /\ UNCHANGED <<happenings, collided, lost>>
          [] e.kind = "MouseDown" -> HandleMouseDown(e) /\ UNCHANGED <<happenings, screen, collided>>
  /\ UNCHANGED <<shown, setting, due, clicks>>
-----------------------------------------------------------------------------
(* The reactor and the event tap. *)

\* Displays come and go, workspaces are switched, windows stacked and selected.
Change ==
  /\ happenings < MaxNews /\ happenings' = happenings + 1
  /\ \E active \in SUBSET Range(Order) : \E next \in [active -> UNION {Sights[s] : s \in active}] :
       (\A s \in active : next[s] \in Sights[s]) /\ next # shown /\ shown' = next
  /\ due' = TRUE
  /\ UNCHANGED <<setting, letters, screen, clicks, collided, lost>>

Configure ==
  /\ happenings < MaxNews /\ happenings' = happenings + 1
  /\ setting' \in [enabled : BOOLEAN, size : Sizes] \ {setting} /\ due' = TRUE
  /\ letters' = Append(letters, [kind |-> "ConfigUpdated", setting |-> setting'])
  /\ UNCHANGED <<shown, screen, clicks, collided, lost>>

\* publish_core_snapshot
Publish ==
  /\ due /\ due' = FALSE
  /\ letters' = Append(letters, [kind |-> "SnapshotUpdated", shown |-> shown])
  /\ UNCHANGED <<shown, setting, screen, happenings, clicks, collided, lost>>

\* The event tap reads the rectangles from another thread; it keeps the click to itself.
MouseDown(place, segment) ==
  /\ clicks < MaxClicks /\ clicks' = clicks + 1
  /\ \E rect \in rects : rect.place = place
  /\ letters' = Append(letters,
       [kind |-> "MouseDown", place |-> place, segment |-> segment, seen |-> Under(place, segment),
        news |-> \E i \in DOMAIN letters : letters[i].kind # "MouseDown"])
  /\ UNCHANGED <<shown, setting, due, screen, happenings, collided, lost>>
-----------------------------------------------------------------------------
Init ==
  /\ shown = <<>> /\ due = TRUE /\ letters = <<>>
  /\ setting \in [enabled : BOOLEAN, size : Sizes]
  /\ on = setting.enabled /\ size = setting.size
  /\ indicators = <<>> /\ sigs = <<>> /\ rects = {} /\ owed = {} /\ aged = {}
  /\ happenings = 0 /\ clicks = 0 /\ collided = FALSE /\ lost = FALSE

Next ==
  \/ Change \/ Configure \/ Publish \/ HandleEvent
  \/ \E rect \in rects, segment \in 1..2 : MouseDown(rect.place, segment)

Spec == Init /\ [][Next]_vars
-----------------------------------------------------------------------------
AtRest == ~due /\ letters = <<>>

Bare == {s \in DOMAIN shown : ~shown[s].full}
Visible == {i \in DOMAIN indicators : indicators[i].visible}

\* The indicator shows the group of a space; it is in its place, and of the size that is
\* set, unless it was refused its frame or the size changed since.
Shown(i, s, g) ==
  /\ i = g.id /\ indicators[i].space = s
  /\ indicators[i].windows = g.windows /\ indicators[i].selected = g.selected
  /\ <<s, i>> \notin owed =>
       /\ indicators[i].frame.place = g.place
       /\ s \notin aged => indicators[i].frame.size = setting.size

\* When everything was published and the lines are enabled, there is a line for every
\* stacked group that is on a screen, and no other, with the windows of the group and the
\* selected one; and clicks are taken there and nowhere else; whatever came in which order,
\* unless groups of two displays had the same id.  Only of a group for which the window
\* server refused the frame the last time it was drawn the line may be missing or somewhere
\* else, and only on a display of which the groups have not changed since the size was set
\* it may have another size.
LinesAreShown ==
  AtRest /\ setting.enabled /\ ~collided =>
    /\ \A i \in Visible : \E s \in Bare : \E g \in shown[s].groups : Shown(i, s, g)
    /\ \A s \in Bare : \A g \in shown[s].groups :
         <<s, g.id>> \in owed \/ (g.id \in Visible /\ Shown(g.id, s, g))
    /\ rects = {indicators[i].frame : i \in Visible}

\* A click that was taken while nothing new was on its way leads to the window under it.
ClicksArrive == ~lost

EveryGroupIsThere ==
  AtRest /\ setting.enabled => \A s \in Bare : \A g \in shown[s].groups :
                                    g.id \in Visible /\ indicators[g.id].space = s

\* What does not hold: the exception for groups of two displays with the same id.
EveryGroupHasItsLine == owed = {} => EveryGroupIsThere

\* What does not hold: a line that was refused is tried again with the next snapshot.
RefusedIsTriedAgain == ~collided => EveryGroupIsThere

\* What does not hold: a line has the thickness and the spacing that are set.
SettingsAreDrawn ==
  AtRest /\ setting.enabled /\ owed = {} => \A i \in Visible : indicators[i].frame.size = setting.size

\* What does not hold: without being enabled, a line is drawn with the next snapshot.
DisabledShowsNothing == AtRest /\ ~setting.enabled => Visible = {}
=============================================================================
