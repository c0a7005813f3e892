----------------------------- MODULE CoreState -----------------------------
(***************************************************************************)
(* The domain state of the window manager (src/src/core/state.rs) and its  *)
(* transitions (src/src/core/state/reducer.rs), one action per observation *)
(* and per command.                                                        *)
(*                                                                         *)
(* transition() applies an input to a clone of the state, validates the    *)
(* clone and only then replaces the state: an input that fails anywhere    *)
(* leaves no trace.  So an action is the guard under which its input is    *)
(* accepted, ending in Commit, and a rejected input is a stuttering step.  *)
(*                                                                         *)
(* Frames are abstracted: a choice the code makes by geometry (the window  *)
(* or the display in some direction, the drag target) is any member of the *)
(* set it chooses from.  A command without a window acts on the focused    *)
(* one; the actions take any window, which includes it.  Commands that     *)
(* only rearrange a BSP tree (swap, join, resize...), send effects (close, *)
(* save) or set the Mission Control phase change none of these variables.  *)
(***************************************************************************)
EXTENDS WorkspaceCatalog

CONSTANTS
  Topologies,       \* the display topologies that are observed, for model checking
  RuleDecisions,    \* what the rules may decide for a window, for model checking
  MaxPersistedId    \* bound on the ids of the restored layout, for model checking

\* RuleDecision: Unmanaged, or Managed with its target workspace.  `matched` is
\* rule_index.is_some(); a name is the slot it is made from, None "Hidden Workspace".
Decisions ==
  [ managed : BOOLEAN, matched : BOOLEAN,
    target : {"number", "name", "current"}, slot : Opt(Slots),
    floating : BOOLEAN, placed : BOOLEAN ]

\* `displays` are online, queue[d] is the place of d counted from the back of the
\* reported order, and `receiver` is the first of display_migration_priority that is
\* online, or else the first of the order.
DisplayTopologies ==
  {t \in [displays : SUBSET Displays, queue : [Displays -> Nat], receiver : Opt(Displays)] :
     /\ \A d, e \in t.displays : t.queue[d] = t.queue[e] => d = e
     /\ IF t.displays = {} THEN t.receiver = None ELSE t.receiver \in t.displays}

ASSUME InputsAssumption ==
  /\ \A t \in Topologies : t \in DisplayTopologies
  /\ RuleDecisions \subseteq {r \in Decisions :
        /\ r.target = "number" => r.slot \in Slots
        /\ ~r.matched => r.managed /\ r.target = "current" /\ ~r.floating /\ ~r.placed}
  /\ MaxPersistedId \in 0..MaxWorkspaceId

VARIABLES
  catalog,       \* workspaces
  online,        \* keys of platform.displays
  present,       \* keys of platform.windows
  seenOn,        \* the display each window was last observed on
  managed,       \* platform.managed
  focused,       \* focus.focused_window
  lastTiled,     \* focus.last_tiled_by_workspace
  lastFloating,  \* focus.last_floating_by_workspace
  drag           \* interactions.drag, without its frame

platform == <<online, present, seenOn>>
focus == <<focused, lastTiled, lastFloating>>
vars == <<catalog, platform, managed, focus, drag>>

NoDrag == [window |-> None, target |-> None]

TypeOK ==
  /\ IsCatalog(catalog)
  /\ online \subseteq Displays
  /\ present \subseteq Windows
  /\ seenOn \in [Windows -> Opt(Displays)]
  /\ managed \subseteq Windows
  /\ focused \in Opt(Windows)
  /\ lastTiled \in [WorkspaceIds -> Opt(Windows)]
  /\ lastFloating \in [WorkspaceIds -> Opt(Windows)]
  /\ drag \in [window : Opt(Windows), target : Opt(Windows)]

\* CoreState::new is the case without a persisted workspace.
Init ==
  /\ \E saved \in SUBSET (1..MaxPersistedId) :
       \E owner \in [saved -> Displays], number \in Injection(saved, Slots) :
         catalog = FromPersisted(saved, owner, number)
  /\ online = {}
  /\ present = {}
  /\ seenOn = [w \in Windows |-> None]
  /\ managed = {}
  /\ focused = None
  /\ lastTiled = [id \in WorkspaceIds |-> None]
  /\ lastFloating = [id \in WorkspaceIds |-> None]
  /\ drag = NoDrag

-----------------------------------------------------------------------------
(* Commit and focus history *)

\* CoreState::validate, over the candidate state.
Valid(c, m, p) ==
  /\ Validate(c)
  /\ \A w \in m : w \in p /\ c.assignment[w] # None
  /\ \A w \in Windows, id \in WorkspaceIds : w \in c.tiled[id] \cup c.floating[id] => w \in m

Commit(c) == Valid(c, managed, present) /\ catalog' = c

\* note_focus: the window becomes the latest of its layer of its workspace.
NoteFocus(c, w, tiled, floating) ==
  LET id == c.assignment[w]
  IN  /\ id # None
      /\ IF IsFloating(c, w)
         THEN lastFloating' = [floating EXCEPT ![id] = w] /\ lastTiled' = tiled
         ELSE lastTiled' = [tiled EXCEPT ![id] = w] /\ lastFloating' = floating

FocusWindow(w) ==
  /\ focused' = w
  /\ NoteFocus(catalog, w, lastTiled, lastFloating)
  /\ Commit(catalog)
  /\ UNCHANGED <<platform, managed, drag>>

CommitOnly(c) ==
  /\ Commit(c)
  /\ UNCHANGED <<platform, managed, focus, drag>>

-----------------------------------------------------------------------------
(* Window rules: reconcile_window_assignments visits the windows of p in    *)
(* order.  `on` is where each was seen and `rule` what the rules decide.    *)

Admitted(p, rule) == {w \in p : rule[w].managed}
Newcomers(c, p, rule) == {w \in Admitted(p, rule) : c.assignment[w] = None}

\* The free slots that newcomers ask for, the first to ask for each, and the
\* workspaces created once the newcomers of V have asked.
FaultyWanting(c, p, rule, n) ==   \* whether the number exists is not looked at
  {w \in Newcomers(c, p, rule) : rule[w].target = "number" /\ rule[w].slot = n}
Wanting(c, p, rule, n) ==
  {w \in Newcomers(c, p, rule) :
     rule[w].target = "number" /\ rule[w].slot = n /\ c.byNumber[n] = None}
WantedSlots(c, p, rule) == {n \in Slots : Wanting(c, p, rule, n) # {}}
FirstToWant(c, p, rule) ==
  [n \in WantedSlots(c, p, rule) |->
     CHOOSE w \in Wanting(c, p, rule, n) : \A v \in Wanting(c, p, rule, n) : w <= v]

CreateWanted(c, p, on, rule, V) ==
  LET first == FirstToWant(c, p, rule)
      wanted == WantedSlots(c, p, rule)
      made == {n \in wanted : first[n] \in V}
      id(n) == c.nextId + Rank(wanted, first, n)
      madeOn(d) == {n \in made : on[first[n]] = d}
      oldest(S) == CHOOSE n \in S : \A m \in S : first[n] <= first[m]
      forId(i) == {n \in made : id(n) = i}
      the(S) == CHOOSE n \in S : TRUE
  IN  IF made = {} THEN c
      ELSE [c EXCEPT
        !.nextId = @ + Cardinality(made),
        !.display = [i \in WorkspaceIds |->
           IF forId(i) = {} THEN c.display[i] ELSE on[first[the(forId(i))]]],
        !.number = [i \in WorkspaceIds |->
           IF forId(i) = {} THEN c.number[i] ELSE the(forId(i))],
        !.byNumber = [n \in Slots |-> IF n \in made THEN id(n) ELSE c.byNumber[n]],
        !.known = @ \cup {d \in Displays : madeOn(d) # {}},
        !.active = [d \in Displays |->
           IF c.active[d] = None /\ madeOn(d) # {} THEN id(oldest(madeOn(d))) ELSE c.active[d]]]

\* Where a newcomer goes; `c` is the catalog at its turn.
RuleTarget(c, d, r) ==
  LET named == {id \in OnDisplay(c, d) : c.number[id] = r.slot}
  IN  CASE r.target = "number" -> c.byNumber[r.slot]
        [] r.target = "name" /\ named # {} -> CHOOSE id \in named : TRUE
        [] OTHER -> c.active[d]

\* The rules decide again for windows that have a workspace.
FaultyDestination(c, p, on, rule) ==
  [w \in Admitted(p, rule) |->
     IF c.assignment[w] # None /\ (rule[w].target = "current" \/ on[w] = None) THEN c.assignment[w]
     ELSE RuleTarget(CreateWanted(c, p, on, rule, {v \in Windows : v <= w}), on[w], rule[w])]

Destination(c, p, on, rule) ==
  [w \in Admitted(p, rule) |->
     IF c.assignment[w] # None THEN c.assignment[w]
     ELSE RuleTarget(CreateWanted(c, p, on, rule, {v \in Windows : v <= w}), on[w], rule[w])]

\* A rule that matches decides the layer, every time; otherwise it is kept.
FloatingAfter(c, p, rule) ==
  {w \in Admitted(p, rule) :
     IF rule[w].matched THEN rule[w].floating ELSE IsFloating(c, w)}

CanReconcileWindows(c, p, on, rule, displays) ==
  /\ c.nextId + Cardinality(WantedSlots(c, p, rule)) <= MaxWorkspaceId
  /\ \A w \in Newcomers(c, p, rule) :
       LET id == Destination(c, p, on, rule)[w]
           made == CreateWanted(c, p, on, rule, Windows)
       IN  /\ on[w] # None
           /\ id # None
           /\ rule[w].floating /\ rule[w].placed => made.display[id] \in displays

ReconcileWindows(c, p, on, rule) ==
  LET float == FloatingAfter(c, p, rule)
      keptFrame == {w \in float : c.assignment[w] # None /\ w \in c.positions[c.assignment[w]]}
      placed == {w \in float \cap Newcomers(c, p, rule) : rule[w].placed}
      ignored == p \ Admitted(p, rule)
  IN  Place(RemoveWindows(CreateWanted(c, p, on, rule, Windows), ignored),
            Admitted(p, rule), Destination(c, p, on, rule), float, keptFrame \cup placed)

-----------------------------------------------------------------------------
(* Observations *)

DisplayTopology(t) ==
  /\ CanReconcile(catalog, t.displays, t.receiver, t.queue)
  /\ Commit(Reconcile(catalog, t.displays, t.receiver, t.queue))
  /\ online' = t.displays
  /\ UNCHANGED <<present, seenOn, managed, focus, drag>>

\* note_focus entries of windows that are gone are dropped, and so is a drag with a
\* window outside m.
FaultyForget(history, gone) == history
Forget(history, gone) ==
  [id \in WorkspaceIds |-> IF history[id] \in gone THEN None ELSE history[id]]
DragAmong(m) == IF {drag.window, drag.target} \subseteq Opt(m) THEN drag ELSE NoDrag

\* The windows p of a complete observation, once its displays are settled: where
\* each was seen, what the rules decide for it, which floating ones are well inside
\* their display, and the focused one, which has to be managed.
SnapshotWindows(t, settled, p, on, rule, inside) ==
  LET gone == present \ p
      kept == RemoveWindows(settled, gone)
      assigned == ReconcileWindows(kept, p, on, rule)
      shown == {w \in p : assigned.assignment[w] # None
                          /\ assigned.display[assigned.assignment[w]] \in t.displays}
      framed == RecordActiveFloatingPositions(assigned, inside \cap shown)
  IN  /\ CanReconcileWindows(kept, p, on, rule, t.displays)
      /\ managed' = (managed \ (present \cup p)) \cup Admitted(p, rule)
      /\ Valid(framed, managed', p)
      /\ catalog' = framed
      /\ online' = t.displays
      /\ present' = p
      /\ seenOn' = [w \in Windows |-> IF w \in p THEN on[w] ELSE None]
      /\ drag' = DragAmong(managed')
      /\ \/ /\ focused' = None
            /\ lastTiled' = Forget(lastTiled, gone)
            /\ lastFloating' = Forget(lastFloating, gone)
         \/ \E w \in p :
              /\ focused' = w
              /\ NoteFocus(framed, w, Forget(lastTiled, gone), Forget(lastFloating, gone))

\* Only a window that floated before may have its frame recorded.
PlatformSnapshot(t) ==
  /\ CanReconcile(catalog, t.displays, t.receiver, t.queue)
  /\ LET settled == Reconcile(catalog, t.displays, t.receiver, t.queue)
     IN  \E p \in IF t.displays = {} THEN {{}} ELSE SUBSET Windows :
         \E on \in [p -> Opt(t.displays)], rule \in [p -> RuleDecisions],
            inside \in SUBSET {w \in p \cap present : IsFloating(catalog, w)} :
           SnapshotWindows(t, settled, p, on, rule, inside)

FocusChanged(w) ==
  \/ w \in managed /\ FocusWindow(w)
  \/ /\ w = None
     /\ focused' = None
     /\ Commit(catalog)
     /\ UNCHANGED <<platform, managed, lastTiled, lastFloating, drag>>

\* New rules are applied to the windows as they were last observed.
ConfigReloaded(rule) ==
  /\ CanReconcileWindows(catalog, present, seenOn, rule, online)
  /\ managed' = (managed \ present) \cup Admitted(present, rule)
  /\ catalog' = ReconcileWindows(catalog, present, seenOn, rule)
  /\ Valid(catalog', managed', present)
  /\ UNCHANGED <<platform, focus, drag>>

\* Another tiled window of the workspace becomes the target, or none; with an
\* empty frame the drag of the same window keeps the target it has.
DragUpdated(w, target) ==
  LET id == catalog.assignment[w]
  IN  /\ id # None
      /\ ~IsFloating(catalog, w)
      /\ \/ target \in Opt(catalog.tiled[id] \ {w})
         \/ drag.window = w /\ target = drag.target
      /\ drag' = [window |-> w, target |-> target]
      /\ Commit(catalog)
      /\ UNCHANGED <<platform, managed, focus>>

\* The swap happens in the BSP tree, which must hold both windows.
CanSwap(v, w) ==
  \E id \in WorkspaceIds : {v, w} \subseteq catalog.tiled[id]

DragCommitted(w) ==
  /\ drag.window = w /\ drag.target # None => CanSwap(w, drag.target)
  /\ drag' = NoDrag
  /\ Commit(catalog)
  /\ UNCHANGED <<platform, managed, focus>>

DragCancelled ==
  /\ drag' = NoDrag
  /\ Commit(catalog)
  /\ UNCHANGED <<platform, managed, focus>>

-----------------------------------------------------------------------------
(* Commands on workspaces *)

\* activate_workspace: the workspace that was shown may go away.
Switch(c, d, id) ==
  LET previous == c.active[d]
      shown == Activate(c, d, id)
  IN  IF previous = id THEN c
      ELSE IF previous = None THEN shown
      ELSE DestroyIfEphemeral(shown, previous)

CanSwitch(c, d, id) == c.active[d] # id => CanActivate(c, d, id)

SwitchTo(c, d, id) == CanSwitch(c, d, id) /\ CommitOnly(Switch(c, d, id))

WorkspaceActivate(n) ==
  LET id == catalog.byNumber[n]
  IN  /\ id # None
      /\ SwitchTo(catalog, catalog.display[id], id)

WorkspaceActivateOrCreate(n, d) ==
  LET id == catalog.byNumber[n]
      created == Create(catalog, n, d)
  IN  /\ d \in online
      /\ IF id # None THEN SwitchTo(catalog, catalog.display[id], id)
         ELSE CanCreate(catalog, n) /\ SwitchTo(created, d, created.byNumber[n])

WorkspaceCreate(d) ==
  /\ d \in online
  /\ FreeSlots(catalog) # {}
  /\ CanCreate(catalog, NextFreeSlot(catalog))
  /\ CommitOnly(Create(catalog, NextFreeSlot(catalog), d))

WorkspaceStep(d, forward, skipEmpty) ==
  LET current == catalog.active[d]
      id == StepTarget(catalog, d, current, forward, skipEmpty)
  IN  /\ d \in online
      /\ current # None
      /\ id # None
      /\ SwitchTo(catalog, d, id)

WorkspaceLast(d) ==
  /\ d \in online
  /\ catalog.last[d] # None
  /\ SwitchTo(catalog, d, catalog.last[d])

WorkspaceToggleHidden(d) ==
  /\ d \in online
  /\ CanToggleHidden(catalog, d)
  /\ CommitOnly(ToggleHidden(catalog, d))

\* A window moves to `id`; the workspace it leaves may go away.
Relocate(c, w, id) == DestroyIfEphemeral(MoveWindow(c, w, id), c.assignment[w])

WorkspaceMoveWindow(n, w) ==
  LET source == catalog.assignment[w]
      created == Create(catalog, n, catalog.display[source])
  IN  /\ source # None
      /\ catalog.display[source] # None
      /\ IF catalog.byNumber[n] # None
         THEN CommitOnly(Relocate(catalog, w, catalog.byNumber[n]))
         ELSE /\ CanCreate(catalog, n)
              /\ CommitOnly(Relocate(created, w, created.byNumber[n]))

WorkspaceMoveWindowToHidden(d, w) ==
  LET h == EnsureHidden(catalog, d)
  IN  /\ d \in online
      /\ catalog.assignment[w] # None
      /\ CanHide(catalog, d)
      /\ CommitOnly(Relocate(h, w, h.hidden[d]))

DisplayMoveWindowTo(d, w) ==
  /\ d \in online
  /\ w \in managed
  /\ catalog.assignment[w] # None
  /\ catalog.active[d] # None
  /\ CommitOnly(Relocate(catalog, w, catalog.active[d]))

-----------------------------------------------------------------------------
(* Commands on windows *)

Layer(c, w) ==
  LET id == c.assignment[w]
  IN  IF IsFloating(c, w) THEN c.floating[id] ELSE c.tiled[id]

WindowActivate(w) == w \in managed /\ FocusWindow(w)

\* The neighbour in the window's layer, or else the first window, tiled ones first,
\* of the workspace that the display on that side shows.
WindowFocus(w, target) ==
  /\ w \in managed
  /\ \/ target \in Layer(catalog, w) \ {w}
     \/ \E d \in online \ {catalog.display[catalog.assignment[w]]} :
          LET id == catalog.active[d]
          IN  /\ id # None
              /\ IF catalog.tiled[id] # {} THEN target \in catalog.tiled[id]
                 ELSE target \in catalog.floating[id] /\ \A v \in catalog.floating[id] : target <= v
  /\ FocusWindow(target)

\* Next and Previous stay in the layer; a lone window follows itself.
WindowCycle(w, target) ==
  /\ w \in managed
  /\ target \in Layer(catalog, w)
  /\ FocusWindow(target)

\* To the latest window of the other layer if it is still there, or else its first.
WindowToggleFocusLayer(w, target) ==
  LET id == catalog.assignment[w]
      recalled == IF IsFloating(catalog, w) THEN lastTiled[id] ELSE lastFloating[id]
      other == IF IsFloating(catalog, w) THEN catalog.tiled[id] ELSE catalog.floating[id]
  IN  /\ w \in managed
      /\ target \in other
      /\ recalled \in other => target = recalled
      /\ recalled \notin other /\ ~IsFloating(catalog, w) => \A v \in other : target <= v
      /\ FocusWindow(target)

WindowToggleFloating(w, placed) ==
  LET id == catalog.assignment[w]
      floated == AssignFloating(catalog, id, w)
  IN  /\ w \in managed
      /\ id # None
      /\ IF IsFloating(catalog, w) THEN CommitOnly(AssignTiled(catalog, id, w))
         ELSE IF placed
         THEN catalog.display[id] \in online /\ CommitOnly(SetFloatingPosition(floated, id, w))
         ELSE CommitOnly(floated)

\* Move with no neighbour in that direction: a tiled window crosses to the display there.
WindowMoveAcross(w, d) ==
  /\ w \in managed
  /\ ~IsFloating(catalog, w)
  /\ d # catalog.display[catalog.assignment[w]]
  /\ DisplayMoveWindowTo(d, w)

-----------------------------------------------------------------------------
Observation ==
  \/ \E t \in Topologies : DisplayTopology(t)
  \/ \E t \in Topologies : PlatformSnapshot(t)
  \/ \E w \in Opt(Windows) : FocusChanged(w)
  \/ \E rule \in [present -> RuleDecisions] : ConfigReloaded(rule)
  \/ \E w \in Windows, target \in Opt(Windows) : DragUpdated(w, target)
  \/ \E w \in Windows : DragCommitted(w)
  \/ DragCancelled

WorkspaceCommand ==
  \/ \E n \in Slots : WorkspaceActivate(n)
  \/ \E n \in Slots, d \in Displays : WorkspaceActivateOrCreate(n, d)
  \/ \E d \in Displays : WorkspaceCreate(d)
  \/ \E d \in Displays, forward, skipEmpty \in BOOLEAN : WorkspaceStep(d, forward, skipEmpty)
  \/ \E d \in Displays : WorkspaceLast(d)
  \/ \E d \in Displays : WorkspaceToggleHidden(d)
  \/ \E n \in Slots, w \in Windows : WorkspaceMoveWindow(n, w)
  \/ \E d \in Displays, w \in Windows : WorkspaceMoveWindowToHidden(d, w)
  \/ \E d \in Displays, w \in Windows : DisplayMoveWindowTo(d, w)

WindowCommand ==
  \/ \E w \in Windows : WindowActivate(w)
  \/ \E w, target \in Windows : WindowFocus(w, target)
  \/ \E w, target \in Windows : WindowCycle(w, target)
  \/ \E w, target \in Windows : WindowToggleFocusLayer(w, target)
  \/ \E w \in Windows, placed \in BOOLEAN : WindowToggleFloating(w, placed)
  \/ \E w \in Windows, d \in Displays : WindowMoveAcross(w, d)

Next == Observation \/ WorkspaceCommand \/ WindowCommand

Spec == Init /\ [][Next]_vars

-----------------------------------------------------------------------------
(* Invariants *)

\* A display that owns a workspace owns a numbered one: the hidden workspace is
\* never all that is left.  reconcile_displays and toggle_hidden rely on it, the
\* first with an expect() ("each online display was assigned a workspace").
OwnersKeepANumber == KeepsANumber(catalog)

\* Every online display shows a workspace of its own, whatever sequence of
\* topologies, moves and switches came before.
OnlineDisplaysShowTheirOwn ==
  \A d \in online : catalog.active[d] \in OnDisplay(catalog, d)

\* The number index and the hidden index name live workspaces, each its own:
\* validate() only counts the entries and follows them from the workspaces.
IndexExact == Indexed(catalog)

\* A display remembers where to return exactly while it shows its hidden
\* workspace, through migrations of hidden workspaces and windows included.
ReturnsOnlyFromHidden ==
  \A d \in online : (catalog.hiddenReturn[d] # None) = ShowsHidden(catalog, d)

\* A frame is remembered only for a window that floats in that workspace: a
\* snapshot lays out every remembered frame, so a stale one would place a window
\* that left, or that is tiled.
FramesOfFloatingOnly ==
  \A id \in WorkspaceIds : catalog.positions[id] \subseteq catalog.floating[id]

\* Focus and its history never name a window that is gone from the platform: a later
\* focus command would raise a dead window.
FocusNamesPresentWindows ==
  /\ focused \in Opt(present)
  /\ \A id \in WorkspaceIds : {lastTiled[id], lastFloating[id]} \subseteq Opt(present)

\* Nor does a drag, which ends when an observation takes one of its windows away.
DragNamesPresentWindows == {drag.window, drag.target} \subseteq Opt(present)
NamesPresentWindows == FocusNamesPresentWindows /\ DragNamesPresentWindows

\* An observation that its own guards accept is never refused by validate(): the
\* displays that came and went are taken in, and so are the windows observed on the
\* displays that are online, whatever the rules decide for them.
TopologiesAreValid ==
  \A t \in Topologies :
    CanReconcile(catalog, t.displays, t.receiver, t.queue) =>
      Validate(Reconcile(catalog, t.displays, t.receiver, t.queue))

WindowsAreValid ==
  \A p \in SUBSET Windows : \A on \in [p -> Opt(online)], rule \in [p -> RuleDecisions] :
    LET kept == RemoveWindows(catalog, present \ p)
    IN  CanReconcileWindows(kept, p, on, rule, online) =>
          Valid(ReconcileWindows(kept, p, on, rule),
                (managed \ (present \cup p)) \cup Admitted(p, rule), p)

\* The candidates of a window's moves, and those that validate() rejects.
Moves ==
  LET assigned == {w \in Windows : catalog.assignment[w] # None}
      hid(d) == EnsureHidden(catalog, d)
  IN  {Relocate(catalog, w, id) : w \in assigned, id \in Live(catalog)}
        \cup {Relocate(hid(d), w, hid(d).hidden[d]) :
                 w \in assigned, d \in {e \in online : CanHide(catalog, e)}}
Toggles == {ToggleHidden(catalog, d) : d \in {e \in online : CanToggleHidden(catalog, e)}}
Switches == {Switch(catalog, catalog.display[id], id) :
               id \in {i \in Live(catalog) : catalog.number[i] # None}}

\* A topology, a switch or a toggle is never refused by validate(), and a move only when
\* the workspace it empties is the one a display returns to from its hidden workspace.
RefusedOnlyForLostReturn ==
  /\ TopologiesAreValid
  /\ \A c \in Toggles \cup Switches : Validate(c)
  /\ \A c \in Moves : Validate(c) \/
       \E d \in Displays : c.hiddenReturn[d] # None /\ c.display[c.hiddenReturn[d]] = None

-----------------------------------------------------------------------------
(* What a step may never do *)

\* A workspace id stands for one workspace forever: a destroyed id never comes
\* back, and a live one never changes its number.
IdsAreStable ==
  [][\A id \in 1..catalog.nextId :
        IF id \in Live(catalog)
        THEN id \in Live(catalog') => catalog'.number[id] = catalog.number[id]
        ELSE id \notin Live(catalog')]_vars

\* "An existing assignment is authoritative so a later platform observation cannot
\* undo an explicit move": only the merge of two hidden workspaces takes a window
\* elsewhere in a step that observes the platform.
ObservationsMoveNoWindow ==
  [][platform' # platform =>
       \A w \in Windows :
         LET old == catalog.assignment[w]
             new == catalog'.assignment[w]
         IN  old # None /\ new # None /\ old # new =>
               /\ old \notin Live(catalog')
               /\ catalog.number[old] = None
               /\ catalog'.number[new] = None]_vars

\* Displays coming and going, with the windows as they were, drop no window and
\* change neither its layer nor its remembered frame.
Membership(c) ==
  [w \in Windows |->
     IF c.assignment[w] = None THEN "none"
     ELSE IF w \in c.positions[c.assignment[w]] THEN "framed"
     ELSE IF IsFloating(c, w) THEN "floating" ELSE "tiled"]
TopologyKeepsWindows ==
  [][online' # online /\ Membership(catalog') # Membership(catalog) =>
       \A t \in Topologies : ~DisplayTopology(t)]_vars

\* A display that stays online keeps showing what it shows when displays come and
\* go, and otherwise one display at most shows something else.
OthersKeepShowing ==
  [][\A d \in online \cap online' :
       catalog'.active[d] # catalog.active[d] =>
         /\ online' = online
         /\ \A e \in online \ {d} : catalog'.active[e] = catalog.active[e]]_vars

\* Both: displays that come and go change nothing but what they must.
TopologyIsLocal == TopologyKeepsWindows /\ OthersKeepShowing

-----------------------------------------------------------------------------
(* What the documentation says and the code does not do *)

\* README.md: moving a window to a workspace; no assigned window is refused it.
MovesAreAccepted == \A c \in Moves : Validate(c)

=============================================================================
