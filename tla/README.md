# Verification of Lift

TLA+ models of [Lift](../src/README.md), a tiling window manager for macOS, with
the TLC runs that check them on small instances and TLAPS proofs for instances of
any size. Paths below are relative to the repository (`src/` is its root here, so
the Rust sources are in `src/src/`). `PROJECT.json` lists every definition with
the lines it models, every run, every mutant, the hazards and the theorems.

    cd tla
    tlc -workers 2 -config CoreTopology.cfg MCCoreState.tla   # a run: cfg and its MC module
    tlapm CoreStateProofs.tla                             # the proofs

## 1. The system

Lift has a pure **core** (`src/src/core/`) that owns the domain state, and a
**runtime** (`actor/`, `runtime/`, `sys/`) that turns what macOS reports into
observations of the core and what the core decides into effects. `architecture.md`
describes the split. The core is sequential: one reactor thread clones the state,
applies one input, validates the clone and replaces the state, or drops the clone.
Concurrency is in the runtime: one thread per observed application, the reactor's
thread with three tasks on one run loop, the event tap, and the system's own queues.

| Component (source) | State | Operations | Interacts with | What is hard | What makes it correct |
|---|---|---|---|---|---|
| workspace catalog (`core/workspace.rs`) | workspaces, display owning each, active/last/hidden/return per display, membership and layer of windows, indexes | create, activate, toggle hidden, move, assign, destroy if empty, reconcile displays | called by the reducer | long sequences of legal calls; several displays leaving at once; indexes kept by hand | displays always have a numbered workspace to show; no window is lost; ids are never reused; indexes exact |
| core state and reducer (`core/state.rs`, `core/state/reducer.rs`) | platform, managed windows, focus and its history, drag | observations (topology, platform snapshot, focus, drag, configuration), commands | reactor (inputs), effects, published snapshots | stale observations against explicit moves; all-or-nothing commits; windows vanishing under focus or drag | accepted inputs validate; observations undo no command; nothing names a dead window |
| BSP tree (`core/bsp.rs`) | binary tree of splits and stacks, fullscreen | insert, remove, join, unjoin, select, swap, reorient, resize, toggle | catalog, layout | parent/child surgery, selected indexes, ratios at their limits | the tree is valid; it is an ordered list of stacks; windows that are not concerned keep their size |
| axis constraints (`core/constraints.rs`) | none | divide a length under fixed, minimum and maximum lengths and weights | layout of the tree | clamping rounds in both directions, infeasible minima | segments fit, bounds and proportions hold |
| window rules (`core/rules.rs`) | rules | decide for a window | reducer | - | a decision is a function of the window |
| drag interaction (`core/interaction.rs`) | dragged window, candidate | update, commit, reset | reducer | windows leaving in a drag | no drag outlives its windows |
| raise manager (`actor/raise_manager.rs`) | active sequence, queue, tokens | raise request, switch started, raise completed, timeout | reactor, application threads, timer | hung applications, late completions, supersession, a global mutex held across an await | windows come up in order, the focus last; stale switches raise nothing; every request ends |
| application actors (`actor/app.rs`) | windows, pending frames, last activation | requests, notifications, raises | reactor, accessibility API | a blocking API per thread, a mutex among all of them | answers carry the transaction they belong to; the mutex is released |
| reactor (`actor/reactor.rs`, `actor/reactor/`, `model/`) | window registry, switch in progress, drag, refocus, quarantine | one handler per event | everything | events out of order, state read before and used after a response | one authoritative focus, no feedback loops |
| window transactions (`model/tx_store.rs`, `actor/reactor/transaction_manager.rs`) | transaction id and target frame per window | next, set, clear | reactor, applications | 32-bit ids that wrap; late frame reports | Lift's own frame changes are never taken for the user's |
| display churn (`sys/display_churn.rs`, `actor/reactor/display_topology.rs`) | churn flags and epoch in four atomics; stable/churning/awaiting | begin, end, commit a snapshot | display callbacks, window handlers, reactor | four atomics written one by one; reconfigurations that overlap | no window event is acted on with displays half changed; the quarantine ends |
| space activation (`model/space_activation.rs`) | spaces and displays turned on and off, the space that was shown first | update with a snapshot, toggle, login window | reactor | spaces are numbered anew, displays change their UUID, news comes in any order | a space the user turned off stays off, whatever it is called now |
| snapshots and persistence (`runtime/`) | published snapshot; saved layout | publish; save, load | queries, start-up | a crash or a failure between the steps of saving, two schemas | readers see whole snapshots; a restart restores what was saved last |
| event tap (`actor/event_tap.rs`, `sys/hotkey.rs`) | keys believed to be down, flags, table of hotkeys, resize mode, hidden cursor, mask | key and mouse callbacks, requests, watchdog | controller, reactor, stack lines | a tap that the system disables or invalidates, lost key-ups | a hotkey fires in the state it was pressed in; a tap that should listen does |
| gestures (`actor/gesture_tap.rs`) | the phase of a swipe and where it began | changes of touches, settings | controller | fingers that come, go and rest, lost events | a swipe switches once per distance |
| window manager controller and notifications (`actor/wm_controller.rs`, `actor/notification_center.rs`, `actor/process.rs`, `sys/app.rs`) | known applications, observers, screens | launches, terminations, commands, display and space notices | reactor, application threads | an application announced before it is ready, found twice, or gone in between | an application has a thread exactly while it is there |
| configuration (`actor/config.rs`, `actor/config_watcher.rs`) | the committed configuration, and a copy with everyone | reload with debounce, commands, save | reactor, controller, taps, stack lines, menu bar | an edit of the file during a command; copies that are passed on only sometimes | everyone has the last configuration, and who changed it was told the truth |
| IPC (`ipc.rs`, `ipc/`, `sys/mach.rs`, `actor/broadcast.rs`) | two maps of subscriptions, a queue of events | query, subscribe, unsubscribe, publish | clients over Mach ports | two maps changed one after the other by two threads; clients that die or do not read | the maps agree; a healthy subscriber gets each event |
| overview (`actor/mission_control.rs`, `ui/mission_control.rs`) | the overlay, its list, its highlight; a cache of pictures with a generation | show, keys, mouse, pick; capture by worker threads | reactor, core, event tap of its own | a pick travels as a position in a list that changes; workers that outlive an overlay | what is picked becomes active; every window gets its picture |
| stack lines and menu bar (`actor/stack_line.rs`, `actor/menu_bar.rs`, `ui/`) | indicators with signatures; the item with its form | snapshots, settings, clicks; updates, debounced | reactor, core, event tap | signatures that decide that nothing changed; a form that depends on its own width | at rest they show what was published last |
| executor and timers (`sys/executor.rs`, `sys/run_loop.rs`, `sys/timer.rs`) | the task and its waker, a source, a timer | wake, poll, fire | every actor | a message or a timer between looking and sleeping | the loop sleeps only when its task has nothing to do |
| effects, geometry, diagnostics, platform bindings, entry point | - | - | - | - | section 7 |

## 2. Modules

An arrow says "extends", `=>` "implements", and a component in parentheses has a
part of its own in the model-checking module named.

    core      WorkspaceCatalog <- CoreState <- MCCoreState <- MCSurroundings
              (proofs: CoreStateProofs, of WorkspaceCatalog and CoreState)
              BspTree => Tiling;  BspTree, AxisSolver (MCTiling)
    windows   RaiseManager <- MCRaiseManager  (proofs: RaiseManagerProofs)
              WindowFrames <- MCWindowFrames
              WindowMoves (MCOverview), AppVisibility, Activation (MCServices)
    displays  DisplayChurn <- MCDisplayChurn <- MCDisplays (WindowTracking)
              (proofs: DisplayChurnProofs, of both)
              SpaceActivation (MCInput)
    services  Ipc <- MCServices (Configuration, Launch, AppVisibility, Activation)
              (proofs: ServicesProofs, of Ipc, Configuration and Launch;
              HidingProofs, of AppVisibility)
    input     InputTap <- MCInput (Gestures, SpaceActivation)
              (proofs: InputTapProofs, of the three)
    pictures  MissionControl <- MCOverview (Previews, WindowMoves)
              (proofs: OverviewProofs)
              StackLine, MenuBar (MCSurroundings)
    runtime   Persistence, RunLoop (MCSurroundings)
              (proofs: SurroundingsProofs)

A model-checking module that has several components puts them side by side: `part`
says which of them a behaviour is about, the others keep an initial state, and
`View` leaves them out of the state. Where components interact, the interaction is in
one module: DisplayChurn has the notification centre, the atomics and the reactor;
WindowFrames the reactor, the animations, the application and the window system;
RaiseManager and Activation the reactor, the manager and the applications.

**The core.** *WorkspaceCatalog* is the aggregate as a record. A `BTreeMap<K, V>` is a
function from `K` to `V` or `None`; a method that may fail is a guard `Can...` and a
value; a tree is the set of its windows; `Validate` is `validate()` index by index.
*CoreState* has one action per observation and command; an action computes the
candidate, and `Commit` is the reducer's validation: a refused input is a stuttering
step. Geometry is abstracted: where the code picks a window or a display by its frame,
the action picks any member of the set it picks from. `RuleDecisions` is what
`rules.rs` may answer, `Topologies` which displays may be reported. *BspTree* has the
tree as nodes in maps, one action per method. *Tiling* is what the tree promises the
rest of the core: an ordered collection of stacks, each with a selected window, and
perhaps a window in fullscreen; `BspTree!KeepsItsPromise` is the refinement, under the
mapping that reads the stacks off the tree in order. *AxisSolver* is
`solve_axis_lengths`, an action per stage and clamping round.

**Windows.** *RaiseManager* composes the manager (`HandleMessage`, `Iterate`: a change
of its fixed-point loop; while one is possible it is `Busy`; `TimerFires`), the
reactor (`HandleLayoutResponse`, `SwitchEnds`, `RaiseOne`, `Relay`) and the
applications (the phases of `handle_raise_request`, from the first look at the token
over the mutex and the wait for an activation to the raise of each window). A send fails
only if the request came without the application's handle; what is sent to an application
that ended is read by nobody, and the manager waits for it until the timeout. Reactor
and manager are tasks of one thread, so the reactor acts only when the manager is not
busy; the applications act at any time, also between two batches. A cancellation token
is a sequence id and the number of its timeouts. *WindowFrames* has four parties: the
reactor, which lays out after every event and believes where windows are; the
animation manager; the application's thread, which applies requests in batches and
reports frames; and the window system, which keeps the frame and posts notices without
it. Reactor and thread share the last transaction of each window. A window that was just
created has a record that looks as if its own frame had been requested (`created`). What the
reactor believes also comes from listings of the application and from the window server. *Activation* is the
news of who became frontmost, twice per activation, with the manager's raises and the
reactor's decision to follow or not. *AppVisibility* is hiding, minimising and listing
of an application's windows. *WindowMoves* has every way a window gets to a workspace,
commands that name it by its index among them (`MoveIndexedWindow`), and the three memories
of the reactor that decide about it later.

**Displays.** *DisplayChurn* has the notification centre with its uncancellable timers,
the four atomics written one by one, the cache of screens, and the reactor's
quarantine. *WindowTracking* has the window server, the application's thread and the
reactor's registry of windows around a quarantine. *SpaceActivation* is the policy with
the news of spaces and screens from two threads. Two notices bring a snapshot: the one of
changed screens is handed to the policy even if no screen shows a space
(`ScreenParametersChanged`), the one of changed spaces only if some screen does
(`SpaceChanged`).

**Services and input.** *Ipc* has the main thread, the bridge, the dispatch worker and
the clients, with the two concurrent maps step by step. *Configuration* follows a change from
the file or a command to the copies that everyone has. *Launch* is the way from a
Carbon event over the observers and the controller to a thread and its entry in the
reactor. *InputTap* is the input thread: callbacks, requests, watchdog and a system that
disables or invalidates the tap; *Gestures* the swipes.

**Pictures.** *MissionControl* is the overlay with its tiles, keys and the way of a pick
through three queues; *Previews* the pictures, taken by a pool of threads;
*StackLine* and *MenuBar* what follows the core on the screen. Both draw only when a
signature changes. That of a group of lines is stored before they are drawn and does not
tell of their size, and the window server may refuse a line (`owed`) or the size may change
(`aged`). That of the menu bar is a sum over the workspaces' windows by their place in the
list and their frame (`Signature`), so that neither an order nor an application is told.

**Runtime.** *Persistence* is save-and-exit step by step with crashes and failing writes,
loading, migration and what is refused. *RunLoop* is the executor's source and port, the
timer, and a task that waits for messages and a timeout, as the raise manager's does.

Operators named `Faulty...` (in RaiseManager also `OnceOnly...`), or preceded by
"Mutant", are used by nothing: each is a plausible mistake in the definition that
follows. `PROJECT.json` names one for every property of a passing run, with which the
property fails.

## 3. Runs

| Run (module) | Instance | Checks |
|---|---|---|
| CoreTopology (MCCoreState) | 2 displays, 1 window, 2 numbered slots, 4 ids | every online display owns a numbered workspace and shows one of its own; a return from the hidden workspace is kept exactly while it shows; `validate()` refuses no topology, switch or toggle, and a move only in LostReturn; displays that come and go lose no window and change nothing elsewhere; ids are stable |
| CoreRules (MCCoreState) | 2 displays, 1 window, 2 slots, 3 ids, 5 kinds of rule | frames are remembered for floating windows only; no observation moves an assigned window, but for the merge of hidden workspaces |
| CoreNewcomers (MCCoreState) | 1 display, 2 windows, 3 slots | windows that appear together under rules for the same or different new numbers always validate |
| Surroundings (MCSurroundings) | core: 1 display, 2 windows; lines: 2 displays, up to 2 stacks, 2 sizes, 3 changes or refusals, 1 click; item: 3 displays, 2 updates, 2 changes of the settings, 2 widths of room; layout: 3 numbers, 3 starts, 3 changes, 7 files; loop: 3 senders, timeout 2, time to 5, timers up to 1 early | focus, its history and the drag name present windows; lines and menu bar item show at rest what was published last, but for what their signatures do not tell and what was refused; clicks arrive, the item's form is stable; what was saved last is restored; the run loop sleeps only when its task has nothing to do, and no sequence is timed out early |
| Tiling (MCTiling) | 3 windows, ratios in quarters; 2 segments, lengths and weights to 3 | the tree is valid and implements Tiling; swaps, arrivals and departures resize nobody they should not; segments fit, respect bounds and proportions |
| Raises (MCRaiseManager) | 2 applications, 3 windows, 2 requests, switches, one application may terminate, after which it is waited for till the timeout | one sequence at a time has live raises and is waited for; windows come up in order, the focus last; nothing is begun for a superseded switch; every request ends and the mutex is released |
| WindowFrames (MCWindowFrames) | 2 windows, created or found, one stubborn, 3 transaction ids, 2 inputs (commands, listings, changes, presses) | at rest every window that is not stubborn is where the layout wants it and where the reactor believes it, unless it was never moved since it was created; a fight over a frame ends |
| Displays (MCDisplays) | 2 displays, 2 reconfigurations or other changes, a retry of each kind; 1 window, 1 reconfiguration | handlers see the flags of the last reconfiguration; screens get spaces of their own and the quarantine ends; no window is missed, and none that is gone is kept but for two reasons |
| Services (MCServices) | 2 clients, ports of one message; 2 keys, 2 settings, 2 changes of the file and a command; 1 application with 3 changes; 2 windows, 3 wishes; 2 applications on 2 workspaces, 2 commands, 1 pick | subscriptions agree and events arrive; the last configuration reaches everyone and answers are true; applications are managed exactly while they are there; hidden windows are left out; the last command or pick stands, and a switch leads to no other |
| Input (MCInput) | 1 modifier, 1 key on 2 layouts, 3 requests, 1 fault, 3 strokes; 2 fingers on 2 columns, 5 events, 1 lost; 3 spaces on 2 screens with two notices of them, 2 changes, 2 toggles | every hotkey fires in the state it was pressed in; a tap that should listen does; a swipe switches once per distance; spaces that were turned off stay off |
| Overview (MCOverview) | 2 displays, 3 workspaces, 2 windows, 2 keys; 2 pictures, 2 workers, 2 redraws; 2 windows, 2 displays, 3 workspaces and the hidden ones, 5 steps | what is picked becomes active; every window gets its picture; a window is elsewhere only for a command, its rule, or where it was before |
| LostReturn (MCCoreState) | small | a violation: section 6 |

Further configurations show what does not hold and are not part of the list of runs:
`LostFocus.cfg` (MCRaiseManager), `AnimationLeft.cfg` (MCWindowFrames),
`ReplugIgnored.cfg` and `SpacesForgotten.cfg` (MCDisplayChurn). The other properties
that section 6 names fail within seconds when they take the place of the properties of
Displays (`NoGhosts`), WindowFrames (`NewWindowsSettle`), Services, Input, Overview or
Surroundings; `StaysWhereCommanded`
and `OnlyNewerSupersedes` with `Cases <- HurriedCases` and `MaxPicks = 0` in Services.

**Why the bounds are enough to be interesting.** Two displays can go offline together,
one after the other, or swap, with hidden workspaces on both to merge; with two slots
and an id to spare every number can be in use and a workspace can be destroyed and
made again. Three windows make a tree of two levels, a stack of two beside a group and
a stack of three, which is what the surgery in `collapse_empty_group` and the ancestor
search of `resize` distinguish. With quarters a ratio can be at its lower limit, its
upper limit and between. Two segments can be clamped in opposite directions in one
round. Two requests are enough for a hung application in front of a live one, and
switches supersede the queued, the sent and the blocked one. Three transaction ids
wrap. Two reconfigurations overlap in every way, with one retry of each kind outdated
by the next. Ports and queues of one message are full at once. Two workers and one
picture taken at once on the main thread leave a job for each kind of loss. Three
starts suffice for a save, a save that is interrupted, and a start that reads what is
left; three messages for a sequence, its end and the next. Every bound is named in its
module and appears in a guard: what it cuts off is the supply of inputs, and of ids in
the core.

**Views and symmetry.** Some core runs project the state: the catalog depends neither
on the focus history nor on a drag, these do not depend on each other, and nothing
depends on the remembered frames, so a run explores one state per value of what it
checks and of what that depends on. `InteractionView` tells foci apart only while
nothing is dragged: a drag disables no focus change. The tree's views drop the axis of
a stack, or selections and fullscreen, for the same reason. Views of composed modules
drop the parts at rest. `MCTiling` uses the symmetry of windows and `MCOverview` that
of windows and workers; neither checks liveness.

**Constraint.** In Displays the reactor handles a snapshot at once (`SnapshotsAtOnce`): nobody
else reads what it changes then, and it reads only its own state.

**Deadlock** is not checked: the supply of inputs is bounded, and every component may
rest. What "rest" must mean is said by the properties instead: "when nothing is under
way, ..." is checked in every such state.

**Fairness** is assumed where liveness is checked. In RaiseManager each task of the run
loop and each application thread that can go on does so (weak fairness), and a timer
that stays set fires; this is what a preemptive scheduler and a run loop give. There
is none for `Activated`, since an activation may never arrive, none for failures, the end of a
switch or requests. An Accessibility call that hangs returns at last, since the system
bounds it; without that a thread would keep the mutex and no property of Lift could
help it. In WindowFrames the reactor, the animation manager and the thread go on while
they have something to do. Elsewhere that something happens at last is said without
fairness, of the states in which nothing is left to do.

## 4. Proofs

**The core.** The first part of `CoreStateProofs` proves, operation by operation, that
the catalog keeps being sound and its displays served; the second lifts this to every
action. They hold for any finite set of displays and windows, any number of slots and
ids, any topologies and rules, from the named assumptions `CatalogAssumption` and
`InputsAssumption`, which TLC evaluates in every core run.

| Theorem of CoreStateProofs | Statement |
|---|---|
| `Invariance` | `Spec => []IInv` |
| `TypeCorrect` | the state is well typed |
| `NumberKept` | a display with a workspace has a numbered one, so `expect()` in `reconcile_displays` never panics |
| `ShownIsOwn` | every online display shows a workspace of its own |
| `IndexesExact` | number and hidden index name live workspaces, each its own |
| `IdsStable` | no id is reused, no live workspace changes its number |
| `WindowsAccepted` | what an accepted input leaves is what `validate()` demands of the windows |
| `OnlyLostReturnsRefused` | `validate()` refuses nothing but a move that loses the workspace to which a display returns |
| `ReturnsFromHidden` | a display remembers where to return exactly while it shows its hidden workspace |
| `FramesFloat` | frames are remembered for floating windows only |
| `NamesPresent` | focus, history and drag name windows that are there |
| `AssignmentsStand` | no observation moves an assigned window, but for the merge of hidden workspaces |
| `TopologiesAreLocal` | displays that come and go lose no window and change nothing elsewhere |

The inductive invariant of the workspaces is
`IInv == TypeOK /\ Sound(catalog) /\ Served(catalog, online) /\ OnlineDisplaysShowTheirOwn`.
None of the properties is inductive alone. `validate()` is part of every committed step
but not enough: it counts the entries of an index and follows them from the
workspaces, so that two entries with the same target and one missing would pass;
`Sound` says that the index is exact, that ids are below `nextId`, and that an owner
has a numbered workspace (`KeepsANumber`). The last is needed because
`reconcile_displays` falls back on the first numbered workspace of a display, and
holds because `destroy_if_ephemeral` spares the last one. `Served` says that online
displays are known and own a workspace, from which `Settle` can give them one to
show. Each operation has a lemma `ASSUME Sound(c), guard PROVE Succeeds(c, Op(c, ...))`,
where `Succeeds` is soundness of the result, stability of ids and service of the same
displays; an action's step is a composition of these lemmas, and the theorems follow
with PTL.

For the windows it is
`VInv == IInv /\ Good(catalog) /\ Housed(catalog, managed, present) /\ NamesPresentWindows`
(`Validity`). `Good` adds to what `validate()` demands of memberships and displays what
its checks rest on and it does not look at: a display remembers where to return
exactly while it shows its hidden workspace (`ReturnsFit`), a display that is gone
shows and remembers nothing (`Tidy`: it may come back and be shown what it remembered),
and frames are remembered of floating windows only (`FramesFit`). `Housed` says that
the managed windows are the assigned ones, and all present. Each operation has a lemma that leads from
`Good` to `Good`; only `Relocate`, which destroys the workspace a move has emptied, leads to
`Good` or to `LostReturn`, which `validate()` refuses. That is why
`OnlyLostReturnsRefused` can name one case.

**The raises.** `RaiseManagerProofs` holds for any windows, applications, responses and
number of requests, from `RaiseAssumption` (what a response may ask for; a window is
of one application, and none is in two batches) and `NoneIsNoSequence`.

| Theorem of RaiseManagerProofs | Statement |
|---|---|
| `TypeCorrect` | the state is well typed |
| `Invariance` | `Spec => []IInv` |
| `OneSequence` | a raise that will still be carried out is of the active sequence and has its current token |
| `Waits` | the manager waits for every window that will still be raised |
| `InOrder` | windows are raised in the order of their requests, the focus last |
| `StaleSwitches` | nothing is begun for a switch older than one the manager knows of |

`OneSequenceAtATime` is not inductive: a sequence ends when nothing is pending, and
that nothing of it is then alive needs `WaitsForItsRaises`. That in turn must exclude
that a report of an earlier phase, which may come at any time, removes a window of the
focus raise from the pending ones: the report has the same sequence id.
`WindowsAreRaisedOnce` excludes it, because a window of a sequence is unsent, in one
raise or reported, and never two of these; this is where it matters that the reactor
puts no window in two batches. `TokensAreFresh` says that a new token is in nobody's
hands, so that nothing is alive right after a timeout. For `InOrder`, `FocusIsLast`
says that once the focus raise is sent nothing else of its sequence is alive or
unsent, and `HolderIsInOrder` carries this over to the thread that has the mutex,
whose token may be cancelled after it was checked. The lemmas are layered in this
order, and each is proved from what an action does to the raises (`Progress`,
`SendAppends`), the completions (`CompletionsStep`) and the sequence (`Handles`).

**The input thread.** `InputTapProofs` holds for any keys, layouts, bindings and
configurations, from `InputAssumption` (the families of modifiers and the single keys
are different things). `Listens` is `TapListens`; `Fires` says that every hotkey fires
in the state it was pressed in. The inductive invariant is
`IInv == TypeOK /\ Repaired /\ Masked /\ Tabled /\ Configured`: a tap that is off or dead
has a notification, a recovery of its generation or a refused attempt to its name
(without the generation, a recovery that is outdated would do); the mask, the table of
hotkeys and the disable hotkey are those of the configuration and layout in use.
`Handled` is `InputIsHandled`: beside the hotkeys, a sampled move is passed on exactly when
focus follows the mouse and the key that suspends this is not held. The second speaks of
the moves at which that key is a modifier, with others that are named without a side
(`SuspendedByModifier`); configurations with other keys may come before and after. For a
modifier the flags of each event tell the thread what is held, also after events were lost,
which is `Concluded(state)`, and a new configuration draws the conclusion anew; of any other
key the thread knows only the presses that were delivered.

The same module proves `SwipesRight`, for Gestures, from `GesturesAssumption` (finitely
many fingers, thresholds that are natural numbers, and `None` is none of the values it
stands beside). The property compares the
handler with the movement of each finger, the handler knows only the average: `SumsDiffer`
shows that the difference of two sums is the sum of the differences, for any number of
fingers, and `Scaled` that averages of equally many fingers compare as their sums do.
`SwipeInv` says that while it can be told what the fingers ask for, the handler's start is
the average at which they came together, and it is armed exactly until the distance was
reached (`SwipeFollowed`); a finger that rests or an event that is lost ends this.

`ChoicesRight`, for SpaceActivation, from `SpacesAssumption` (the screens have an order, each
has a UUID of its own at first, and each space its screen). The policy keeps what
the user turned off under ids that the system changes, and learns of a change only when the
space is seen. `ChoiceInv` therefore speaks of the id by which the policy knows a space:
for the space last seen on a screen the id it had then, for others their own (`KnownAs`).
Under these ids the disabled spaces are those that were turned off (`OffDisabled`), nothing
is disabled under an id that was not seen (`DisabledSeen`), and no other space has the id
last seen on a screen (`LastOwned`): without that a transfer would take along the choice for
another space. A snapshot is an induction over the screens, where those that had
their turn are known by their new ids and the others by the old (`Reading`). That the
property's exception, `odd`, leaves out nothing else is part of the proof: in a snapshot
without a `Misread`, each transfer is between two ids of one space. A snapshot without any
space is no exception: the policy forgets the last space only of screens that are not listed.

**Display churns.** `DisplayChurnProofs` proves `LastFlags`, for any displays, retries
and overlaps, from `DisplayAssumption`. In `IInv == Noted /\ Flagged`, the notes are of four
kinds and the queue is one (`IsQueue`), and `Kept` says where the flags of the
reconfiguration are: during it in `FLAGS`, or among the writes that are left before its
`Begin`; after it in `COMPLETED`, or among the writes that are left before its `End`. The
atomics are written one by one and the reactor reads them at any time, so `Kept` has a
case for each prefix of the writes; while a `Begin` or an `End` is in the queue
(`Unmarked` fails) the reactor need not know yet.

The same module proves `WindowsKnown`, for any windows and any number of
reconfigurations, without an assumption. `TrackingInv` follows what is said of a window
through four queues. `QuarantinesEnd`: an event in the channel will be handled in a
quarantine or not (`QuarantinedAt`), which is settled when it is sent, and the end of
every quarantine is on its way. `WindowsCome`: a window that is there is known, or its
application will tell of it, or is asked to, or a snapshot at the end of the quarantine
will have it asked. `WindowsGo`: a window that is gone is queued for removal (`Dying`),
or tracked, so that the window server's news of its end (`Mortal`) or the comparison at
the end of the quarantine removes it, or one of the exceptions. That rests on two facts
the code does not state: a window that is there never loses its id, and one that a
quarantine finds is among those to compare (`Compared`); and what still tells the
reactor of a window that is gone comes before the news of its end, or is dropped
(`ToldInTime`), since otherwise it would bring the window back for good. `OnlyAtTheEnd`
and `LaunchedFirst` order the application's life, and `DeadStayDead` says that nothing
announces the end of a window that is there. The reactor's eleven handlers are first
shown to do one of a few things to each part (`Reaction`), the steps of the others to
append events (`Grown`); the invariant is kept by either.

The third is `ScreensSettled`, for any displays, retries and attempts, from
`DisplayAssumption`: at rest each screen shows a space of its own display, and the
quarantine is over. `SpaceChanged` brings spaces without their displays, so that
`ScreensInv` follows the queue: once no reconfiguration and no refresh is left
(`Rested`) and the refresh had not given up, there is a last snapshot of the displays that
are online, in the queue or handled, and whatever is behind it are spaces of these
displays in their order (`ScreensCome`, `Follows`). It rests on the cache being of the
displays that are online unless a reconfiguration is still to be noticed
(`CacheIsTrue`), on the check and the refresh that a churn leads to not getting lost
(`ChurnsEnd`), and on the last `End` having no `Begin` behind it (`ChurnIsOver`): only then
does the last snapshot find the reactor waiting and end the quarantine, or is refused since
a display it has went offline in an earlier churn (`Accepted`). That the displays have an
order is an induction over their number (`OrderingExists`).

**The reactor's neighbours.** `ServicesProofs` has three components. `AppsFollowed`, for
Launch: at rest, an application that runs, is regular and finished launching has a thread
that the reactor knows, unless Accessibility refused it or it was announced too early, and
the reactor has no thread of an application that ended. (It does not say that a thread is
the only one: *NoThreadIsLeft* fails.) `LaunchInv` is a conjunction along the way of the news: who is told of an end
(`NobodyEnds`), who still waits (`ObserversWait`), that each thread is announced to the
reactor once (`ThreadsAreHeardOf`), that the reactor's handle is live or its end is
queued (`HandleIsLive`), that a running application has somebody who will look at it or
a thread on its way (`IsFollowed`), and that its end arrives after the last launch
(`EndIsHeardOf`). `ConfigurationFollowed`, for Configuration, from `ChangesAssumption`: at rest the
reactor has the committed configuration, the panels have the reactor's and the hotkeys are
its own; the tap's copy of the rest is not meant (*TapsFollow*, *WatcherFollows* fail).
`ConfInv` says that the last of the reactor's queue, or the reactor if nothing is
queued, has the committed configuration (`ReactorFollows`), the same of the controller
and the hotkeys (`BindingsFollow`), that a change of the file that was not taken over
will be noticed or reloaded (`FileFollowed`), and that each request has a number that is
in the queue, done, or answered, never two of these (`Numbered`, `TruthTold`).
`SubscriptionsRight`, for Ipc, from `IpcAssumption` (no set of names or clients is
`None`): when all threads rest, the two concurrent maps tell the same, the server holds
one send right for each client in them, whoever waits has its reply, and what a client
was promised is in its port. At rest the maps agree; in between `MapsFit` says exactly
how they differ, for the step that the main thread or the worker has come to
(`Listings`, `Entries`, `Rights`), as long as the two were not at the maps together.
`RequestsFit` says that a client has one request or one reply under way and that who is
about to be unsubscribed is promised nothing. `BroadcastsCome` counts: what a client must
still get is at most what is in its port, in the worker's queue, in the worker's hands
and in the bridge's (`CountAppend`, `CountTail`). A client of the name `*` counts for
the bridge only while it is listed, so no step of the maps may take it off the list,
except for a client to whom a send failed, or who asked for it.

`HidingProofs` proves `HidingSeen`, for AppVisibility: the reactor knows which windows are out of
sight, for any number of windows, wishes, listings and misreadings, from
`HidingAssumption` (an application has finitely many windows, which `SetToSeq` needs).
The thread's events are still to be handled, so `HidingInv` speaks of what the reactor
will hold when it has handled them (`WillBeTracked`, `WillBeMinimised`): handling an
event changes neither of a window that is registered (`ReactorTracks`), and what the
thread sends changes both as the last event says (`WillWithOne`, `WillWithMany`). With
that, the invariant compares the thread with the world, across the notifications on
their way. The last that is told of a window and the Dock is true (`LastIsTrue`); a
window that nothing is told of is minimised for the reactor if it is in the Dock, and
only if it is there or `hiddenByApp` (`DockIsTold`). `HidingAlternates` is what makes
that inductive: between two notifications of hiding there is one of showing, so that
`on_application_hidden` never returns early, and while the application is hidden
whatever would show a window again has a notification of hiding behind it.

**Around the core.** `SurroundingsProofs`, from `PartsAssumption`, has four.
`NothingSleptThrough`: `LoopInv` follows a wake-up through its three steps; a waker that
was taken is about to signal (`WakerIsTaken`), a signal that the loop has not seen is
followed by a wake-up (`SignalIsFollowed`), a message that came after the poll has a
sender that will take the waker (`MessageIsFollowed`), and the same for the timer,
which is set for the deadline or earlier (`TimerIsHeard`, `TimerIsSet`). `LayoutRestored`:
`SaveInv` relates what is encoded, the temporary file and the layout file in each step of
a save (`SaveIsSound`, `FileIsSound`), and a catalog with distinct ids below `nextId`
(`CatalogIsSound`); that `nextId` is above the ids of any file found needs the existence
of a highest id, proved from the well-foundedness of the strict subset relation.
`MenuCurrent`: in `BarInv` the last settings and
update are the last of their kind in the channel, pending, or drawn (`SettingsArrive`,
`UpdatesArrive`, `PendingIsApplied`, `ItemIsDrawn`), where an update with the signature of
the one that is drawn counts as drawn, and shows the same but for orders and icons; and the form is the one the width
asks for after one turn (`FormFits`).
`LinesTrue`: `LinesInv` says that what is shown is still to be published, or in the
channel with only clicks behind it, or on the screen (`PicturesArrive`), and that a click
with nothing new before it has seen what is there (`ClicksAreTrue`). That the screen is
right after a snapshot is an induction over its displays: while they are gone through, the
lines of those that had their turn are new, the others old, and a group that went from one
display to another has one line, of either (`Turned`, `Draws`). Only after the last turn
does the absence of equal ids make the lines those of the snapshot (`Ends`).

**Pictures.** `OverviewProofs` has three, for MissionControl, Previews and WindowMoves.
`PreviewsCome` holds for any windows, workers and
bounds, from `PicturesAssumption`. Properties of rest say nothing about the way there, so
the invariant says of every window without its picture what is under way: a job of this
overlay and generation, a worker that has taken it up (`JobComes`), or a picture in the
cache and a refresh, a timer or a worker that will look at it (`RefreshComes`).
`EntriesAreTrue` says the same of `inFlight`, which keeps new jobs from being made: an
entry of this generation without a job would be a window that waits for ever.

`PicksHonoured`, from `OverviewAssumption` (workspaces and windows have an order): a pick
goes as a position through three queues, and the overlay leaves out workspaces without
windows. `PickInv` says that an overlay's tiles are those of the list it was drawn from
(`Faithful`), and that the position in everything that is queued leads, in the list it was
drawn from, to the workspace that was highlighted (`Honest`). `ListOf` and `Visible` are
written with the positions that are taken (`At`), since the prover cannot unfold
`SelectSeq`.

`MovesExplained`, from `MovesAssumption` (each display has a hidden workspace, and a rule
names a workspace): `MovesInv` says that what is shown, has windows or is a target exists
(`Existing`), and that a window without a reason is where it was put last and its target
does not say otherwise, or it has no workspace yet and its target is that place
(`Settled`). The loop of `process_windows_for_app_rules` takes the
windows in any order and moves each, if it does, to its own target, so that the invariant
holds after every turn.

**Induction.** The library's induction theorems take an operator, which the provers cannot
instantiate. Loops over a sequence of any length are therefore written as recursive
functions, and a fact about every turn is proved with `SetInduction`: a set that has 0 and
with each number its successor has every number, because a set of numbers has a least one
(`LeastNumber`). That such a function exists is the first induction of this kind
(`TurnsExist`, `SnapshotUnfolds`), that the invariant survives the loop the second. Sums over
a finite set are done in the same way, by its size (`SumExists`), and so is the order of
a set of displays (`OrderingExists`).

**Only model-checked** are the properties for which the prover lacks the means, or that
do not hold for every value of the constants:
- liveness (`EverythingEnds`, `FightsEnd`): no fairness, no ENABLED;
- what recursive operators compute over trees, and weighted sums: `TreeIsSound`,
  `HalvedKeepsItsPromise`, `ChangesStayLocal`, `SegmentsAreRight`;
- what rests on an operator of the library that the prover cannot unfold:
  `SettlesAsPlanned` (`FlattenSeq`); it also needs that a wrapped transaction number is
  not met again while it is pending, which holds within the bounds of the run and not for
  every value of them;
- `UserIsObeyed`, which holds for the run's kinds of switches only: with `HurriedCases` what
  it leaves out would come in, and it fails (section 6).

## 5. What a property is worth here

The runs are aimed at the hazards in `PROJECT.json`, and their properties relate an
earlier state to a later one or one party to another. `RaisesInOrder` fails if the
token is checked only before the mutex is taken: a thread that slept on the mutex then
raises windows over a newer focus. `NothingIsSleptThrough` fails if the loop is woken
before its source is signalled. `PreviewsAppear` fails if a refresh forgets which jobs
it overtook. Several properties carry exceptions, each a named part of the definition
with its reason: those are the code's own limits, most of them in section 6, and the
property says that there are no others. `LinesAreTrue` and `MenuIsCurrent` are of this kind:
what they leave out is what the signatures do not tell, and the stronger properties
(`SettingsAreDrawn`, `RefusedIsTriedAgain`, `OrderIsShown`, `IconsAreShown`) fail. So is
`PickIsHonoured`, which speaks of picks from a list that is still the same;
`PickLeadsThere`, without that, fails. Where a run lists one name for several
properties of a module, the model-checking module shows their conjunction.

## 6. Disagreements between the code and what is said of it

With a run:
- **LostReturn** (`workspace.rs:474`). Moving the only window out of the workspace to
  which a display will return from its hidden workspace destroys that workspace;
  `hidden_return` is not cleared, `validate()` objects and the command is refused.

Shown by a configuration or property of section 3 that is not a listed run (the file
quoted by each is in `PROJECT.json`):
- *LostFocus* (`reactor.rs:3221`): a focus that is chosen when the layout asks for none
  goes to the raise manager without its application's handle, and is dropped.
- *ReplugIgnored* (`display_topology.rs:76`): a second reconfiguration overwrites the
  flags that would let the snapshot of the first pass.
- *SpacesFollow* (`notification_center.rs:271`): a change of spaces during a refresh is
  left to the refresh, which may find nothing to send.
- *NoGhosts* (`window_discovery.rs:192`): a window whose end was dropped by a quarantine is
  on no active space's list, and so never found stale.
- *AnimationLeft* (`animation.rs:640`): a window that the next animation moves by
  itself is not told that its animation ended.
- *StaysWhereCommanded* (`managers.rs:133`): only the focus window's application gets a
  grace; the notices of the others that were raised switch back.
- *OnlyNewerSupersedes* (`raise_manager.rs:202`): an automatic switch cancels its own
  raises.
- *OneSpaceOnly* (`space_activation.rs:146`): with `one_space` the space that is managed
  follows the first screen.
- *SidesAreTold* (`event_tap.rs:846`): left and right modifiers are told apart by the flags
  before the event.
- *StillnessIsRespected* (`gesture_tap.rs:288`): lifting a finger moves the average.
- *ReadyIsHeard* (`sys/app.rs:231`): an application that is regular before it has
  finished launching is announced once, too early.
- *TapsFollow* (`command.rs:798`): the taps get a new configuration only if keys changed.
  *WatcherFollows* (`config_watcher.rs:110`) and *CommittedIsUsed* (`command.rs:762`)
  fail for similar reasons.
- *DisabledShowsNothing*, *EveryGroupHasItsLine* (`actor/stack_line.rs:188`, `:123`): a disabled
  stack line draws with the next snapshot; two displays' groups with the same id share
  one line.
- *SettingsAreDrawn* (`actor/stack_line.rs:350`): a new thickness or spacing does not reach
  the lines until their groups change.
- *OrderIsShown*, *IconsAreShown* (`actor/menu_bar.rs:294`, `:371`): another order of the
  displays, or another application with windows in the same places, is not drawn.
- *NewWindowsSettle* (`events/window.rs:46`): the own frame of a new window counts as
  requested, so that a change by its application is taken for Lift's and never put back.
- *HiddenStayLeftOut* (`app.rs:410`): a listing brings the windows of a hidden
  application back into the layout.
- *DeferredMovesArrive* (`reactor.rs:2528`), *HiddenStaysHidden* (`reactor.rs:2796`),
  *LastCommandWins* (`reactor.rs:3785`): a window that is moved before its workspace
  exists, to the hidden workspace, or while a command expects it, goes elsewhere when
  it is seen again.
- *HighlightFollows* (`wm_controller.rs:184`), *NativeIsKnown* (`reducer.rs:698`): some
  switches do not refresh the highlight; requests for Lift's overlay and observations
  of the system's Mission Control overwrite one phase.
- *CursorReturns* (`event_tap.rs`): a hidden cursor is not shown again when the mask has
  no mouse moves. *NoThreadIsLeft* (`app.rs`): of an application found twice the first
  thread never ends. *NobodyIsLost* (`subscriptions.rs:320`): a sweep races a new
  subscription.

Noticed while modelling, without a run:
- *core*: after the hidden workspace, `last` can name the workspace that is shown
  (`workspace.rs:265`); reloaded rules can create a workspace on an offline display
  (`reducer.rs:401`; `architecture.md:119`); the published last tiled window may have
  left its workspace (`reducer.rs:787`); a segment clamped to its maximum and one to its
  minimum in one round can leave space blank or push the last segment below its
  minimum (`constraints.rs:136`).
- *raises*: a timeout that travels through the reactor while the raises complete cancels
  the focus raise that follows (`raise_manager.rs:116`). A command for the workspace that
  is shown may raise its focus late, and undo a later command.
- *displays*: a refresh that gives up leaves the quarantine; displays are re-read only when
  the cache is dirty; `disabled_displays` is never filled; `default_disable` turned on by a reload leaves
  `disabled_spaces` in the way of toggles.
- *services*: `unsub-mach` (`lift-cli.rs:382`) has no effect; answers longer than a Mach
  message (`mach.rs:1281`) are never sent, and an event that long unsubscribes healthy
  clients; an event that overtakes the answer to a subscription makes the library give up;
  the main thread may wait 5 s for a configuration query; `Save`, `Set`, reload undoes the
  `Set`; the overview's configuration is never updated; an application whose
  Accessibility calls fail at first (`app.rs:603`) is never tried again.
- *input*: a failed recreation of the tap is not retried; the watchdog does not look at
  the disable hotkey.
- *pictures*: the list of the overview is never refreshed while it is open, so that a pick
  leads elsewhere when workspaces came or went (`PickLeadsThere` fails); a line that the
  window server refused is not tried again before its group changes
  (`actor/stack_line.rs:295`; `RefusedIsTriedAgain` fails); the fade
  at its end never runs, since the overlay is dropped right after (`actor/mission_control.rs:124`);
  workers hold addresses of overlays that may be gone; updates of the menu bar less
  than 150 ms apart for ever are never drawn (`actor/menu_bar.rs:256`).
- *runtime*: one bad entry makes the whole saved layout be ignored; the ids of hidden
  workspaces are given again after a restart; `fs::write` is not flushed before the
  rename, so that a crash of the machine may lose both.

## 7. Not modelled, and why

Placement, geometry, the string matching of rules, the overlap test of drags and
`layout()` are pure computations on floating-point rectangles or strings; the models
take any result they may have. Effects, errors, the IPC protocol and the parsing of the
configuration are data. Drawing with AppKit and the bindings to macOS keep no state
that the window manager's behaviour depends on; what macOS does is modelled where Lift
depends on it, and marked external in `PROJECT.json`. Diagnostics is a log file.

In the modelled parts: workspace names, revisions and the generation of an observation
(the reactor passes the one it has just read); pointer warps; the login window and XPC
services in Launch; Dock swipes in Gestures; programs run by hotkeys or for events;
native fullscreen; sleep, but for the wake after it; a run loop inside a handler; a
crash of the machine; a second instance of Lift. In Activation the cursor is over no
window, graces end only at rest, and a user either waits for a switch or does not; raise
timeouts are in RaiseManager only. In AppVisibility every window of a hidden
application is known to the window server. In MenuBar the padding is not above the
margin for growing, and frames of different windows that happen to add up to the same sum
are left out. In StackLine the window server does not refuse to order a window in or out.
In SpaceActivation one screen is always left: of a snapshot without any the policy is not
told.

## 8. Plan

Done: the core, raises, frames, displays, services, input, overview, lines and menu
bar, persistence and the run loop. What is left:

1. Proofs: `SettlesAsPlanned`, once its fold is written as a function that the prover can
   unfold.
2. The remaining parts of the reactor: focus follows the mouse with its windows, native
   fullscreen, and the login window in Launch.
3. The refinement of the catalog's trees (BspTree inside WorkspaceCatalog).
